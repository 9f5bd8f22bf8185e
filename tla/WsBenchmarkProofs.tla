---------------------------- MODULE WsBenchmarkProofs ----------------------------
(***************************************************************************)
(* Proofs about wsbenchmark: its data path, WriteSend, for any connections,*)
(* queue sizes and buffers, and its processes from start to end,           *)
(* WsLifecycle.  The data path of WsLifecycle is that of WriteSend, whose  *)
(* invariants therefore hold to the very end; with the counts of the main  *)
(* threads they say what the disconnect finds and what becomes of the      *)
(* released memory.                                                        *)
(***************************************************************************)
EXTENDS WsLifecycle, BenchRunProofs, FiniteSetTheorems

LEMMA RequestsTyped == WriteRequest \in WorkRequests /\ SendRequest \in WorkRequests
BY DEF WriteRequest, SendRequest, WorkRequests, Opcodes

----------------------------------------------------------------------------
(* Type correctness.                                                       *)

LEMMA InitType == Init => TypeOK
<1> SUFFICES ASSUME Init PROVE TypeOK
  OBVIOUS
<1>1. VerbsTypeOK
  BY DEF Init, RunInit, VerbsTypeOK
<1>2. BufferTypeOK
  BY DEF Init, RunInit, BufferInit, BufferTypeOK
<1>. QED
  BY <1>1, <1>2 DEF Init, RunInit, TypeOK, RunTypeOK, WorkerPcs, ServerPcs

LEMMA WorkerType ==
    ASSUME TypeOK, NEW c \in Conns, worker(c)
    PROVE  TypeOK'
<1>. USE EndsFacts, RequestsTyped
<1>1. VerbsTypeOK' /\ BufferTypeOK'
  <2>1. CASE worker_begin(c) \/ worker_stop(c)
    BY <2>1 DEF TypeOK, RunTypeOK, VerbsTypeOK, BufferTypeOK, worker_begin, worker_stop,
                WorkerBegin, WorkerStop, verbs, buffer
  <2>2. CASE worker_write(c)
    BY <2>2, PostSendType DEF TypeOK, RunTypeOK, BufferTypeOK, worker_write, buffer, post_send_write
  <2>3. CASE worker_recv(c)
    BY <2>3, PostRecvType DEF TypeOK, RunTypeOK, BufferTypeOK, worker_recv, buffer, post_recv_notification
  <2>4. CASE worker_flush(c)
    BY <2>4, PostSendType DEF TypeOK, RunTypeOK, BufferTypeOK, worker_flush, buffer, post_send_flush
  <2>5. CASE worker_poll_send(c)
    BY <2>5, PollSendType DEF TypeOK, RunTypeOK, BufferTypeOK, worker_poll_send, buffer, node_poll_n_send
  <2>6. CASE worker_poll_recv(c)
    BY <2>6, PollRecvType DEF TypeOK, RunTypeOK, BufferTypeOK, worker_poll_recv, buffer, node_poll_n_recv
  <2>. QED
    BY <2>1, <2>2, <2>3, <2>4, <2>5, <2>6 DEF worker
<1>2. UNCHANGED <<run, server>>
  BY DEF worker, worker_begin, worker_stop, worker_write, worker_recv, worker_flush,
         worker_poll_send, worker_poll_recv, WorkerBegin, WorkerStop
<1>3. wpc' \in [Conns -> WorkerPcs] /\ posted' \in [Conns -> Nat] /\ ops' \in [Conns -> Nat]
  BY DEF TypeOK, RunTypeOK, WorkerPcs, worker, worker_begin, worker_stop, worker_write, worker_recv,
         worker_flush, worker_poll_send, worker_poll_recv, WorkerBegin, WorkerStop, WorkerGoto,
         BeginOperation, ContinueOperation, CountOperation
<1>. QED
  BY <1>1, <1>2, <1>3 DEF TypeOK, RunTypeOK, run, server

LEMMA ServerWorkerType ==
    ASSUME TypeOK, NEW c \in Conns, server_worker(c)
    PROVE  TypeOK'
<1>. USE EndsFacts, RequestsTyped
<1>1. VerbsTypeOK' /\ BufferTypeOK'
  <2>1. CASE server_poll_recv(c)
    BY <2>1, PollRecvType DEF TypeOK, RunTypeOK, BufferTypeOK, server_poll_recv, buffer
  <2>2. CASE server_post_recv(c)
    BY <2>2, PostRecvType DEF TypeOK, RunTypeOK, BufferTypeOK, server_post_recv, buffer, post_recv_flush
  <2>3. CASE \E l \in Lines : server_persist(c, l)
    BY <2>3, BufferType DEF TypeOK, RunTypeOK, VerbsTypeOK, server_persist, verbs
  <2>4. CASE server_persisted(c)
    BY <2>4 DEF TypeOK, RunTypeOK, VerbsTypeOK, BufferTypeOK, server_persisted, verbs, buffer
  <2>5. CASE server_notify(c)
    BY <2>5, PostSendType DEF TypeOK, RunTypeOK, BufferTypeOK, server_notify, buffer, post_send_notification
  <2>6. CASE server_poll_send(c)
    BY <2>6, PollSendType DEF TypeOK, RunTypeOK, BufferTypeOK, server_poll_send, buffer, node_poll_n_send
  <2>. QED
    BY <2>1, <2>2, <2>3, <2>4, <2>5, <2>6 DEF server_worker
<1>2. UNCHANGED <<run, client>>
  BY DEF server_worker, server_poll_recv, server_post_recv, server_persist, server_persisted,
         server_notify, server_poll_send
<1>3. spc' \in [Conns -> ServerPcs]
  BY DEF TypeOK, ServerPcs, ServerGoto, server_worker, server_poll_recv, server_post_recv,
         server_persist, server_persisted, server_notify, server_poll_send
<1>4. unflushed' \in [Conns -> SUBSET Lines]
  BY DEF TypeOK, server_worker, server_poll_recv, server_post_recv, server_persist, server_persisted,
         server_notify, server_poll_send
<1>. QED
  BY <1>1, <1>2, <1>3, <1>4 DEF TypeOK, RunTypeOK, run, client

LEMMA NetworkType ==
    ASSUME TypeOK, NEW c \in Conns,
           nic_write(c) \/ nic_flush(c) \/ nic_notify(c) \/ transport(c) \/ environment(c)
    PROVE  TypeOK'
<1>. USE EndsFacts
<1>1. \A s \in Sides : <<c, s>> \in Ends
  BY DEF Ends
<1>2. VerbsTypeOK' /\ BufferTypeOK'
  <2>1. CASE nic_write(c)
    BY <2>1, DeliverType, BufferType DEF TypeOK, RunTypeOK, nic_write
  <2>2. CASE nic_flush(c)
    BY <2>2, DeliverType DEF TypeOK, RunTypeOK, BufferTypeOK, nic_flush, buffer
  <2>3. CASE nic_notify(c)
    BY <2>3, DeliverType DEF TypeOK, RunTypeOK, BufferTypeOK, nic_notify, buffer
  <2>4. CASE \E s \in Sides : nic_ack(<<c, s>>) \/ nic_retry_exceeded(<<c, s>>) \/ break(<<c, s>>)
    BY <1>1, <2>4, AckBreakType DEF TypeOK, RunTypeOK, BufferTypeOK, nic_ack, nic_retry_exceeded, break, buffer
  <2>5. CASE \E l \in Lines : nic_place(c, l) \/ evict(c, l)
    BY <2>5, BufferType DEF TypeOK, RunTypeOK, VerbsTypeOK, nic_place, evict, Evict, verbs
  <2>. QED
    BY <2>1, <2>2, <2>3, <2>4, <2>5 DEF transport, Transport, environment, Environment
<1>3. UNCHANGED <<run, client, server>>
  BY DEF nic_write, nic_flush, nic_notify, transport, Transport, environment, Environment,
         nic_ack, nic_retry_exceeded, nic_place, evict, break
<1>. QED
  BY <1>2, <1>3 DEF TypeOK, RunTypeOK, run, client, server

LEMMA RunClientType ==
    ASSUME TypeOK, run_client
    PROVE  TypeOK'
<1>1. VerbsTypeOK' /\ BufferTypeOK'
  BY DEF TypeOK, RunTypeOK, VerbsTypeOK, BufferTypeOK, run_client, RunClient, verbs, buffer
<1>2. UNCHANGED <<client, server>>
  BY DEF run_client, RunClient
<1>3. /\ main' \in {"prepare", "sleep", "join", "joined"}
      /\ begin' \in BOOLEAN
      /\ stop' \in BOOLEAN
  BY DEF TypeOK, RunTypeOK, run_client, RunClient, SetBegin, SetStop, Join
<1>. QED
  BY <1>1, <1>2, <1>3 DEF TypeOK, RunTypeOK, client, server

LEMMA StutterType ==
    ASSUME TypeOK, UNCHANGED vars
    PROVE  TypeOK'
BY DEF TypeOK, RunTypeOK, VerbsTypeOK, BufferTypeOK, vars, verbs, buffer, run, client, server

LEMMA NextType == TypeOK /\ [Next]_vars => TypeOK'
BY WorkerType, ServerWorkerType, NetworkType, RunClientType, StutterType DEF Next, Finished

\* Every variable of wsbenchmark's data path keeps its type.
THEOREM TypeCorrect == Spec => []TypeOK
BY InitType, NextType, PTL DEF Spec

----------------------------------------------------------------------------
(* The inductive invariant: what a step leaves alone stays invariant.      *)

ServerSame(c) == spc'[c] = spc[c] /\ unflushed'[c] = unflushed[c]

ConnSame(c) == /\ EndSame(Client(c)) /\ EndSame(Server(c))
               /\ BufferSame(c) /\ ClientSame(c) /\ ServerSame(c)

\* A step of connection c touches no other connection.
Others(c) == \A d \in Conns \ {c} : ConnSame(d)

LEMMA ClientShapeFrame ==
    ASSUME NEW c \in Conns, ClientShape(c),
           SendSame(Client(c)), RecvSame(Client(c)), ClientSame(c)
    PROVE  ClientShape(c)'
BY DEF ClientShape, SendQueue, SendSame, RecvSame, ClientSame

LEMMA ServerShapeFrame ==
    ASSUME NEW c \in Conns, ServerShape(c),
           SendSame(Server(c)), RecvSame(Server(c)), spc'[c] = spc[c]
    PROVE  ServerShape(c)'
BY DEF ServerShape, SendQueue, SendSame, RecvSame

LEMMA PhaseFrame ==
    ASSUME NEW c \in Conns, Phase(c),
           SendSame(Client(c)), RecvSame(Client(c)), SendSame(Server(c)), RecvSame(Server(c)),
           BufferSame(c), ClientSame(c), ServerSame(c)
    PROVE  Phase(c)'
BY DEF Phase, FlushSent, ServerReady, Hardened, Placed, SendSame, RecvSame, BufferSame,
       ClientSame, ServerSame

LEMMA DataFlowFrame ==
    ASSUME NEW c \in Conns, DataFlow(c), BufferSame(c), posted'[c] = posted[c], ops'[c] = ops[c],
           rcq'[Client(c)] = rcq[Client(c)], broken'[Client(c)] = broken[Client(c)]
    PROVE  DataFlow(c)'
BY DEF DataFlow, Hardened, BufferSame

LEMMA ConnFrame ==
    ASSUME NEW c \in Conns, ConnInv(c), ConnSame(c)
    PROVE  ConnInv(c)'
BY ClientShapeFrame, ServerShapeFrame, PhaseFrame, DataFlowFrame
   DEF ConnInv, ConnSame, EndSame, Live, ClientSame, ServerSame, RecvSame

LEMMA OthersByEnd ==
    ASSUME NEW c \in Conns,
           \A f \in Ends \ {Client(c), Server(c)} : EndSame(f),
           \A d \in Conns \ {c} : BufferSame(d) /\ ClientSame(d) /\ ServerSame(d)
    PROVE  Others(c)
BY EndsFacts DEF Others, ConnSame

LEMMA QueueFacts ==
    /\ Append(<<>>, WriteRequest) = <<WriteRequest>>
    /\ Append(<<>>, SendRequest) = <<SendRequest>>
    /\ Append(<<WriteRequest>>, SendRequest) = <<WriteRequest, SendRequest>>
    /\ Len(<<>>) = 0 /\ Len(<<WriteRequest>>) = 1 /\ Len(<<SendRequest>>) = 1
    /\ Len(<<WriteRequest, SendRequest>>) = 2
    /\ <<WriteRequest>> # <<>> /\ <<WriteRequest, SendRequest>> # <<>>
<1>1. WriteRequest \in WorkRequests /\ SendRequest \in WorkRequests
  BY RequestsTyped
<1>2. Append(<<>>, WriteRequest) = <<WriteRequest>> /\ Append(<<>>, SendRequest) = <<SendRequest>>
  BY <1>1
<1>3. Append(<<WriteRequest>>, SendRequest) = <<WriteRequest, SendRequest>>
  <2> DEFINE s == Append(<<WriteRequest>>, SendRequest)
             t == <<WriteRequest, SendRequest>>
  <2>1. s \in Seq(WorkRequests) /\ t \in Seq(WorkRequests)
    BY <1>1
  <2>2. Len(s) = 2 /\ Len(t) = 2
    BY <1>1
  <2>3. \A i \in 1 .. Len(s) : s[i] = t[i]
    <3>1. s[1] = t[1] /\ s[2] = t[2]
      BY <1>1
    <3> HIDE DEF s, t
    <3>. QED
      BY <2>2, <3>1
  <2> HIDE DEF s, t
  <2>4. s = t
    BY <2>1, <2>2, <2>3, SeqEqual
  <2>. QED
    BY <2>4 DEF s, t
<1>. QED
  BY <1>1, <1>2, <1>3

----------------------------------------------------------------------------
(* The client worker's steps.                                              *)

LEMMA WorkerIdleStep ==
    ASSUME TypeOK, NEW c \in Conns, ConnInv(c), worker_begin(c) \/ worker_stop(c)
    PROVE  ConnInv(c)' /\ Others(c)
<1>. USE EndsFacts
<1>1. /\ wpc[c] \in {"wait_begin", "check_stop"}
      /\ wpc'[c] \in {"check_stop", "finished"}
      /\ \A d \in Conns \ {c} : wpc'[d] = wpc[d]
  BY DEF worker_begin, worker_stop, WorkerBegin, WorkerStop, WorkerGoto, TypeOK, RunTypeOK
<1>2. UNCHANGED <<verbs, buffer, posted, ops, server>>
  BY DEF worker_begin, worker_stop, WorkerBegin, WorkerStop
<1>3. /\ \A f \in Ends : EndSame(f)
      /\ \A d \in Conns : BufferSame(d) /\ ServerSame(d)
  BY <1>2 DEF verbs, buffer, server, EndSame, SendSame, RecvSame, BufferSame, ServerSame
<1>4. Others(c)
  BY <1>1, <1>2, <1>3, OthersByEnd DEF ClientSame
<1>5. ~broken'[Client(c)] => ClientShape(c)'
  BY <1>1, <1>2, <1>3 DEF ConnInv, ClientShape, SendQueue, verbs
<1>6. ~broken'[Server(c)] => ServerShape(c)'
  BY <1>2, <1>3, ServerShapeFrame DEF ConnInv, EndSame, ServerSame
<1>7. Live(c)' => Phase(c)'
  BY <1>1, <1>2, <1>3 DEF ConnInv, Live, Phase, FlushSent, ServerReady, Hardened, Placed,
                          EndSame, SendSame, RecvSame, BufferSame, ServerSame
<1>8. DataFlow(c)'
  BY <1>2, <1>3, DataFlowFrame DEF ConnInv, EndSame, RecvSame
<1>. QED
  BY <1>4, <1>5, <1>6, <1>7, <1>8 DEF ConnInv

LEMMA WorkerWriteStep ==
    ASSUME TypeOK, NEW c \in Conns, ConnInv(c), worker_write(c)
    PROVE  ConnInv(c)' /\ Others(c)
<1>. DEFINE e == Client(c)
<1>. USE EndsFacts
<1>1. /\ wpc[c] = "check_stop"
      /\ wpc'[c] = (IF SendRoom(e) THEN "post_recv_notification" ELSE "failed")
      /\ posted'[c] = (IF SendRoom(e) THEN posted[c] + 1 ELSE posted[c])
      /\ ops'[c] = ops[c]
      /\ \A d \in Conns \ {c} : ClientSame(d)
  BY DEF worker_write, NextOperation, BeginOperation, WorkerGoto, TypeOK, RunTypeOK, ClientSame
<1>2. UNCHANGED <<buffer, server>>
  BY DEF worker_write
<1>3. \A d \in Conns : BufferSame(d) /\ ServerSame(d)
  BY <1>2 DEF buffer, server, BufferSame, ServerSame
<1>4. /\ sq'[e] = (IF SendRoom(e) THEN Append(sq[e], WriteRequest) ELSE sq[e])
      /\ delivered'[e] = delivered[e] /\ acked'[e] = acked[e]
      /\ RecvSame(e) /\ broken'[e] = broken[e]
      /\ \A f \in Ends \ {e} : EndSame(f)
  BY PostSendEffect DEF worker_write, post_send_write, TypeOK, RunTypeOK
<1>5. Others(c)
  BY <1>1, <1>3, <1>4, OthersByEnd
<1>6. ~broken[e] => /\ SendRoom(e) /\ sq[e] = <<>> /\ delivered[e] = 0 /\ acked[e] = 0
                    /\ rq[e] = 0 /\ rcq[e] = 0 /\ posted[c] = ops[c]
  BY <1>1, QueueFacts, WriteSendAssumption, VerbsAssumption
     DEF ConnInv, ClientShape, SendQueue, SendRoom
<1>7. ~broken[e] => /\ sq'[e] = <<WriteRequest>> /\ delivered'[e] = 0 /\ acked'[e] = 0
                     /\ rq'[e] = 0 /\ rcq'[e] = 0 /\ posted'[c] = ops'[c] + 1
                     /\ wpc'[c] = "post_recv_notification"
  BY <1>1, <1>4, <1>6, QueueFacts DEF RecvSame
<1>8. ~broken'[e] => ClientShape(c)'
  BY <1>4, <1>7 DEF ClientShape, SendQueue
<1>9. ~broken'[Server(c)] => ServerShape(c)'
  BY <1>3, <1>4, ServerShapeFrame DEF ConnInv, EndSame, ServerSame
<1>10. Live(c) => /\ rcq[Server(c)] = 0 /\ ServerReady(c) /\ nic[c] = posted[c]
  BY <1>1, <1>6 DEF ConnInv, Live, Phase, FlushSent
<1>11. EndSame(Server(c)) /\ BufferSame(c) /\ ServerSame(c)
  BY <1>3, <1>4
<1>12. Live(c)' => Phase(c)'
  <2> SUFFICES ASSUME Live(c)' PROVE Phase(c)'
    OBVIOUS
  <2>1. Live(c) /\ ~broken[e]
    BY <1>4, <1>11 DEF Live, EndSame
  <2>2. ~FlushSent(c)'
    BY <1>7, <2>1 DEF FlushSent
  <2>3. rcq'[Server(c)] = 0 /\ rcq'[e] = 0 /\ ServerReady(c)'
    BY <1>7, <1>10, <1>11, <2>1 DEF ServerReady, EndSame, SendSame, RecvSame, ServerSame
  <2>4. sq'[e] # <<>> /\ delivered'[e] = 0 /\ nic'[c] = ops'[c]
    BY <1>1, <1>6, <1>7, <1>10, <1>11, <2>1, QueueFacts DEF BufferSame
  <2>. QED
    BY <2>2, <2>3, <2>4 DEF Phase
<1>13. DataFlow(c)'
  BY <1>1, <1>3, <1>4, <1>6 DEF ConnInv, DataFlow, Hardened, BufferSame, RecvSame, TypeOK, RunTypeOK, BufferTypeOK
<1>. QED
  BY <1>5, <1>8, <1>9, <1>12, <1>13 DEF ConnInv

LEMMA WorkerRecvStep ==
    ASSUME TypeOK, NEW c \in Conns, ConnInv(c), worker_recv(c)
    PROVE  ConnInv(c)' /\ Others(c)
<1>. DEFINE e == Client(c)
<1>. USE EndsFacts
<1>1. /\ wpc[c] = "post_recv_notification"
      /\ wpc'[c] = (IF RecvRoom(e) THEN "post_send_flush" ELSE "failed")
      /\ posted'[c] = posted[c] /\ ops'[c] = ops[c]
      /\ \A d \in Conns \ {c} : ClientSame(d)
  BY DEF worker_recv, ContinueOperation, WorkerGoto, TypeOK, RunTypeOK, ClientSame
<1>2. \A d \in Conns : BufferSame(d) /\ ServerSame(d)
  BY DEF worker_recv, buffer, server, BufferSame, ServerSame
<1>3. /\ rq'[e] = (IF RecvRoom(e) THEN rq[e] + 1 ELSE rq[e])
      /\ rcq'[e] = rcq[e] /\ SendSame(e) /\ broken'[e] = broken[e]
      /\ \A f \in Ends \ {e} : EndSame(f)
  BY PostRecvEffect DEF worker_recv, post_recv_notification, TypeOK, RunTypeOK
<1>4. Others(c)
  BY <1>1, <1>2, <1>3, OthersByEnd
<1>5. EndSame(Server(c)) /\ BufferSame(c) /\ ServerSame(c)
  BY <1>2, <1>3
<1>6. ~broken[e] => rq'[e] = 1 /\ rcq'[e] = 0 /\ wpc'[c] = "post_send_flush"
  BY <1>1, <1>3, VerbsAssumption DEF ConnInv, ClientShape, RecvRoom
<1>7. ~broken'[e] => ClientShape(c)'
  BY <1>1, <1>3, <1>6 DEF ConnInv, ClientShape, SendQueue, SendSame
<1>8. ~broken'[Server(c)] => ServerShape(c)'
  BY <1>5, ServerShapeFrame DEF ConnInv, EndSame, ServerSame
<1>9. Live(c)' => Phase(c)'
  <2> SUFFICES ASSUME Live(c)' PROVE Phase(c)'
    OBVIOUS
  <2>1. Live(c) /\ ~broken[e]
    BY <1>3, <1>5 DEF Live, EndSame
  <2>2. ~FlushSent(c) /\ ~FlushSent(c)'
    BY <1>1, <1>6, <2>1 DEF FlushSent
  <2>3. rcq'[Server(c)] = 0 /\ rcq'[e] = 0 /\ ServerReady(c)'
    BY <1>5, <1>6, <2>1, <2>2 DEF ConnInv, Phase, ServerReady, EndSame, SendSame, RecvSame, ServerSame
  <2>. QED
    BY <1>1, <1>3, <1>5, <2>1, <2>2, <2>3 DEF ConnInv, Phase, BufferSame, SendSame
<1>10. DataFlow(c)'
  BY <1>1, <1>3, <1>5, DataFlowFrame DEF ConnInv
<1>. QED
  BY <1>4, <1>7, <1>8, <1>9, <1>10 DEF ConnInv

LEMMA WorkerFlushStep ==
    ASSUME TypeOK, NEW c \in Conns, ConnInv(c), worker_flush(c)
    PROVE  ConnInv(c)' /\ Others(c)
<1>. DEFINE e == Client(c)
<1>. USE EndsFacts
<1>1. /\ wpc[c] = "post_send_flush"
      /\ wpc'[c] = (IF SendRoom(e) THEN "poll_send" ELSE "failed")
      /\ posted'[c] = posted[c] /\ ops'[c] = ops[c]
      /\ \A d \in Conns \ {c} : ClientSame(d)
  BY DEF worker_flush, ContinueOperation, WorkerGoto, TypeOK, RunTypeOK, ClientSame
<1>2. \A d \in Conns : BufferSame(d) /\ ServerSame(d)
  BY DEF worker_flush, buffer, server, BufferSame, ServerSame
<1>3. /\ sq'[e] = (IF SendRoom(e) THEN Append(sq[e], SendRequest) ELSE sq[e])
      /\ delivered'[e] = delivered[e] /\ acked'[e] = acked[e]
      /\ RecvSame(e) /\ broken'[e] = broken[e]
      /\ \A f \in Ends \ {e} : EndSame(f)
  BY PostSendEffect DEF worker_flush, post_send_flush, TypeOK, RunTypeOK
<1>4. Others(c)
  BY <1>1, <1>2, <1>3, OthersByEnd
<1>5. EndSame(Server(c)) /\ BufferSame(c) /\ ServerSame(c)
  BY <1>2, <1>3
<1>6. ~broken[e] => /\ sq[e] = <<WriteRequest>> /\ delivered[e] \in 0 .. 1 /\ acked[e] \in 0 .. 1
                    /\ acked[e] <= delivered[e] /\ rq[e] = 1 /\ rcq[e] = 0
                    /\ posted[c] = ops[c] + 1
  BY <1>1 DEF ConnInv, ClientShape, SendQueue
<1>7. ~broken[e] => sq'[e] = <<WriteRequest, SendRequest>> /\ wpc'[c] = "poll_send"
  <2> SUFFICES ASSUME ~broken[e]
               PROVE  sq'[e] = <<WriteRequest, SendRequest>> /\ wpc'[c] = "poll_send"
    OBVIOUS
  <2>1. SendRoom(e)
    <3>1. Len(sq[e]) = 1
      BY <1>6, QueueFacts
    <3>2. MaxSendWr \in Nat /\ MaxSendWr >= 2
      BY WriteSendAssumption, VerbsAssumption
    <3>. QED
      BY <3>1, <3>2 DEF SendRoom
  <2>2. sq'[e] = Append(<<WriteRequest>>, SendRequest)
    BY <1>3, <1>6, <2>1
  <2>. QED
    BY <1>1, <2>1, <2>2, QueueFacts
<1>8. ~broken'[e] => ClientShape(c)'
  BY <1>1, <1>3, <1>6, <1>7 DEF ClientShape, SendQueue, RecvSame
<1>9. ~broken'[Server(c)] => ServerShape(c)'
  BY <1>5, ServerShapeFrame DEF ConnInv, EndSame, ServerSame
<1>10. Live(c)' => Phase(c)'
  <2> SUFFICES ASSUME Live(c)' PROVE Phase(c)'
    OBVIOUS
  <2>1. Live(c) /\ ~broken[e]
    BY <1>3, <1>5 DEF Live, EndSame
  <2>2. ~FlushSent(c) /\ ~FlushSent(c)'
    BY <1>1, <1>3, <1>6, <1>7, <2>1 DEF FlushSent
  <2>3. rcq'[Server(c)] = 0 /\ rcq'[e] = 0 /\ ServerReady(c)'
    BY <1>3, <1>5, <2>1, <2>2 DEF ConnInv, Phase, ServerReady, EndSame, SendSame, RecvSame, ServerSame
  <2>4. sq[e] # <<>> /\ sq'[e] # <<>>
    BY <1>6, <1>7, <2>1, QueueFacts
  <2>. QED
    BY <1>1, <1>3, <1>5, <2>1, <2>2, <2>3, <2>4 DEF ConnInv, Phase, BufferSame
<1>11. DataFlow(c)'
  BY <1>1, <1>3, <1>5, DataFlowFrame DEF ConnInv, RecvSame
<1>. QED
  BY <1>4, <1>8, <1>9, <1>10, <1>11 DEF ConnInv

LEMMA WorkerPollSendStep ==
    ASSUME TypeOK, NEW c \in Conns, ConnInv(c), worker_poll_send(c)
    PROVE  ConnInv(c)' /\ Others(c)
<1>. DEFINE e == Client(c)
<1>. USE EndsFacts
<1>1. /\ wpc[c] = "poll_send" /\ wpc'[c] = "poll_recv"
      /\ posted'[c] = posted[c] /\ ops'[c] = ops[c]
      /\ \A d \in Conns \ {c} : ClientSame(d)
  BY DEF worker_poll_send, ContinueOperation, WorkerGoto, TypeOK, RunTypeOK, ClientSame
<1>2. \A d \in Conns : BufferSame(d) /\ ServerSame(d)
  BY DEF worker_poll_send, buffer, server, BufferSame, ServerSame
<1>3. PollSend(e) /\ VerbsTypeOK
  BY DEF worker_poll_send, node_poll_n_send, TypeOK, RunTypeOK
<1>4. /\ RecvSame(e) /\ broken'[e] = broken[e]
      /\ \A f \in Ends \ {e} : EndSame(f)
  BY <1>3, RetireEffect DEF PollSend
<1>5. Others(c)
  BY <1>1, <1>2, <1>4, OthersByEnd
<1>6. EndSame(Server(c)) /\ BufferSame(c) /\ ServerSame(c)
  BY <1>2, <1>4
<1>7. ~broken[e] => /\ sq[e] = <<WriteRequest, SendRequest>> /\ delivered[e] \in 0 .. 2
                    /\ acked[e] <= delivered[e] /\ rq[e] + rcq[e] = 1
                    /\ posted[c] = ops[c] + 1
  BY <1>1 DEF ConnInv, ClientShape, SendQueue
<1>8. ~broken[e] => delivered[e] = 2 /\ sq'[e] = <<>> /\ delivered'[e] = 0 /\ acked'[e] = 0
  <2> SUFFICES ASSUME ~broken[e]
               PROVE  delivered[e] = 2 /\ sq'[e] = <<>> /\ delivered'[e] = 0 /\ acked'[e] = 0
    OBVIOUS
  <2>1. Len(sq[e]) = 2
    BY <1>7, QueueFacts
  <2>2. ~sq[e][1].sig /\ sq[e][2].sig
    BY <1>7 DEF WriteRequest, SendRequest
  <2>3. \A k \in 1 .. Len(sq[e]) : sq[e][k].sig <=> k = Len(sq[e])
    BY <2>1, <2>2
  <2>4. acked[e] <= delivered[e] /\ delivered[e] <= Len(sq[e])
    BY <1>7, <2>1
  <2>5. /\ delivered[e] = Len(sq[e])
        /\ sq'[e] = <<>> /\ delivered'[e] = 0 /\ acked'[e] = 0
    BY <1>3, <2>3, <2>4, PollSendLast
  <2>. QED
    BY <2>1, <2>5
<1>9. ~broken'[e] => ClientShape(c)'
  BY <1>1, <1>4, <1>7, <1>8 DEF ClientShape, SendQueue, RecvSame
<1>10. ~broken'[Server(c)] => ServerShape(c)'
  BY <1>6, ServerShapeFrame DEF ConnInv, EndSame, ServerSame
<1>11. Live(c)' => Phase(c)'
  <2> SUFFICES ASSUME Live(c)' PROVE Phase(c)'
    OBVIOUS
  <2>1. Live(c) /\ ~broken[e]
    BY <1>4, <1>6 DEF Live, EndSame
  <2>2. FlushSent(c) /\ FlushSent(c)'
    BY <1>1, <1>8, <2>1 DEF FlushSent
  <2>. QED
    BY <1>1, <1>4, <1>6, <2>1, <2>2 DEF ConnInv, Phase, Placed, Hardened, ServerReady, BufferSame,
       EndSame, SendSame, RecvSame, ServerSame
<1>12. DataFlow(c)'
  BY <1>1, <1>4, <1>6, DataFlowFrame DEF ConnInv, RecvSame
<1>. QED
  BY <1>5, <1>9, <1>10, <1>11, <1>12 DEF ConnInv

LEMMA WorkerPollRecvStep ==
    ASSUME TypeOK, NEW c \in Conns, ConnInv(c), worker_poll_recv(c)
    PROVE  ConnInv(c)' /\ Others(c)
<1>. DEFINE e == Client(c)
<1>. USE EndsFacts
<1>1. /\ wpc[c] = "poll_recv" /\ wpc'[c] = "check_stop"
      /\ posted'[c] = posted[c] /\ ops'[c] = ops[c] + 1
      /\ \A d \in Conns \ {c} : ClientSame(d)
  BY DEF worker_poll_recv, CountOperation, WorkerGoto, TypeOK, RunTypeOK, ClientSame
<1>2. \A d \in Conns : BufferSame(d) /\ ServerSame(d)
  BY DEF worker_poll_recv, buffer, server, BufferSame, ServerSame
<1>3. VerbsTypeOK /\ (PollRecv(e) \/ PollFlushed(e))
  BY DEF worker_poll_recv, node_poll_n_recv, TypeOK, RunTypeOK
<1>4. /\ SendSame(e) /\ broken'[e] = broken[e]
      /\ \A f \in Ends \ {e} : EndSame(f)
      /\ ~broken[e] => rcq[e] > 0 /\ rcq'[e] = rcq[e] - 1 /\ rq'[e] = rq[e]
  BY <1>3, PollRecvEffect, PollFlushedEffect
<1>5. Others(c)
  BY <1>1, <1>2, <1>4, OthersByEnd
<1>6. EndSame(Server(c)) /\ BufferSame(c) /\ ServerSame(c)
  BY <1>2, <1>4
<1>7. ~broken[e] => /\ sq[e] = <<>> /\ delivered[e] = 0 /\ acked[e] = 0
                    /\ rq[e] = 0 /\ rcq[e] = 1 /\ posted[c] = ops[c] + 1
  BY <1>1, <1>3, <1>4 DEF ConnInv, ClientShape, SendQueue, VerbsTypeOK
<1>8. ~broken'[e] => ClientShape(c)'
  BY <1>1, <1>4, <1>7 DEF ClientShape, SendQueue, SendSame
<1>9. ~broken'[Server(c)] => ServerShape(c)'
  BY <1>6, ServerShapeFrame DEF ConnInv, EndSame, ServerSame
<1>10. Live(c)' => Phase(c)'
  <2> SUFFICES ASSUME Live(c)' PROVE Phase(c)'
    OBVIOUS
  <2>1. Live(c) /\ ~broken[e]
    BY <1>4, <1>6 DEF Live, EndSame
  <2>2. FlushSent(c) /\ ~FlushSent(c)'
    BY <1>1 DEF FlushSent
  <2>3. rcq[Server(c)] = 0 /\ ServerReady(c) /\ nic[c] = posted[c]
    BY <1>7, <2>1, <2>2 DEF ConnInv, Phase
  <2>4. rcq'[Server(c)] = 0 /\ rcq'[e] = 0 /\ ServerReady(c)' /\ nic'[c] = posted'[c] /\ sq'[e] = <<>>
    BY <1>1, <1>4, <1>6, <1>7, <2>1, <2>3 DEF ServerReady, EndSame, SendSame, RecvSame, ServerSame, BufferSame
  <2>. QED
    BY <2>2, <2>4 DEF Phase
<1>11. DataFlow(c)'
  BY <1>1, <1>4, <1>6, <1>7 DEF ConnInv, DataFlow, Hardened, BufferSame, TypeOK, RunTypeOK, BufferTypeOK
<1>. QED
  BY <1>5, <1>8, <1>9, <1>10, <1>11 DEF ConnInv

----------------------------------------------------------------------------
(* The server worker's steps.  In each the client end is left alone.       *)

LEMMA ServerStepFrame ==
    ASSUME NEW c \in Conns, ConnInv(c), EndSame(Client(c)), ClientSame(c), broken'[Server(c)] = broken[Server(c)]
    PROVE  /\ ~broken'[Client(c)] => ClientShape(c)'
           /\ Live(c)' <=> Live(c)
           /\ FlushSent(c)' <=> FlushSent(c)
BY ClientShapeFrame DEF ConnInv, Live, FlushSent, EndSame, SendSame, ClientSame

LEMMA ServerPollRecvStep ==
    ASSUME TypeOK, NEW c \in Conns, ConnInv(c), server_poll_recv(c)
    PROVE  ConnInv(c)' /\ Others(c)
<1>. DEFINE s == Server(c)
<1>. USE EndsFacts
<1>1. /\ spc[c] = "poll_recv" /\ VerbsTypeOK
      /\ unflushed' = unflushed
      /\ \A d \in Conns \ {c} : ServerSame(d)
      /\ \A d \in Conns : BufferSame(d) /\ ClientSame(d)
  BY DEF server_poll_recv, ServerGoto, TypeOK, RunTypeOK, buffer, client, ServerSame, BufferSame, ClientSame
<1>2. /\ SendSame(s) /\ broken'[s] = broken[s]
      /\ \A f \in Ends \ {s} : EndSame(f)
      /\ ~broken[s] => rcq[s] > 0 /\ rcq'[s] = rcq[s] - 1 /\ rq'[s] = rq[s]
  BY <1>1, PollRecvEffect, PollFlushedEffect DEF server_poll_recv
<1>3. Others(c)
  BY <1>1, <1>2, OthersByEnd
<1>4. EndSame(Client(c)) /\ BufferSame(c) /\ ClientSame(c)
  BY <1>1, <1>2
<1>5. ~broken[s] => spc'[c] = "post_recv_flush"
  BY <1>1, PollFlushedEffect DEF server_poll_recv, ServerGoto, TypeOK
<1>6. ~broken[s] => /\ sq[s] = <<>> /\ delivered[s] = 0 /\ acked[s] = 0
                    /\ rq[s] = 0 /\ rcq[s] = 1
  BY <1>1, <1>2 DEF ConnInv, ServerShape, SendQueue, VerbsTypeOK
<1>7. ~broken'[s] => ServerShape(c)'
  BY <1>2, <1>5, <1>6 DEF ServerShape, SendQueue, SendSame
<1>8. Live(c)' => Phase(c)'
  <2> SUFFICES ASSUME Live(c) PROVE Phase(c)'
    BY <1>2, <1>4, ServerStepFrame
  <2>1. ~broken[s] /\ FlushSent(c) /\ FlushSent(c)'
    BY <1>2, <1>4, <1>6, ServerStepFrame DEF ConnInv, Live, Phase
  <2>2. nic[c] = posted[c] /\ Placed(c) /\ rcq[Client(c)] = 0
    BY <1>1, <1>6, <2>1 DEF ConnInv, Phase
  <2>3. nic'[c] = posted'[c] /\ Placed(c)' /\ rcq'[Client(c)] = 0 /\ rcq'[s] = 0
    BY <1>2, <1>4, <1>6, <2>1, <2>2 DEF Placed, BufferSame, ClientSame, EndSame, RecvSame
  <2>. QED
    BY <1>5, <2>1, <2>3 DEF Phase
<1>9. DataFlow(c)'
  BY <1>4, DataFlowFrame DEF ConnInv, EndSame, RecvSame, ClientSame
<1>. QED
  BY <1>2, <1>3, <1>4, <1>7, <1>8, <1>9, ServerStepFrame DEF ConnInv

LEMMA ServerPostRecvStep ==
    ASSUME TypeOK, NEW c \in Conns, ConnInv(c), server_post_recv(c)
    PROVE  ConnInv(c)' /\ Others(c)
<1>. DEFINE s == Server(c)
<1>. USE EndsFacts
<1>1. /\ spc[c] = "post_recv_flush" /\ VerbsTypeOK
      /\ spc'[c] = (IF ~RecvRoom(s) THEN "failed"
                    ELSE IF UsePmem THEN "persist" ELSE "post_send_notification")
      /\ unflushed'[c] = (IF UsePmem THEN Lines ELSE {})
      /\ \A d \in Conns \ {c} : ServerSame(d)
      /\ \A d \in Conns : BufferSame(d) /\ ClientSame(d)
  BY DEF server_post_recv, ServerGoto, TypeOK, RunTypeOK, buffer, client, ServerSame, BufferSame, ClientSame
<1>2. /\ rq'[s] = (IF RecvRoom(s) THEN rq[s] + 1 ELSE rq[s]) /\ rcq'[s] = rcq[s]
      /\ SendSame(s) /\ broken'[s] = broken[s]
      /\ \A f \in Ends \ {s} : EndSame(f)
  BY <1>1, PostRecvEffect DEF server_post_recv, post_recv_flush
<1>3. Others(c)
  BY <1>1, <1>2, OthersByEnd
<1>4. EndSame(Client(c)) /\ BufferSame(c) /\ ClientSame(c)
  BY <1>1, <1>2
<1>5. ~broken[s] => /\ sq[s] = <<>> /\ delivered[s] = 0 /\ acked[s] = 0
                    /\ rq[s] = 0 /\ rcq[s] = 0
  BY <1>1 DEF ConnInv, ServerShape, SendQueue, VerbsTypeOK
<1>6. ~broken[s] => rq'[s] = 1 /\ rcq'[s] = 0 /\ spc'[c] = (IF UsePmem THEN "persist" ELSE "post_send_notification")
  BY <1>1, <1>2, <1>5, VerbsAssumption DEF RecvRoom
<1>7. ~broken'[s] => ServerShape(c)'
  BY <1>2, <1>5, <1>6 DEF ServerShape, SendQueue, SendSame
<1>8. Live(c)' => Phase(c)'
  <2> SUFFICES ASSUME Live(c) PROVE Phase(c)'
    BY <1>2, <1>4, ServerStepFrame
  <2>1. ~broken[s] /\ FlushSent(c) /\ FlushSent(c)'
    BY <1>1, <1>2, <1>4, ServerStepFrame DEF ConnInv, Live, Phase, ServerReady
  <2>2. nic[c] = posted[c] /\ Placed(c) /\ rcq[Client(c)] = 0
    BY <1>1, <2>1 DEF ConnInv, Phase, ServerReady
  <2>3. nic'[c] = posted'[c] /\ Placed(c)' /\ rcq'[Client(c)] = 0 /\ rcq'[s] = 0
    BY <1>4, <1>6, <2>1, <2>2 DEF Placed, BufferSame, ClientSame, EndSame, RecvSame
  <2>4. /\ spc'[c] \in {"persist", "post_send_notification"}
        /\ spc'[c] = "persist" => Lines \ unflushed'[c] = {}
        /\ spc'[c] = "post_send_notification" => ~UsePmem
    BY <1>1, <1>6, <2>1
  <2>. QED
    BY <2>1, <2>3, <2>4 DEF Phase
<1>9. DataFlow(c)'
  BY <1>4, DataFlowFrame DEF ConnInv, EndSame, RecvSame, ClientSame
<1>. QED
  BY <1>2, <1>3, <1>4, <1>7, <1>8, <1>9, ServerStepFrame DEF ConnInv

\* Writing a line back, by pmem_persist or by an eviction.
LEMMA WriteBackData ==
    ASSUME TypeOK, NEW c \in Conns, ConnInv(c), NEW l \in Lines, WriteBack(c, l)
    PROVE  /\ nic' = nic /\ mem' = mem
           /\ pmem'[c][l] = mem[c][l]
           /\ \A k \in Lines \ {l} : pmem'[c][k] = pmem[c][k]
           /\ \A d \in Conns \ {c} : BufferSame(d)
           /\ posted'[c] = posted[c] /\ ops'[c] = ops[c] /\ EndSame(Client(c)) => DataFlow(c)'
<1>1. /\ nic' = nic /\ mem' = mem
      /\ pmem' = [pmem EXCEPT ![c] = [pmem[c] EXCEPT ![l] = mem[c][l]]]
      /\ pmem \in [Conns -> [Lines -> Nat]] /\ mem \in [Conns -> [Lines -> Nat]]
  BY DEF WriteBack, TypeOK, RunTypeOK, BufferTypeOK
<1>2. pmem'[c] = [pmem[c] EXCEPT ![l] = mem[c][l]] /\ pmem[c] \in [Lines -> Nat]
  BY <1>1
<1>3. /\ pmem'[c][l] = mem[c][l]
      /\ \A k \in Lines \ {l} : pmem'[c][k] = pmem[c][k]
  BY <1>2
<1>4. \A d \in Conns \ {c} : BufferSame(d)
  BY <1>1 DEF BufferSame
<1>5. ASSUME posted'[c] = posted[c], ops'[c] = ops[c], EndSame(Client(c))
      PROVE  DataFlow(c)'
  <2>1. /\ nic'[c] <= posted'[c]
        /\ \A k \in Lines : mem'[c][k] <= nic'[c]
        /\ \A k \in Lines : pmem'[c][k] <= mem'[c][k]
    BY <1>1, <1>3, <1>5 DEF ConnInv, DataFlow
  <2>2. ~broken'[Client(c)] =>
            /\ \A k \in Lines : mem'[c][k] >= ops'[c]
            /\ rcq'[Client(c)] > 0 => \A k \in Lines : mem'[c][k] = posted'[c]
            /\ UsePmem => \A k \in Lines : pmem'[c][k] >= ops'[c]
            /\ (UsePmem /\ rcq'[Client(c)] > 0) => \A k \in Lines : pmem'[c][k] = posted'[c]
    BY <1>1, <1>3, <1>5 DEF ConnInv, DataFlow, Hardened, EndSame, RecvSame
  <2>. QED
    BY <2>1, <2>2 DEF DataFlow, Hardened
<1>. QED
  BY <1>1, <1>3, <1>4, <1>5

LEMMA ServerPersistStep ==
    ASSUME TypeOK, NEW c \in Conns, ConnInv(c), NEW l \in Lines, server_persist(c, l)
    PROVE  ConnInv(c)' /\ Others(c)
<1>. DEFINE s == Server(c)
<1>. USE EndsFacts
<1>1. /\ spc[c] = "persist" /\ spc' = spc /\ WriteBack(c, l)
      /\ unflushed'[c] = unflushed[c] \ {l}
      /\ \A d \in Conns \ {c} : ServerSame(d)
      /\ \A d \in Conns : ClientSame(d)
  BY DEF server_persist, TypeOK, client, ServerSame, ClientSame
<1>2. \A f \in Ends : EndSame(f)
  BY DEF server_persist, verbs, EndSame, SendSame, RecvSame
<1>3. Others(c)
  BY <1>1, <1>2, OthersByEnd, WriteBackData
<1>4. DataFlow(c)'
  BY <1>1, <1>2, WriteBackData DEF ClientSame
<1>5. ~broken'[s] => ServerShape(c)'
  BY <1>1, <1>2, ServerShapeFrame DEF ConnInv, EndSame
<1>6. Live(c)' => Phase(c)'
  <2> SUFFICES ASSUME Live(c) PROVE Phase(c)'
    BY <1>1, <1>2, ServerStepFrame DEF EndSame
  <2>1. FlushSent(c) /\ FlushSent(c)'
    BY <1>1, <1>2, ServerStepFrame DEF ConnInv, Phase, ServerReady, EndSame
  <2>2. /\ nic[c] = posted[c] /\ Placed(c) /\ rcq[Client(c)] = 0 /\ rcq[s] = 0
        /\ UsePmem => \A k \in Lines \ unflushed[c] : pmem[c][k] = posted[c]
    BY <1>1, <2>1 DEF ConnInv, Phase, ServerReady
  <2>3. nic'[c] = posted'[c] /\ Placed(c)' /\ rcq'[Client(c)] = 0 /\ rcq'[s] = 0
    BY <1>1, <1>2, <2>2, WriteBackData DEF Placed, ClientSame, EndSame, RecvSame
  <2>4. UsePmem => \A k \in Lines \ unflushed'[c] : pmem'[c][k] = posted'[c]
    BY <1>1, <2>2, WriteBackData DEF Placed, ClientSame
  <2>. QED
    BY <1>1, <2>1, <2>3, <2>4 DEF Phase
<1>. QED
  BY <1>1, <1>2, <1>3, <1>4, <1>5, <1>6, ServerStepFrame DEF ConnInv, EndSame

LEMMA ServerPersistedStep ==
    ASSUME TypeOK, NEW c \in Conns, ConnInv(c), server_persisted(c)
    PROVE  ConnInv(c)' /\ Others(c)
<1>. DEFINE s == Server(c)
<1>. USE EndsFacts
<1>1. /\ spc[c] = "persist" /\ unflushed[c] = {} /\ spc'[c] = "post_send_notification"
      /\ \A d \in Conns \ {c} : ServerSame(d)
      /\ \A d \in Conns : BufferSame(d) /\ ClientSame(d)
  BY DEF server_persisted, ServerGoto, TypeOK, buffer, client, ServerSame, BufferSame, ClientSame
<1>2. \A f \in Ends : EndSame(f)
  BY DEF server_persisted, verbs, EndSame, SendSame, RecvSame
<1>3. Others(c)
  BY <1>1, <1>2, OthersByEnd
<1>4. DataFlow(c)'
  BY <1>1, <1>2, DataFlowFrame DEF ConnInv, EndSame, RecvSame, ClientSame
<1>5. ~broken'[s] => ServerShape(c)'
  BY <1>1, <1>2 DEF ConnInv, ServerShape, SendQueue, EndSame, SendSame, RecvSame
<1>6. Live(c)' => Phase(c)'
  <2> SUFFICES ASSUME Live(c) PROVE Phase(c)'
    BY <1>1, <1>2, ServerStepFrame DEF EndSame
  <2>1. FlushSent(c) /\ FlushSent(c)'
    BY <1>1, <1>2, ServerStepFrame DEF ConnInv, Phase, ServerReady, EndSame
  <2>2. /\ nic[c] = posted[c] /\ Placed(c) /\ rcq[Client(c)] = 0 /\ rcq[s] = 0
        /\ UsePmem => Hardened(c)
    BY <1>1, <2>1 DEF ConnInv, Phase, ServerReady, Hardened
  <2>3. /\ nic'[c] = posted'[c] /\ Placed(c)' /\ rcq'[Client(c)] = 0 /\ rcq'[s] = 0
        /\ UsePmem => Hardened(c)'
    BY <1>1, <1>2, <2>2 DEF Placed, Hardened, BufferSame, ClientSame, EndSame, RecvSame
  <2>. QED
    BY <1>1, <2>1, <2>3 DEF Phase
<1>. QED
  BY <1>1, <1>2, <1>3, <1>4, <1>5, <1>6, ServerStepFrame DEF ConnInv, EndSame

LEMMA ServerNotifyStep ==
    ASSUME TypeOK, NEW c \in Conns, ConnInv(c), server_notify(c)
    PROVE  ConnInv(c)' /\ Others(c)
<1>. DEFINE s == Server(c)
<1>. USE EndsFacts
<1>1. /\ spc[c] = "post_send_notification"
      /\ spc'[c] = (IF SendRoom(s) THEN "poll_send" ELSE "failed")
      /\ \A d \in Conns \ {c} : ServerSame(d)
      /\ \A d \in Conns : BufferSame(d) /\ ClientSame(d)
  BY DEF server_notify, ServerGoto, TypeOK, buffer, client, ServerSame, BufferSame, ClientSame
<1>2. /\ sq'[s] = (IF SendRoom(s) THEN Append(sq[s], SendRequest) ELSE sq[s])
      /\ delivered'[s] = delivered[s] /\ acked'[s] = acked[s]
      /\ RecvSame(s) /\ broken'[s] = broken[s]
      /\ \A f \in Ends \ {s} : EndSame(f)
  BY PostSendEffect DEF server_notify, post_send_notification, TypeOK, RunTypeOK
<1>3. Others(c)
  BY <1>1, <1>2, OthersByEnd
<1>4. EndSame(Client(c)) /\ BufferSame(c) /\ ClientSame(c)
  BY <1>1, <1>2
<1>5. ~broken[s] => /\ sq[s] = <<>> /\ delivered[s] = 0 /\ acked[s] = 0
                    /\ rq[s] + rcq[s] = 1
  BY <1>1 DEF ConnInv, ServerShape, SendQueue
<1>6. ~broken[s] => sq'[s] = <<SendRequest>> /\ spc'[c] = "poll_send"
  <2> SUFFICES ASSUME ~broken[s] PROVE sq'[s] = <<SendRequest>> /\ spc'[c] = "poll_send"
    OBVIOUS
  <2>1. Len(sq[s]) = 0
    BY <1>5, QueueFacts
  <2>2. SendRoom(s)
    BY <2>1, VerbsAssumption DEF SendRoom
  <2>3. sq'[s] = Append(<<>>, SendRequest)
    BY <1>2, <1>5, <2>2
  <2>. QED
    BY <1>1, <2>2, <2>3, QueueFacts
<1>7. ~broken'[s] => ServerShape(c)'
  BY <1>2, <1>5, <1>6 DEF ServerShape, SendQueue, RecvSame
<1>8. Live(c)' => Phase(c)'
  <2> SUFFICES ASSUME Live(c) PROVE Phase(c)'
    BY <1>2, <1>4, ServerStepFrame
  <2>1. ~broken[s] /\ FlushSent(c) /\ FlushSent(c)'
    BY <1>1, <1>2, <1>4, ServerStepFrame DEF ConnInv, Live, Phase, ServerReady
  <2>2. /\ nic[c] = posted[c] /\ Placed(c) /\ rcq[Client(c)] = 0 /\ rcq[s] = 0
        /\ UsePmem => Hardened(c)
    BY <1>1, <2>1 DEF ConnInv, Phase, ServerReady
  <2>3. /\ nic'[c] = posted'[c] /\ Placed(c)' /\ rcq'[Client(c)] = 0 /\ rcq'[s] = 0
        /\ UsePmem => Hardened(c)'
    BY <1>2, <1>4, <2>2 DEF Placed, Hardened, BufferSame, ClientSame, EndSame, RecvSame
  <2>4. delivered'[s] = 0 /\ spc'[c] = "poll_send"
    BY <1>2, <1>5, <1>6, <2>1
  <2>. QED
    BY <2>1, <2>3, <2>4 DEF Phase
<1>9. DataFlow(c)'
  BY <1>4, DataFlowFrame DEF ConnInv, EndSame, RecvSame, ClientSame
<1>. QED
  BY <1>2, <1>3, <1>4, <1>7, <1>8, <1>9, ServerStepFrame DEF ConnInv

LEMMA ServerPollSendStep ==
    ASSUME TypeOK, NEW c \in Conns, ConnInv(c), server_poll_send(c)
    PROVE  ConnInv(c)' /\ Others(c)
<1>. DEFINE s == Server(c)
<1>. USE EndsFacts
<1>1. /\ spc[c] = "poll_send" /\ spc'[c] = "poll_recv"
      /\ PollSend(s) /\ VerbsTypeOK
      /\ \A d \in Conns \ {c} : ServerSame(d)
      /\ \A d \in Conns : BufferSame(d) /\ ClientSame(d)
  BY DEF server_poll_send, node_poll_n_send, ServerGoto, TypeOK, RunTypeOK, buffer, client,
         ServerSame, BufferSame, ClientSame
<1>2. /\ RecvSame(s) /\ broken'[s] = broken[s]
      /\ \A f \in Ends \ {s} : EndSame(f)
  BY <1>1, RetireEffect DEF PollSend
<1>3. Others(c)
  BY <1>1, <1>2, OthersByEnd
<1>4. EndSame(Client(c)) /\ BufferSame(c) /\ ClientSame(c)
  BY <1>1, <1>2
<1>5. ~broken[s] => /\ sq[s] = <<SendRequest>> /\ delivered[s] \in 0 .. 1
                    /\ acked[s] <= delivered[s] /\ rq[s] + rcq[s] = 1
  BY <1>1 DEF ConnInv, ServerShape, SendQueue
<1>6. ~broken[s] => delivered[s] = 1 /\ sq'[s] = <<>> /\ delivered'[s] = 0 /\ acked'[s] = 0
  <2> SUFFICES ASSUME ~broken[s]
               PROVE  delivered[s] = 1 /\ sq'[s] = <<>> /\ delivered'[s] = 0 /\ acked'[s] = 0
    OBVIOUS
  <2>1. Len(sq[s]) = 1
    BY <1>5, QueueFacts
  <2>2. sq[s][1].sig
    BY <1>5 DEF SendRequest
  <2>3. \A k \in 1 .. Len(sq[s]) : sq[s][k].sig <=> k = Len(sq[s])
    BY <2>1, <2>2
  <2>4. acked[s] <= delivered[s] /\ delivered[s] <= Len(sq[s])
    BY <1>5, <2>1
  <2>5. /\ delivered[s] = Len(sq[s])
        /\ sq'[s] = <<>> /\ delivered'[s] = 0 /\ acked'[s] = 0
    BY <1>1, <2>3, <2>4, PollSendLast
  <2>. QED
    BY <2>1, <2>5
<1>7. ~broken'[s] => ServerShape(c)'
  BY <1>1, <1>2, <1>5, <1>6 DEF ServerShape, SendQueue, RecvSame
<1>8. Live(c)' => Phase(c)'
  <2> SUFFICES ASSUME Live(c) PROVE Phase(c)'
    BY <1>2, <1>4, ServerStepFrame
  <2>1. /\ ServerReady(c) /\ ServerReady(c)'
        /\ FlushSent(c)' <=> FlushSent(c)
        /\ rcq'[s] = rcq[s] /\ rcq'[Client(c)] = rcq[Client(c)]
    BY <1>1, <1>2, <1>4, <1>6, ServerStepFrame DEF Live, ServerReady, EndSame, RecvSame
  <2>2. CASE ~FlushSent(c)
    BY <1>4, <2>1, <2>2 DEF ConnInv, Phase, BufferSame, ClientSame, EndSame, SendSame
  <2>3. CASE FlushSent(c)
    <3>1. nic[c] = posted[c] /\ Placed(c)
      BY <2>3 DEF ConnInv, Phase
    <3>2. nic'[c] = posted'[c] /\ Placed(c)'
      BY <1>4, <3>1 DEF Placed, BufferSame, ClientSame
    <3>3. \/ rcq[s] = 1 /\ rcq[Client(c)] = 0
          \/ rcq[s] = 0 /\ rcq[Client(c)] = 1
      BY <1>1, <1>6, <2>3 DEF ConnInv, Phase, Live
    <3>. QED
      BY <2>1, <2>3, <3>2, <3>3 DEF Phase
  <2>. QED
    BY <2>2, <2>3
<1>9. DataFlow(c)'
  BY <1>4, DataFlowFrame DEF ConnInv, EndSame, RecvSame, ClientSame
<1>. QED
  BY <1>2, <1>3, <1>4, <1>7, <1>8, <1>9, ServerStepFrame DEF ConnInv

----------------------------------------------------------------------------
(* The steps of the adapters and the caches.                               *)

LEMMA NetworkSame ==
    ASSUME NEW c \in Conns,
           nic_write(c) \/ nic_flush(c) \/ nic_notify(c) \/ transport(c) \/ environment(c)
    PROVE  \A d \in Conns : ClientSame(d) /\ ServerSame(d)
BY DEF nic_write, nic_flush, nic_notify, transport, Transport, environment, Environment,
       nic_ack, nic_retry_exceeded, nic_place, evict, break, client, server, ClientSame, ServerSame

\* Before the WRITE is delivered the operation is in its first half.
LEMMA HeadingWrite ==
    ASSUME TypeOK, NEW c \in Conns, ConnInv(c), Executing(Client(c), "WRITE")
    PROVE  /\ Live(c) /\ ~FlushSent(c)
           /\ sq[Client(c)] # <<>> /\ delivered[Client(c)] = 0 /\ acked[Client(c)] = 0
           /\ nic[c] = ops[c] /\ posted[c] = ops[c] + 1
<1>. DEFINE e == Client(c)
<1>. USE EndsFacts
<1>1. Live(c) /\ ClientShape(c) /\ Phase(c)
  BY DEF Executing, ConnInv, Live
<1>2. delivered[e] < Len(sq[e]) /\ sq[e][delivered[e] + 1].op = "WRITE"
  BY DEF Executing, Heading
<1>3. wpc[c] \in WorkerPcs /\ acked[e] \in Nat
  BY DEF TypeOK, RunTypeOK, VerbsTypeOK
<1>4. CASE wpc[c] \in {"wait_begin", "check_stop", "finished", "poll_recv"}
  BY <1>1, <1>2, <1>4, QueueFacts DEF ClientShape, SendQueue
<1>5. CASE wpc[c] \in {"post_recv_notification", "post_send_flush"}
  <2>1. sq[e] = <<WriteRequest>> /\ posted[c] = ops[c] + 1 /\ acked[e] <= delivered[e] /\ delivered[e] \in 0 .. 1
    BY <1>1, <1>5 DEF ClientShape, SendQueue
  <2>2. delivered[e] = 0 /\ sq[e] # <<>> /\ acked[e] = 0
    BY <1>2, <1>3, <2>1, QueueFacts
  <2>3. ~FlushSent(c)
    BY <1>5 DEF FlushSent
  <2>. QED
    BY <1>1, <2>1, <2>2, <2>3 DEF Phase
<1>6. CASE wpc[c] = "poll_send"
  <2>1. /\ sq[e] = <<WriteRequest, SendRequest>> /\ posted[c] = ops[c] + 1
        /\ acked[e] <= delivered[e] /\ delivered[e] \in 0 .. 2
    BY <1>1, <1>6 DEF ClientShape, SendQueue
  <2>2. sq[e][2].op = "SEND"
    BY <2>1 DEF SendRequest
  <2>3. delivered[e] = 0 /\ sq[e] # <<>> /\ acked[e] = 0
    BY <1>2, <1>3, <2>1, <2>2, QueueFacts
  <2>4. ~FlushSent(c)
    BY <1>6, <2>3 DEF FlushSent
  <2>. QED
    BY <1>1, <2>1, <2>3, <2>4 DEF Phase
<1>. QED
  BY <1>1, <1>3, <1>4, <1>5, <1>6 DEF WorkerPcs, ClientShape

LEMMA NicWriteStep ==
    ASSUME TypeOK, NEW c \in Conns, ConnInv(c), nic_write(c)
    PROVE  ConnInv(c)' /\ Others(c)
<1>. DEFINE e == Client(c)
<1>. USE EndsFacts
<1>1. \A d \in Conns : ClientSame(d) /\ ServerSame(d)
  BY NetworkSame
<1>2. /\ sq'[e] = sq[e] /\ delivered'[e] = delivered[e] + 1 /\ acked'[e] = acked[e]
      /\ RecvSame(e) /\ broken'[e] = broken[e]
      /\ \A f \in Ends \ {e} : EndSame(f)
  BY DeliverEffect DEF nic_write, TypeOK, RunTypeOK, Consuming
<1>3. /\ Live(c) /\ ~FlushSent(c)
      /\ sq[e] # <<>> /\ delivered[e] = 0 /\ acked[e] = 0
      /\ nic[c] = ops[c] /\ posted[c] = ops[c] + 1
  BY HeadingWrite DEF nic_write, Deliver
<1>4. /\ nic'[c] = nic[c] + 1 /\ mem' = mem /\ pmem' = pmem
      /\ \A d \in Conns \ {c} : BufferSame(d)
  BY DEF nic_write, Receive, TypeOK, RunTypeOK, BufferTypeOK, BufferSame
<1>5. Others(c)
  BY <1>1, <1>2, <1>4, OthersByEnd
<1>6. ClientShape(c)'
  <2>1. ClientShape(c)
    BY <1>3 DEF ConnInv, Live
  <2>2. wpc[c] \notin {"wait_begin", "check_stop", "finished", "poll_recv"}
    BY <1>3, <2>1 DEF ClientShape, SendQueue
  <2>. QED
    BY <1>1, <1>2, <1>3, <2>1, <2>2 DEF ClientShape, SendQueue, ClientSame, RecvSame
<1>7. EndSame(Server(c))
  BY <1>2
<1>8. ~broken'[Server(c)] => ServerShape(c)'
  BY <1>1, <1>7, ServerShapeFrame DEF ConnInv, EndSame, ServerSame
<1>9. Phase(c)'
  <2>1. ~FlushSent(c)'
    BY <1>1, <1>2, <1>3 DEF FlushSent, ClientSame
  <2>2. rcq'[Server(c)] = 0 /\ rcq'[e] = 0 /\ ServerReady(c)'
    BY <1>1, <1>2, <1>3, <1>7 DEF ConnInv, Phase, ServerReady, EndSame, SendSame, RecvSame, ServerSame
  <2>3. delivered'[e] # 0 /\ nic'[c] = posted'[c]
    BY <1>1, <1>2, <1>3, <1>4 DEF ClientSame
  <2>. QED
    BY <2>1, <2>2, <2>3 DEF Phase
<1>10. DataFlow(c)'
  <2>1. nic[c] \in Nat /\ \A l \in Lines : mem[c][l] \in Nat
    BY DEF TypeOK, RunTypeOK, BufferTypeOK
  <2>. QED
    BY <1>1, <1>2, <1>3, <1>4, <2>1 DEF ConnInv, DataFlow, Hardened, ClientSame, RecvSame
<1>. QED
  BY <1>5, <1>6, <1>8, <1>9, <1>10 DEF ConnInv

\* The flush request is delivered when the WRITE before it has been.
LEMMA HeadingSend ==
    ASSUME TypeOK, NEW c \in Conns, ConnInv(c), Executing(Client(c), "SEND")
    PROVE  /\ Live(c) /\ ~FlushSent(c) /\ wpc[c] = "poll_send"
           /\ sq[Client(c)] # <<>> /\ delivered[Client(c)] = 1
<1>. DEFINE e == Client(c)
<1>. USE EndsFacts
<1>1. Live(c) /\ ClientShape(c)
  BY DEF Executing, ConnInv, Live
<1>2. delivered[e] < Len(sq[e]) /\ sq[e][delivered[e] + 1].op = "SEND"
  BY DEF Executing, Heading
<1>3. wpc[c] \in WorkerPcs
  BY DEF TypeOK, RunTypeOK
<1>4. CASE wpc[c] \in {"wait_begin", "check_stop", "finished", "poll_recv"}
  BY <1>1, <1>2, <1>4, QueueFacts DEF ClientShape, SendQueue
<1>5. CASE wpc[c] \in {"post_recv_notification", "post_send_flush"}
  <2>1. sq[e] = <<WriteRequest>> /\ delivered[e] \in 0 .. 1
    BY <1>1, <1>5 DEF ClientShape, SendQueue
  <2>2. delivered[e] = 0
    BY <1>2, <2>1, QueueFacts
  <2>3. sq[e][1].op = "WRITE"
    BY <2>1 DEF WriteRequest
  <2>. QED
    BY <1>2, <2>2, <2>3
<1>6. CASE wpc[c] = "poll_send"
  <2>1. sq[e] = <<WriteRequest, SendRequest>> /\ delivered[e] \in 0 .. 2
    BY <1>1, <1>6 DEF ClientShape, SendQueue
  <2>2. sq[e][1].op = "WRITE"
    BY <2>1 DEF WriteRequest
  <2>3. delivered[e] # 0
    BY <1>2, <2>2
  <2>4. delivered[e] = 1 /\ sq[e] # <<>>
    BY <1>2, <2>1, <2>3, QueueFacts
  <2>. QED
    BY <1>1, <1>6, <2>4 DEF FlushSent
<1>. QED
  BY <1>1, <1>3, <1>4, <1>5, <1>6 DEF WorkerPcs, ClientShape

LEMMA NicFlushStep ==
    ASSUME TypeOK, NEW c \in Conns, ConnInv(c), nic_flush(c)
    PROVE  ConnInv(c)' /\ Others(c)
<1>. DEFINE e == Client(c)
            s == Server(c)
<1>. USE EndsFacts
<1>1. \A d \in Conns : BufferSame(d) /\ ClientSame(d) /\ ServerSame(d)
  BY NetworkSame DEF nic_flush, buffer, BufferSame
<1>2. "SEND" \in Consuming /\ e \in Ends /\ Peer(e) = s /\ s \in Ends /\ s # e
  BY DEF Consuming
<1>3. /\ sq'[e] = sq[e] /\ delivered'[e] = delivered[e] + 1 /\ acked'[e] = acked[e]
      /\ RecvSame(e) /\ broken'[e] = broken[e]
      /\ rq[s] > 0 /\ rq'[s] = rq[s] - 1 /\ rcq'[s] = rcq[s] + 1
      /\ SendSame(s) /\ broken'[s] = broken[s]
      /\ \A f \in Ends \ {e, s} : EndSame(f)
  <2>1. VerbsTypeOK /\ Deliver(e, "SEND")
    BY DEF nic_flush, TypeOK, RunTypeOK
  <2>. QED
    BY <1>2, <2>1, DeliverConsumingEffect
<1>4. /\ Live(c) /\ ~FlushSent(c) /\ wpc[c] = "poll_send"
      /\ sq[e] # <<>> /\ delivered[e] = 1
  BY HeadingSend DEF nic_flush, Deliver
<1>5. Others(c)
  BY <1>1, <1>3, OthersByEnd
<1>6. /\ rcq[s] = 0 /\ rcq[e] = 0 /\ ServerReady(c) /\ nic[c] = posted[c] /\ Placed(c)
  BY <1>4 DEF ConnInv, Phase, nic_flush
<1>7. ClientShape(c)'
  BY <1>1, <1>3, <1>4 DEF ConnInv, Live, ClientShape, SendQueue, ClientSame, RecvSame
<1>8. ServerShape(c)'
  <2>1. ServerShape(c)
    BY <1>4 DEF ConnInv, Live
  <2>2. rq[s] \in Nat /\ rcq[s] \in Nat
    BY <1>2 DEF TypeOK, RunTypeOK, VerbsTypeOK
  <2>3. rq'[s] + rcq'[s] = rq[s] + rcq[s]
    BY <1>3, <2>2
  <2>. QED
    BY <1>1, <1>3, <2>1, <2>3 DEF ServerShape, SendQueue, ServerSame, SendSame
<1>9. Phase(c)'
  <2>1. FlushSent(c)'
    BY <1>1, <1>3, <1>4 DEF FlushSent, ClientSame
  <2>2. nic'[c] = posted'[c] /\ Placed(c)'
    BY <1>1, <1>6 DEF Placed, BufferSame, ClientSame
  <2>3. rcq'[s] = 1 /\ rcq'[e] = 0 /\ ServerReady(c)'
    BY <1>1, <1>3, <1>6 DEF ServerReady, RecvSame, SendSame, ServerSame
  <2>. QED
    BY <2>1, <2>2, <2>3 DEF Phase
<1>10. DataFlow(c)'
  BY <1>1, <1>3, DataFlowFrame DEF ConnInv, RecvSame, ClientSame
<1>. QED
  BY <1>5, <1>7, <1>8, <1>9, <1>10 DEF ConnInv

LEMMA NicNotifyStep ==
    ASSUME TypeOK, NEW c \in Conns, ConnInv(c), nic_notify(c)
    PROVE  ConnInv(c)' /\ Others(c)
<1>. DEFINE e == Client(c)
            s == Server(c)
<1>. USE EndsFacts
<1>1. \A d \in Conns : BufferSame(d) /\ ClientSame(d) /\ ServerSame(d)
  BY NetworkSame DEF nic_notify, buffer, BufferSame
<1>2. "SEND" \in Consuming /\ e \in Ends /\ Peer(s) = e /\ s \in Ends /\ s # e
  BY DEF Consuming
<1>3. /\ sq'[s] = sq[s] /\ delivered'[s] = delivered[s] + 1 /\ acked'[s] = acked[s]
      /\ RecvSame(s) /\ broken'[s] = broken[s]
      /\ rq[e] > 0 /\ rq'[e] = rq[e] - 1 /\ rcq'[e] = rcq[e] + 1
      /\ SendSame(e) /\ broken'[e] = broken[e]
      /\ \A f \in Ends \ {s, e} : EndSame(f)
  <2>1. VerbsTypeOK /\ Deliver(s, "SEND")
    BY DEF nic_notify, TypeOK, RunTypeOK
  <2>. QED
    BY <1>2, <2>1, DeliverConsumingEffect
<1>4. Live(c) /\ ClientShape(c) /\ ServerShape(c) /\ Phase(c) /\ DataFlow(c)
  BY <1>2 DEF nic_notify, Deliver, Executing, Live, ConnInv
<1>5. spc[c] = "poll_send" /\ sq[s] = <<SendRequest>> /\ delivered[s] = 0 /\ acked[s] = 0
  <2>1. delivered[s] < Len(sq[s])
    BY DEF nic_notify, Deliver, Executing, Heading
  <2>2. spc[c] = "poll_send"
    BY <1>4, <2>1, QueueFacts DEF ServerShape, SendQueue
  <2>3. /\ sq[s] = <<SendRequest>> /\ delivered[s] \in 0 .. 1
        /\ acked[s] \in 0 .. 1 /\ acked[s] <= delivered[s]
    BY <1>4, <2>2 DEF ServerShape, SendQueue
  <2>. QED
    BY <2>1, <2>2, <2>3, QueueFacts
<1>6. /\ FlushSent(c) /\ nic[c] = posted[c] /\ Placed(c)
      /\ rcq[s] = 0 /\ rcq[e] = 0
      /\ UsePmem => Hardened(c)
  BY <1>4, <1>5 DEF Phase, ServerReady
<1>7. Others(c)
  BY <1>1, <1>3, OthersByEnd
<1>8. ClientShape(c)'
  <2>1. wpc[c] \in {"poll_send", "poll_recv"}
    BY <1>6 DEF FlushSent
  <2>2. rq[e] \in Nat /\ rcq[e] \in Nat
    BY <1>2 DEF TypeOK, RunTypeOK, VerbsTypeOK
  <2>3. rq'[e] + rcq'[e] = rq[e] + rcq[e]
    BY <1>3, <2>2
  <2>. QED
    BY <1>1, <1>3, <1>4, <2>1, <2>3 DEF ClientShape, SendQueue, ClientSame, SendSame
<1>9. ServerShape(c)'
  BY <1>1, <1>3, <1>4, <1>5 DEF ServerShape, SendQueue, ServerSame, RecvSame
<1>10. Phase(c)'
  <2>1. FlushSent(c)'
    BY <1>1, <1>3, <1>6 DEF FlushSent, ClientSame, SendSame
  <2>2. nic'[c] = posted'[c] /\ Placed(c)'
    BY <1>1, <1>6 DEF Placed, BufferSame, ClientSame
  <2>3. rcq'[s] = 0 /\ rcq'[e] = 1
    BY <1>3, <1>6 DEF RecvSame
  <2>4. spc'[c] = "poll_send" /\ delivered'[s] = 1
    BY <1>1, <1>3, <1>5 DEF ServerSame
  <2>. QED
    BY <2>1, <2>2, <2>3, <2>4 DEF Phase, ServerReady
<1>11. DataFlow(c)'
  <2>1. \A l \in Lines : mem[c][l] = posted[c]
    BY <1>6 DEF Placed
  <2>2. UsePmem => \A l \in Lines : pmem[c][l] = posted[c]
    BY <1>6 DEF Hardened
  <2>. QED
    BY <1>1, <1>3, <1>4, <2>1, <2>2 DEF DataFlow, Hardened, BufferSame, ClientSame
<1>. QED
  BY <1>7, <1>8, <1>9, <1>10, <1>11 DEF ConnInv

\* An acknowledgement touches nothing but acked, which Phase does not see.
LEMMA NicAckStep ==
    ASSUME TypeOK, NEW c \in Conns, ConnInv(c), NEW e \in {Client(c), Server(c)},
           nic_ack(e), UNCHANGED server
    PROVE  ConnInv(c)' /\ Others(c)
<1>. USE EndsFacts
<1>1. \A d \in Conns : BufferSame(d) /\ ClientSame(d) /\ ServerSame(d)
  BY DEF nic_ack, buffer, client, server, BufferSame, ClientSame, ServerSame
<1>2. /\ ~broken[e] /\ acked[e] < delivered[e]
      /\ acked'[e] = acked[e] + 1
      /\ acked[e] \in Nat /\ delivered[e] \in Nat
  <2>1. e \in Ends /\ VerbsTypeOK /\ Ack(e)
    BY DEF nic_ack, TypeOK, RunTypeOK
  <2>. QED
    BY <2>1, AckEffect DEF Ack, VerbsTypeOK
<1>3. /\ sq' = sq /\ delivered' = delivered /\ rq' = rq /\ rcq' = rcq /\ broken' = broken
      /\ \A f \in Ends \ {e} : EndSame(f)
  <2>1. e \in Ends /\ VerbsTypeOK /\ Ack(e)
    BY DEF nic_ack, TypeOK, RunTypeOK
  <2>. QED
    BY <2>1, AckEffect DEF Ack
<1>4. Others(c)
  BY <1>1, <1>3, OthersByEnd
<1>5. ~broken'[Client(c)] => ClientShape(c)'
  <2>1. CASE e = Client(c)
    <3>1. ClientShape(c)
      BY <1>2, <2>1 DEF ConnInv
    <3>2. acked'[e] <= delivered[e] /\ acked'[e] # 0 /\ acked'[e] \in Nat
      BY <1>2
    <3>3. wpc[c] \notin {"wait_begin", "check_stop", "finished", "poll_recv"}
      BY <1>2, <2>1, <3>1 DEF ClientShape, SendQueue
    <3>4. CASE wpc[c] \in {"post_recv_notification", "post_send_flush"}
      <4>1. SendQueue(e, <<WriteRequest>>, 0 .. 1, 0 .. 1)
        BY <2>1, <3>1, <3>4 DEF ClientShape
      <4>2. SendQueue(e, <<WriteRequest>>, 0 .. 1, 0 .. 1)'
        BY <1>3, <3>2, <4>1 DEF SendQueue
      <4>. QED
        BY <1>1, <1>3, <2>1, <3>1, <3>4, <4>2 DEF ClientShape, ClientSame
    <3>5. CASE wpc[c] = "poll_send"
      <4>1. SendQueue(e, <<WriteRequest, SendRequest>>, 0 .. 2, 0 .. 2)
        BY <2>1, <3>1, <3>5 DEF ClientShape
      <4>2. SendQueue(e, <<WriteRequest, SendRequest>>, 0 .. 2, 0 .. 2)'
        BY <1>3, <3>2, <4>1 DEF SendQueue
      <4>. QED
        BY <1>1, <1>3, <2>1, <3>1, <3>5, <4>2 DEF ClientShape, ClientSame
    <3>. QED
      BY <3>1, <3>3, <3>4, <3>5 DEF TypeOK, RunTypeOK, WorkerPcs, ClientShape
  <2>2. CASE e = Server(c)
    BY <1>1, <1>3, <2>2, ClientShapeFrame DEF ConnInv, EndSame
  <2>. QED
    BY <2>1, <2>2
<1>6. ~broken'[Server(c)] => ServerShape(c)'
  <2>1. CASE e = Server(c)
    <3>1. ServerShape(c)
      BY <1>2, <2>1 DEF ConnInv
    <3>2. acked'[e] <= delivered[e] /\ acked'[e] \in Nat
      BY <1>2
    <3>3. spc[c] = "poll_send"
      BY <1>2, <2>1, <3>1 DEF ServerShape, SendQueue
    <3>4. SendQueue(e, <<SendRequest>>, 0 .. 1, 0 .. 1)
      BY <2>1, <3>1, <3>3 DEF ServerShape
    <3>5. SendQueue(e, <<SendRequest>>, 0 .. 1, 0 .. 1)'
      BY <1>3, <3>2, <3>4 DEF SendQueue
    <3>. QED
      BY <1>1, <1>3, <2>1, <3>1, <3>3, <3>5 DEF ServerShape, ServerSame
  <2>2. CASE e = Client(c)
    BY <1>1, <1>3, <2>2, ServerShapeFrame DEF ConnInv, EndSame, ServerSame
  <2>. QED
    BY <2>1, <2>2
<1>7. Live(c)' => Phase(c)'
  BY <1>1, <1>3 DEF ConnInv, Live, Phase, FlushSent, ServerReady, Hardened, Placed,
                    BufferSame, ClientSame, ServerSame
<1>8. DataFlow(c)'
  BY <1>1, <1>3, DataFlowFrame DEF ConnInv, ClientSame
<1>. QED
  BY <1>4, <1>5, <1>6, <1>7, <1>8 DEF ConnInv

\* A queue pair that fails only takes obligations away.
LEMMA FailureStep ==
    ASSUME TypeOK, NEW c \in Conns, ConnInv(c), NEW e \in {Client(c), Server(c)},
           nic_retry_exceeded(e) \/ break(e), UNCHANGED server
    PROVE  ConnInv(c)' /\ Others(c)
<1>. USE EndsFacts
<1>1. \A d \in Conns : BufferSame(d) /\ ClientSame(d) /\ ServerSame(d)
  BY DEF nic_retry_exceeded, break, buffer, client, server, BufferSame, ClientSame, ServerSame
<1>2. /\ broken'[e] = TRUE
      /\ \A f \in Ends : SendSame(f) /\ RecvSame(f)
      /\ \A f \in Ends \ {e} : EndSame(f)
  <2>1. e \in Ends /\ VerbsTypeOK /\ (RetryExceeded(e) \/ Break(e))
    BY DEF nic_retry_exceeded, break, TypeOK, RunTypeOK
  <2>. QED
    BY <2>1, BreakEffect DEF EndSame
<1>3. Others(c)
  BY <1>1, <1>2, OthersByEnd
<1>4. ~Live(c)'
  BY <1>2 DEF Live
<1>5. /\ ~broken'[Client(c)] => ~broken[Client(c)]
      /\ ~broken'[Server(c)] => ~broken[Server(c)]
  BY <1>2 DEF EndSame
<1>6. ~broken'[Client(c)] => ClientShape(c)'
  BY <1>1, <1>2, <1>5, ClientShapeFrame DEF ConnInv
<1>7. ~broken'[Server(c)] => ServerShape(c)'
  BY <1>1, <1>2, <1>5, ServerShapeFrame DEF ConnInv, ServerSame
<1>8. DataFlow(c)'
  BY <1>1, <1>2, <1>5 DEF ConnInv, DataFlow, Hardened, BufferSame, ClientSame, RecvSame
<1>. QED
  BY <1>3, <1>4, <1>6, <1>7, <1>8 DEF ConnInv

LEMMA NicPlaceStep ==
    ASSUME TypeOK, NEW c \in Conns, ConnInv(c), NEW l \in Lines, nic_place(c, l), UNCHANGED server
    PROVE  ConnInv(c)' /\ Others(c)
<1>. USE EndsFacts
<1>1. /\ \A d \in Conns : ClientSame(d) /\ ServerSame(d)
      /\ \A f \in Ends : EndSame(f)
  BY DEF nic_place, verbs, client, server, ClientSame, ServerSame, EndSame, SendSame, RecvSame
<1>2. /\ mem[c][l] < nic[c] /\ nic' = nic /\ pmem' = pmem
      /\ mem' = [mem EXCEPT ![c] = [mem[c] EXCEPT ![l] = nic[c]]]
  BY DEF nic_place, Place
<1>3. /\ mem'[c][l] = nic[c]
      /\ \A k \in Lines \ {l} : mem'[c][k] = mem[c][k]
      /\ \A d \in Conns \ {c} : mem'[d] = mem[d]
      /\ \A k \in Lines : mem[c][k] \in Nat /\ pmem[c][k] \in Nat
      /\ nic[c] \in Nat /\ posted[c] \in Nat /\ ops[c] \in Nat
  <2>1. /\ mem \in [Conns -> [Lines -> Nat]] /\ pmem \in [Conns -> [Lines -> Nat]]
        /\ nic[c] \in Nat /\ posted[c] \in Nat /\ ops[c] \in Nat
    BY DEF TypeOK, RunTypeOK, BufferTypeOK
  <2>2. mem'[c] = [mem[c] EXCEPT ![l] = nic[c]] /\ mem[c] \in [Lines -> Nat]
    BY <1>2, <2>1
  <2>. QED
    BY <1>2, <2>1, <2>2
<1>4. Others(c)
  BY <1>1, <1>2, <1>3, OthersByEnd DEF BufferSame
<1>5. ~broken'[Client(c)] => ClientShape(c)'
  BY <1>1, ClientShapeFrame DEF ConnInv, EndSame
<1>6. ~broken'[Server(c)] => ServerShape(c)'
  BY <1>1, ServerShapeFrame DEF ConnInv, EndSame, ServerSame
<1>7. Live(c)' => Phase(c)'
  <2> SUFFICES ASSUME Live(c) PROVE Phase(c)'
    BY <1>1 DEF Live, EndSame
  <2>1. ~FlushSent(c)
    BY <1>2, <1>3 DEF ConnInv, Phase, Placed
  <2>. QED
    BY <1>1, <1>2, <2>1 DEF ConnInv, Phase, FlushSent, ServerReady, EndSame, SendSame, RecvSame,
                            ClientSame, ServerSame
<1>8. DataFlow(c)'
  <2>1. /\ nic'[c] <= posted'[c]
        /\ \A k \in Lines : mem'[c][k] <= nic'[c] /\ pmem'[c][k] <= mem'[c][k]
    BY <1>1, <1>2, <1>3 DEF ConnInv, DataFlow, ClientSame
  <2>2. ~broken[Client(c)] => \A k \in Lines : mem'[c][k] >= ops[c]
    BY <1>2, <1>3 DEF ConnInv, DataFlow
  <2>3. ~broken[Client(c)] /\ rcq[Client(c)] > 0 => \A k \in Lines : mem'[c][k] = posted[c]
    <3> SUFFICES ASSUME ~broken[Client(c)], rcq[Client(c)] > 0
                 PROVE  FALSE
      OBVIOUS
    <3>1. mem[c][l] = posted[c] /\ nic[c] <= posted[c]
      BY DEF ConnInv, DataFlow
    <3>. QED
      BY <1>2, <1>3, <3>1
  <2>. QED
    BY <1>1, <1>2, <2>1, <2>2, <2>3 DEF ConnInv, DataFlow, Hardened, EndSame, RecvSame, ClientSame
<1>. QED
  BY <1>4, <1>5, <1>6, <1>7, <1>8 DEF ConnInv

LEMMA EvictStep ==
    ASSUME TypeOK, NEW c \in Conns, ConnInv(c), NEW l \in Lines, evict(c, l), UNCHANGED server
    PROVE  ConnInv(c)' /\ Others(c)
<1>. USE EndsFacts
<1>1. /\ \A d \in Conns : ClientSame(d) /\ ServerSame(d)
      /\ \A f \in Ends : EndSame(f)
      /\ WriteBack(c, l)
  BY DEF evict, Evict, verbs, client, server, ClientSame, ServerSame, EndSame, SendSame, RecvSame
<1>2. Others(c)
  BY <1>1, WriteBackData, OthersByEnd
<1>3. DataFlow(c)'
  BY <1>1, WriteBackData DEF ClientSame
<1>4. ~broken'[Client(c)] => ClientShape(c)'
  BY <1>1, ClientShapeFrame DEF ConnInv, EndSame
<1>5. ~broken'[Server(c)] => ServerShape(c)'
  BY <1>1, ServerShapeFrame DEF ConnInv, EndSame, ServerSame
<1>6. Live(c)' => Phase(c)'
  <2> SUFFICES ASSUME Live(c) PROVE Phase(c)'
    BY <1>1 DEF Live, EndSame
  <2>1. /\ FlushSent(c)' <=> FlushSent(c)
        /\ ServerReady(c)' <=> ServerReady(c)
        /\ Placed(c)' <=> Placed(c)
    BY <1>1, WriteBackData DEF FlushSent, ServerReady, Placed, EndSame, SendSame, ClientSame, ServerSame
  <2>2. CASE ~FlushSent(c)
    BY <1>1, <2>1, <2>2, WriteBackData
       DEF ConnInv, Phase, EndSame, SendSame, RecvSame, ClientSame
  <2>3. CASE FlushSent(c)
    <3>1. nic[c] = posted[c] /\ Placed(c)
      BY <2>3 DEF ConnInv, Phase
    <3>2. mem[c][l] = posted[c]
      BY <3>1 DEF Placed
    <3>3. \A k \in Lines : pmem[c][k] = posted[c] => pmem'[c][k] = posted'[c]
      BY <1>1, <3>2, WriteBackData DEF ClientSame
    <3>4. Hardened(c) => Hardened(c)'
      BY <3>3 DEF Hardened
    <3>5. nic'[c] = posted'[c] /\ Placed(c)' /\ FlushSent(c)'
      BY <1>1, <2>1, <2>3, <3>1, WriteBackData DEF ClientSame
    <3>6. /\ rcq'[Client(c)] = rcq[Client(c)] /\ rcq'[Server(c)] = rcq[Server(c)]
          /\ spc'[c] = spc[c] /\ unflushed'[c] = unflushed[c]
          /\ delivered'[Server(c)] = delivered[Server(c)]
      BY <1>1 DEF EndSame, SendSame, RecvSame, ServerSame
    <3>. QED
      BY <2>1, <2>3, <3>3, <3>4, <3>5, <3>6 DEF ConnInv, Phase
  <2>. QED
    BY <2>2, <2>3
<1>. QED
  BY <1>2, <1>3, <1>4, <1>5, <1>6 DEF ConnInv

----------------------------------------------------------------------------
(* The invariant is inductive.                                             *)

LEMMA InitInv == Init => IInv
<1> SUFFICES ASSUME Init, NEW c \in Conns PROVE ConnInv(c)
  BY DEF IInv
<1>. USE EndsFacts
<1>1. /\ \A e \in Ends : /\ sq[e] = <<>> /\ delivered[e] = 0 /\ acked[e] = 0 /\ rcq[e] = 0
      /\ rq[Client(c)] = 0 /\ rq[Server(c)] = 1
      /\ wpc[c] = "wait_begin" /\ posted[c] = 0 /\ ops[c] = 0 /\ spc[c] = "poll_recv"
  BY DEF Init, RunInit, Client, Server
<1>2. nic[c] = 0 /\ \A l \in Lines : mem[c][l] = 0 /\ pmem[c][l] = 0
  BY DEF Init, RunInit, BufferInit
<1>3. ClientShape(c)
  BY <1>1 DEF ClientShape, SendQueue
<1>4. ServerShape(c)
  BY <1>1 DEF ServerShape, SendQueue
<1>5. Phase(c)
  BY <1>1, <1>2 DEF Phase, FlushSent, ServerReady
<1>6. DataFlow(c)
  BY <1>1, <1>2 DEF DataFlow, Hardened
<1>. QED
  BY <1>3, <1>4, <1>5, <1>6 DEF ConnInv

\* A step of one connection.
ConnStep(c) ==
    \/ worker(c) \/ server_worker(c)
    \/ nic_write(c) \/ nic_flush(c) \/ nic_notify(c)
    \/ transport(c) \/ environment(c)

LEMMA ConnStepInv ==
    ASSUME TypeOK, NEW c \in Conns, ConnInv(c), ConnStep(c)
    PROVE  ConnInv(c)' /\ Others(c)
<1>1. CASE worker(c)
  BY <1>1, WorkerIdleStep, WorkerWriteStep, WorkerRecvStep, WorkerFlushStep,
     WorkerPollSendStep, WorkerPollRecvStep DEF worker
<1>2. CASE server_worker(c)
  BY <1>2, ServerPollRecvStep, ServerPostRecvStep, ServerPersistStep, ServerPersistedStep,
     ServerNotifyStep, ServerPollSendStep DEF server_worker
<1>3. CASE nic_write(c) \/ nic_flush(c) \/ nic_notify(c)
  BY <1>3, NicWriteStep, NicFlushStep, NicNotifyStep
<1>4. CASE transport(c) \/ environment(c)
  <2>1. \A s \in Sides : <<c, s>> \in {Client(c), Server(c)}
    BY DEF Sides, Client, Server
  <2>2. UNCHANGED server
    BY <1>4 DEF transport, environment
  <2>3. CASE \E s \in Sides : nic_ack(<<c, s>>)
    BY <2>1, <2>2, <2>3, NicAckStep
  <2>4. CASE \E s \in Sides : nic_retry_exceeded(<<c, s>>) \/ break(<<c, s>>)
    BY <2>1, <2>2, <2>4, FailureStep
  <2>5. CASE \E l \in Lines : nic_place(c, l)
    BY <2>2, <2>5, NicPlaceStep
  <2>6. CASE \E l \in Lines : evict(c, l)
    BY <2>2, <2>6, EvictStep
  <2>. QED
    BY <1>4, <2>3, <2>4, <2>5, <2>6 DEF transport, Transport, environment, Environment
<1>. QED
  BY <1>1, <1>2, <1>3, <1>4 DEF ConnStep

\* A step that is not one of a connection leaves all connections alone.
LEMMA NextCases ==
    ASSUME [Next]_vars
    PROVE  \/ \E c \in Conns : ConnStep(c)
           \/ UNCHANGED <<verbs, buffer, client, server>>
<1>1. CASE run_client
  BY <1>1 DEF run_client, RunClient
<1>2. CASE UNCHANGED vars
  BY <1>2 DEF vars
<1>. QED
  BY <1>1, <1>2 DEF Next, Finished, ConnStep

LEMMA IdleSame ==
    ASSUME UNCHANGED <<verbs, buffer, client, server>>
    PROVE  \A c \in Conns : ConnSame(c)
BY DEF verbs, buffer, client, server, ConnSame, EndSame, SendSame, RecvSame, BufferSame, ClientSame,
       ServerSame

LEMMA NextInv == TypeOK /\ IInv /\ [Next]_vars => IInv'
<1> SUFFICES ASSUME TypeOK, IInv, [Next]_vars PROVE IInv'
  OBVIOUS
<1>1. CASE \E c \in Conns : ConnStep(c)
  <2>1. PICK c \in Conns : ConnStep(c)
    BY <1>1
  <2>2. ConnInv(c)' /\ Others(c)
    BY <2>1, ConnStepInv DEF IInv
  <2>3. ASSUME NEW d \in Conns \ {c} PROVE ConnInv(d)'
    BY <2>2, ConnFrame DEF IInv, Others
  <2>. QED
    BY <2>2, <2>3 DEF IInv
<1>2. CASE UNCHANGED <<verbs, buffer, client, server>>
  <2>1. ASSUME NEW d \in Conns PROVE ConnInv(d)'
    BY <1>2, IdleSame, ConnFrame DEF IInv
  <2>. QED
    BY <2>1 DEF IInv
<1>. QED
  BY <1>1, <1>2, NextCases

\* The inductive invariant of the protocol of wsbenchmark: the queues, the
\* protocol phase and the copies of the buffer agree at every step.
THEOREM Invariance == Spec => []IInv
<1>1. Init /\ TypeOK => IInv
  BY InitInv
<1>2. TypeOK /\ IInv /\ [Next]_vars => IInv'
  BY NextInv
<1>. QED
  BY <1>1, <1>2, TypeCorrect, InitInv, PTL DEF Spec

----------------------------------------------------------------------------
(* Safety.                                                                 *)

\* What the client of wsbenchmark has counted is in the server's memory, with
\* or without --pmem.
THEOREM CountedPlaced == Spec => []CountedIsPlaced
<1>1. IInv => CountedIsPlaced
  BY DEF IInv, ConnInv, DataFlow, CountedIsPlaced
<1>. QED
  BY <1>1, Invariance, PTL

\* With --pmem what the client of wsbenchmark has counted survives a power
\* failure of the server.
THEOREM CountedDurable ==
    ASSUME UsePmem
    PROVE  Spec => []CountedIsDurable
<1>1. IInv => CountedIsDurable
  BY DEF IInv, ConnInv, DataFlow, CountedIsDurable
<1>. QED
  BY <1>1, Invariance, PTL

\* A flush request and a notification always meet a posted receive.
THEOREM ReceiversReady == Spec => []ReceiverReady
<1>1. TypeOK /\ IInv => ReceiverReady
  <2> SUFFICES ASSUME TypeOK, IInv, NEW e \in Ends, NEW op \in Consuming, Executing(e, op)
               PROVE  rq[Peer(e)] > 0
    BY DEF ReceiverReady
  <2>1. PICK c \in Conns : e = Client(c) \/ e = Server(c)
    BY EndsCases
  <2>2. /\ ConnInv(c) /\ Live(c) /\ ClientShape(c) /\ ServerShape(c) /\ Phase(c)
        /\ rq[Client(c)] \in Nat /\ rq[Server(c)] \in Nat
    BY <2>1, EndsFacts, SMTT(30) DEF IInv, ConnInv, Executing, Live, TypeOK, RunTypeOK, VerbsTypeOK
  <2>3. CASE e = Client(c)
    <3>1. op = "SEND"
      <4>1. sq[e] \in {<<>>, <<WriteRequest>>, <<WriteRequest, SendRequest>>}
        BY <2>2, <2>3 DEF ClientShape, SendQueue, TypeOK, RunTypeOK, WorkerPcs
      <4>2. delivered[e] \in Nat /\ delivered[e] < Len(sq[e]) /\ sq[e][delivered[e] + 1].op = op
        BY DEF Executing, Heading, TypeOK, RunTypeOK, VerbsTypeOK
      <4>3. sq[e][delivered[e] + 1] \in {WriteRequest, SendRequest}
        <5>1. CASE sq[e] = <<WriteRequest>>
          BY <4>2, <5>1, QueueFacts
        <5>2. CASE sq[e] = <<WriteRequest, SendRequest>>
          <6>1. delivered[e] = 0 \/ delivered[e] = 1
            BY <4>2, <5>2, QueueFacts
          <6>. QED
            BY <5>2, <6>1
        <5>. QED
          BY <4>1, <4>2, <5>1, <5>2, QueueFacts
      <4>. QED
        BY <4>2, <4>3 DEF WriteRequest, SendRequest, Consuming
    <3>2. ~FlushSent(c)
      BY <2>2, <2>3, <3>1, HeadingSend
    <3>3. rcq[Server(c)] = 0 /\ spc[c] # "post_recv_flush"
      BY <2>2, <3>2 DEF Phase, ServerReady
    <3>4. rq[Server(c)] = 1
      BY <2>2, <3>3 DEF ServerShape
    <3>. QED
      BY <2>3, <3>4, EndsFacts
  <2>4. CASE e = Server(c)
    <3>1. delivered[Server(c)] < Len(sq[Server(c)])
      BY <2>4 DEF Executing, Heading
    <3>2. spc[c] = "poll_send" /\ sq[Server(c)] = <<SendRequest>>
      BY <2>2, <3>1, QueueFacts DEF ServerShape, SendQueue
    <3>3. delivered[Server(c)] # 1
      BY <3>1, <3>2, QueueFacts
    <3>4. FlushSent(c) /\ rcq[Client(c)] = 0
      BY <2>2, <3>2, <3>3 DEF Phase, ServerReady
    <3>5. rq[Client(c)] = 1
      BY <2>2, <3>4 DEF ClientShape, FlushSent
    <3>. QED
      BY <2>4, <3>5, EndsFacts
  <2>. QED
    BY <2>1, <2>3, <2>4
<1>. QED
  BY <1>1, TypeCorrect, Invariance, PTL

\* Completion queues of one entry are enough: only the last request of an
\* operation is signaled, and one receive is posted at a time.
THEOREM CompletionsBounded == Spec => []CompletionsFit
<1>1. TypeOK /\ IInv => CompletionsFit
  <2> SUFFICES ASSUME TypeOK, IInv, NEW e \in Ends, ~broken[e]
               PROVE  Cardinality(SendCompletions(e)) <= Cqe /\ rcq[e] <= Cqe
    BY DEF CompletionsFit
  <2>1. PICK c \in Conns : e = Client(c) \/ e = Server(c)
    BY EndsCases
  <2>2. /\ e = Client(c) => ClientShape(c)
        /\ e = Server(c) => ServerShape(c)
        /\ rq[e] \in Nat /\ rcq[e] \in Nat /\ acked[e] \in Nat
    BY <2>1 DEF IInv, ConnInv, TypeOK, RunTypeOK, VerbsTypeOK
  <2>3. sq[e] \in {<<>>, <<WriteRequest>>, <<SendRequest>>, <<WriteRequest, SendRequest>>}
    <3>1. CASE e = Client(c)
      BY <2>2, <3>1 DEF ClientShape, SendQueue, TypeOK, RunTypeOK, WorkerPcs
    <3>2. CASE e = Server(c)
      BY <2>2, <3>2 DEF ServerShape, SendQueue
    <3>. QED
      BY <2>1, <3>1, <3>2
  <2>4. rcq[e] <= 1
    <3>1. CASE e = Client(c)
      <4>1. rcq[e] = 0 \/ rq[e] + rcq[e] = 1
        BY <2>2, <3>1 DEF ClientShape, TypeOK, RunTypeOK, WorkerPcs
      <4>. QED
        BY <2>2, <4>1
    <3>2. CASE e = Server(c)
      <4>1. rq[e] + rcq[e] \in {0, 1}
        BY <2>2, <3>2 DEF ServerShape
      <4>. QED
        BY <2>2, <4>1
    <3>. QED
      BY <2>1, <3>1, <3>2
  <2>5. SendCompletions(e) \subseteq {Len(sq[e])}
    <3> SUFFICES ASSUME NEW k \in 1 .. Len(sq[e]), sq[e][k].sig
                 PROVE  k = Len(sq[e])
      BY DEF SendCompletions, Reports
    <3>1. ~WriteRequest.sig
      BY DEF WriteRequest
    <3>2. CASE sq[e] = <<WriteRequest, SendRequest>>
      <4>1. sq[e][1] = WriteRequest /\ k \in 1 .. 2
        BY <3>2, QueueFacts
      <4>2. k # 1
        BY <3>1, <4>1
      <4>. QED
        BY <3>2, <4>1, <4>2, QueueFacts
    <3>3. CASE sq[e] \in {<<>>, <<WriteRequest>>, <<SendRequest>>}
      <4>1. Len(sq[e]) = 0 \/ Len(sq[e]) = 1
        BY <3>3, QueueFacts
      <4>2. k \in 1 .. 0 \/ k \in 1 .. 1
        BY <4>1
      <4>3. k = 1
        BY <4>2
      <4>. QED
        BY <4>1, <4>2, <4>3
    <3>. QED
      BY <2>3, <3>2, <3>3
  <2>6. Cardinality(SendCompletions(e)) <= 1
    <3>1. IsFiniteSet({Len(sq[e])}) /\ Cardinality({Len(sq[e])}) = 1
      BY FS_Singleton
    <3>2. /\ Cardinality(SendCompletions(e)) \in Nat
          /\ Cardinality(SendCompletions(e)) <= Cardinality({Len(sq[e])})
      BY <2>5, <3>1, FS_Subset, FS_CardinalityType
    <3>. QED
      BY <3>1, <3>2
  <2>7. Cqe \in Nat /\ Cqe >= 1
    BY VerbsAssumption
  <2>8. Cardinality(SendCompletions(e)) \in Nat
    BY <2>5, FS_Singleton, FS_Subset, FS_CardinalityType
  <2>. QED
    BY <2>2, <2>4, <2>6, <2>7, <2>8
<1>. QED
  BY <1>1, TypeCorrect, Invariance, PTL

\* No thread of a sound connection ends on a refused post, and no completion
\* queue overruns.
THEOREM QueuesSufficient == Spec => []QueuesSuffice
<1>1. IInv /\ CompletionsFit => QueuesSuffice
  <2> SUFFICES ASSUME IInv, CompletionsFit, NEW c \in Conns
               PROVE  /\ wpc[c] = "failed" => broken[Client(c)]
                      /\ spc[c] = "failed" => broken[Server(c)]
    BY DEF QueuesSuffice
  <2>. QED
    BY DEF IInv, ConnInv, ClientShape, ServerShape
<1>. QED
  BY <1>1, Invariance, CompletionsBounded, PTL

\* The server persists one whole overwrite: no line of the buffer changes
\* between its taking a flush request and the end of pmem_persist.
THEOREM PersistAlone == Spec => PersistUndisturbed
<1> DEFINE BufferKept ==
      \A c \in Conns : Live(c) /\ spc[c] \in {"post_recv_flush", "persist"} => mem'[c] = mem[c]
<1>1. TypeOK /\ IInv /\ [Next]_vars => BufferKept
  <2> SUFFICES ASSUME TypeOK, IInv, [Next]_vars,
                      NEW c \in Conns, Live(c), spc[c] \in {"post_recv_flush", "persist"}
               PROVE  mem'[c] = mem[c]
    OBVIOUS
  <2>1. CASE UNCHANGED <<verbs, buffer, client, server>>
    BY <2>1 DEF buffer
  <2>2. CASE \E d \in Conns : ConnStep(d)
    <3>1. PICK d \in Conns : ConnStep(d)
      BY <2>2
    <3>2. CASE d # c
      BY <3>1, <3>2, ConnStepInv DEF IInv, Others, ConnSame, BufferSame
    <3>3. CASE d = c
      <4>1. Placed(c)
        BY DEF IInv, ConnInv, Phase, ServerReady
      <4>2. \A l \in Lines : ~nic_place(c, l)
        BY <4>1 DEF Placed, nic_place, Place, TypeOK, RunTypeOK, BufferTypeOK
      <4>3. CASE worker(c)
        BY <4>3 DEF worker, worker_begin, worker_stop, worker_write, worker_recv, worker_flush,
                    worker_poll_send, worker_poll_recv, WorkerBegin, WorkerStop, buffer
      <4>4. CASE server_worker(c)
        BY <4>4 DEF server_worker, server_poll_recv, server_post_recv, server_persist, WriteBack,
                    server_persisted, server_notify, server_poll_send, buffer
      <4>5. CASE nic_write(c) \/ nic_flush(c) \/ nic_notify(c)
        BY <4>5 DEF nic_write, Receive, nic_flush, nic_notify, buffer
      <4>6. CASE transport(c) \/ environment(c)
        BY <4>2, <4>6 DEF transport, Transport, environment, Environment, nic_ack,
                          nic_retry_exceeded, break, evict, Evict, WriteBack, buffer
      <4>. QED
        BY <3>1, <3>3, <4>3, <4>4, <4>5, <4>6 DEF ConnStep
    <3>. QED
      BY <3>2, <3>3
  <2>. QED
    BY <2>1, <2>2, NextCases
<1>. QED
  BY <1>1, TypeCorrect, Invariance, PTL DEF Spec, PersistUndisturbed

----------------------------------------------------------------------------
(* The workers and the join.                                               *)

LEMMA WorkersNext == TypeOK /\ WorkersInv /\ [Next]_vars => WorkersInv'
<1> SUFFICES ASSUME TypeOK, WorkersInv, [Next]_vars PROVE WorkersInv'
  OBVIOUS
<1>1. CASE run_client
  BY <1>1 DEF run_client, RunClient, SetBegin, SetStop, Join, Joined, WorkersInv, client
<1>2. CASE \E c \in Conns : worker(c)
  <2>1. PICK c \in Conns : worker(c)
    BY <1>2
  <2>2. /\ main' = main
        /\ wpc[c] \notin {"finished", "failed"}
        /\ \A d \in Conns \ {c} : ClientSame(d)
    BY <2>1 DEF worker, worker_begin, worker_stop, worker_write, worker_recv, worker_flush,
                worker_poll_send, worker_poll_recv, WorkerBegin, WorkerStop, NextOperation, run,
                BeginOperation, ContinueOperation, CountOperation, WorkerGoto,
                ClientSame, TypeOK, RunTypeOK
  <2>3. wpc[c] \in WorkerPcs /\ posted[c] \in Nat /\ ops[c] \in Nat
    BY DEF TypeOK, RunTypeOK
  <2>4. /\ wpc'[c] \in {"wait_begin", "check_stop", "finished"} => posted'[c] = ops'[c]
        /\ wpc'[c] \in {"post_recv_notification", "post_send_flush", "poll_send", "poll_recv"} =>
             posted'[c] = ops'[c] + 1
    <3>1. CASE worker_begin(c) \/ worker_stop(c)
      BY <3>1, <2>3 DEF WorkersInv, worker_begin, worker_stop, WorkerBegin, WorkerStop, WorkerGoto,
                        TypeOK, RunTypeOK
    <3>2. CASE worker_write(c)
      BY <3>2, <2>3 DEF WorkersInv, worker_write, NextOperation, BeginOperation, WorkerGoto,
                        TypeOK, RunTypeOK
    <3>3. CASE worker_recv(c) \/ worker_flush(c) \/ worker_poll_send(c)
      BY <3>3, <2>3 DEF WorkersInv, worker_recv, worker_flush, worker_poll_send, ContinueOperation,
                        WorkerGoto, TypeOK, RunTypeOK
    <3>4. CASE worker_poll_recv(c)
      BY <3>4, <2>3 DEF WorkersInv, worker_poll_recv, CountOperation, WorkerGoto, TypeOK, RunTypeOK
    <3>. QED
      BY <2>1, <3>1, <3>2, <3>3, <3>4 DEF worker
  <2>. QED
    BY <2>2, <2>4 DEF WorkersInv, ClientSame, Joined
<1>3. CASE UNCHANGED <<main, client>>
  BY <1>3 DEF WorkersInv, Joined, client
<1>4. \/ run_client
      \/ \E c \in Conns : worker(c)
      \/ UNCHANGED <<main, client>>
  BY DEF Next, Finished, vars, run, server_worker, server_poll_recv, server_post_recv, server_persist,
         server_persisted, server_notify, server_poll_send, nic_write, nic_flush, nic_notify,
         transport, Transport, environment, Environment, nic_ack, nic_retry_exceeded, nic_place,
         evict, break
<1>. QED
  BY <1>1, <1>2, <1>3, <1>4

\* Every operation is begun once and counted at most once, connection failures
\* or not, and run_client joins only workers that have ended.
THEOREM WorkersInvariance == Spec => []WorkersInv
<1>1. Init => WorkersInv
  BY DEF Init, RunInit, WorkersInv, Joined
<1>. QED
  BY <1>1, WorkersNext, TypeCorrect, PTL DEF Spec

\* When run_client goes on to disconnect, nothing is left at the client end.
THEOREM JoinedQuiet == Spec => []JoinedIsQuiet
<1>1. IInv /\ WorkersInv => JoinedIsQuiet
  <2> SUFFICES ASSUME IInv, WorkersInv, Joined, NEW c \in Conns, ~broken[Client(c)]
               PROVE  /\ sq[Client(c)] = <<>>
                      /\ rq[Client(c)] = 0 /\ rcq[Client(c)] = 0
                      /\ ops[c] = posted[c]
    BY DEF JoinedIsQuiet
  <2>1. ClientShape(c) /\ wpc[c] = "finished"
    BY DEF IInv, ConnInv, WorkersInv, ClientShape
  <2>. QED
    BY <2>1 DEF ClientShape, SendQueue
<1>. QED
  BY <1>1, Invariance, WorkersInvariance, PTL

----------------------------------------------------------------------------
(* Refinement.                                                             *)

LEMMA RefineInit == Init => Persist!Init
BY EndsFacts DEF Init, RunInit, BufferInit, Persist!Init, Lost

\* Writing one line back hardens it, or changes nothing.
LEMMA RefineWriteBack ==
    ASSUME TypeOK, IInv, NEW c \in Conns, NEW l \in Lines, WriteBack(c, l),
           UNCHANGED <<posted, ops, broken>>
    PROVE  [Persist!Next]_Persist!vars
<1>1. /\ pmem \in [Conns -> [Lines -> Nat]] /\ mem \in [Conns -> [Lines -> Nat]]
      /\ nic[c] \in Nat /\ posted[c] \in Nat
  BY DEF TypeOK, RunTypeOK, BufferTypeOK
<1>2. mem[c][l] \in 0 .. posted[c] /\ pmem[c][l] <= mem[c][l]
  BY <1>1 DEF IInv, ConnInv, DataFlow
<1>3. pmem' = [pmem EXCEPT ![c][l] = mem[c][l]]
  BY DEF WriteBack
<1>4. UNCHANGED <<posted, ops, Lost>>
  BY DEF Lost
<1>5. CASE mem[c][l] = pmem[c][l]
  <2>1. pmem' = pmem
    BY <1>1, <1>3, <1>5
  <2>. QED
    BY <1>4, <2>1 DEF Persist!vars
<1>6. CASE mem[c][l] > pmem[c][l]
  BY <1>2, <1>3, <1>4, <1>6 DEF Persist!Next, Persist!Harden
<1>7. mem[c][l] \in Nat /\ pmem[c][l] \in Nat
  BY <1>1
<1>. QED
  BY <1>2, <1>5, <1>6, <1>7

LEMMA RefineNext ==
    ASSUME UsePmem, TypeOK, IInv, WorkersInv, [Next]_vars
    PROVE  [Persist!Next]_Persist!vars
<1>. USE EndsFacts
<1>1. ASSUME UNCHANGED <<pmem, posted, ops, broken>>
      PROVE  [Persist!Next]_Persist!vars
  BY <1>1 DEF Persist!vars, Lost
<1>2. ASSUME NEW c \in Conns, worker_write(c)
      PROVE  [Persist!Next]_Persist!vars
  <2>1. posted[c] = ops[c] /\ UNCHANGED <<pmem, ops, broken>>
    BY <1>2 DEF worker_write, NextOperation, BeginOperation, post_send_write, PostSend, buffer, WorkersInv
  <2>2. posted' = posted \/ posted' = [posted EXCEPT ![c] = @ + 1]
    BY <1>2 DEF worker_write, BeginOperation
  <2>3. UNCHANGED Lost
    BY <2>1 DEF Lost
  <2>. QED
    BY <1>1, <2>1, <2>2, <2>3 DEF Persist!Next, Persist!Issue
<1>3. ASSUME NEW c \in Conns, worker_poll_recv(c)
      PROVE  [Persist!Next]_Persist!vars
  <2>1. /\ wpc[c] = "poll_recv"
        /\ PollRecv(Client(c)) \/ PollFlushed(Client(c))
        /\ ops' = [ops EXCEPT ![c] = @ + 1]
        /\ UNCHANGED <<posted, pmem>>
    BY <1>3 DEF worker_poll_recv, node_poll_n_recv, CountOperation, buffer
  <2>2. UNCHANGED Lost
    BY <2>1 DEF Lost, PollRecv, PollFlushed
  <2>3. ops[c] < posted[c]
    BY <2>1 DEF WorkersInv, TypeOK, RunTypeOK
  <2>4. Lost[c] \/ \A l \in Lines : pmem[c][l] = posted[c]
    BY <2>1 DEF Lost, PollRecv, PollFlushed, IInv, ConnInv, DataFlow, Hardened
  <2>. QED
    BY <2>1, <2>2, <2>3, <2>4 DEF Persist!Next, Persist!Count
<1>4. ASSUME NEW c \in Conns, NEW s \in Sides, break(<<c, s>>) \/ nic_retry_exceeded(<<c, s>>)
      PROVE  [Persist!Next]_Persist!vars
  <2>1. /\ broken' = [broken EXCEPT ![<<c, s>>] = TRUE]
        /\ broken \in [Ends -> BOOLEAN] /\ <<c, s>> \in Ends
        /\ UNCHANGED <<pmem, posted, ops>>
    BY <1>4 DEF break, nic_retry_exceeded, Break, RetryExceeded, buffer, client, TypeOK, RunTypeOK,
                VerbsTypeOK, Ends
  <2>2. CASE s = "client"
    <3>1. \A d \in Conns : broken'[Client(d)] = (IF d = c THEN TRUE ELSE broken[Client(d)])
      BY <2>1, <2>2 DEF Client
    <3>2. Lost' = [Lost EXCEPT ![c] = TRUE]
      BY <3>1 DEF Lost
    <3>. QED
      BY <2>1, <3>2 DEF Persist!Next, Persist!Lose
  <2>3. CASE s = "server"
    <3>1. \A d \in Conns : broken'[Client(d)] = broken[Client(d)]
      BY <2>1, <2>3 DEF Client
    <3>2. Lost' = Lost
      BY <3>1 DEF Lost
    <3>. QED
      BY <2>1, <3>2 DEF Persist!vars
  <2>. QED
    BY <2>2, <2>3 DEF Sides
<1>5. ASSUME NEW c \in Conns, NEW l \in Lines, server_persist(c, l) \/ evict(c, l)
      PROVE  [Persist!Next]_Persist!vars
  BY <1>5, RefineWriteBack DEF server_persist, evict, Evict, verbs, client
<1>6. CASE run_client \/ UNCHANGED vars
  BY <1>1, <1>6 DEF run_client, RunClient, vars, verbs, buffer, client
<1>7. CASE \E c \in Conns : worker(c)
  <2>1. PICK c \in Conns : worker(c)
    BY <1>7
  <2>2. CASE worker_begin(c) \/ worker_stop(c)
    BY <1>1, <2>2 DEF worker_begin, worker_stop, WorkerBegin, WorkerStop, verbs, buffer
  <2>3. CASE worker_recv(c) \/ worker_flush(c) \/ worker_poll_send(c)
    BY <1>1, <2>3 DEF worker_recv, worker_flush, worker_poll_send, ContinueOperation, buffer,
                      post_recv_notification, post_send_flush, node_poll_n_send,
                      PostRecv, PostSend, PollSend, Retire
  <2>. QED
    BY <1>2, <1>3, <2>1, <2>2, <2>3 DEF worker
<1>8. CASE \E c \in Conns : server_worker(c)
  <2>1. PICK c \in Conns : server_worker(c)
    BY <1>8
  <2>2. CASE server_poll_recv(c) \/ server_post_recv(c) \/ server_persisted(c)
    BY <1>1, <2>2 DEF server_poll_recv, server_post_recv, server_persisted, post_recv_flush,
                      PollRecv, PollFlushed, PostRecv, verbs, buffer, client
  <2>3. CASE server_notify(c) \/ server_poll_send(c)
    BY <1>1, <2>3 DEF server_notify, server_poll_send, post_send_notification, node_poll_n_send,
                      PostSend, PollSend, Retire, buffer, client
  <2>. QED
    BY <1>5, <2>1, <2>2, <2>3 DEF server_worker
<1>9. CASE \E c \in Conns : nic_write(c) \/ nic_flush(c) \/ nic_notify(c)
  BY <1>1, <1>9 DEF nic_write, nic_flush, nic_notify, Deliver, Receive, buffer, client
<1>10. CASE \E c \in Conns : transport(c) \/ environment(c)
  <2>1. PICK c \in Conns : transport(c) \/ environment(c)
    BY <1>10
  <2>2. CASE \E s \in Sides : nic_ack(<<c, s>>)
    BY <1>1, <2>2 DEF nic_ack, Ack, buffer, client
  <2>3. CASE \E l \in Lines : nic_place(c, l)
    BY <1>1, <2>3 DEF nic_place, Place, verbs, client
  <2>. QED
    BY <1>4, <1>5, <2>1, <2>2, <2>3 DEF transport, Transport, environment, Environment
<1>. QED
  BY <1>6, <1>7, <1>8, <1>9, <1>10 DEF Next, Finished

\* With --pmem wsbenchmark keeps the promise of RemotePersist: it counts an
\* overwrite only when all of it is durable.
THEOREM Refinement ==
    ASSUME UsePmem
    PROVE  Spec => ImplementsPersist
<1>1. TypeOK /\ IInv /\ WorkersInv /\ [Next]_vars => [Persist!Next]_Persist!vars
  BY RefineNext
<1>. QED
  BY <1>1, RefineInit, TypeCorrect, Invariance, WorkersInvariance, PTL
     DEF Spec, ImplementsPersist, Persist!Spec

----------------------------------------------------------------------------
(* WsLifecycle: every step is one of WriteSend, or leaves its variables    *)
(* alone.                                                                  *)

\* Forcing a queue pair into the error state is a failure, or changes nothing.
LEMMA ToErrorStep ==
    ASSUME TypeOK, NEW c \in Conns, ToError(Client(c)) \/ ToError(Server(c))
    PROVE  [Next]_vars
<1>1. PICK s \in Sides : ToError(<<c, s>>)
  BY DEF Client, Server, Sides
<1>2. <<c, s>> \in Ends
  BY DEF Ends
<1>3. CASE broken[<<c, s>>]
  <2>1. broken' = broken
    BY <1>1, <1>2, <1>3 DEF ToError, TypeOK, RunTypeOK, VerbsTypeOK
  <2>. QED
    BY <1>1, <2>1 DEF ToError, vars, verbs
<1>4. CASE ~broken[<<c, s>>]
  <2>1. break(<<c, s>>) /\ UNCHANGED server
    BY <1>1, <1>4, LifecycleAssumption DEF ToError, break, Break
  <2>2. environment(c)
    BY <2>1 DEF environment, Environment
  <2>. QED
    BY <2>2 DEF Next
<1>. QED
  BY <1>3, <1>4

LEMMA LifeStep ==
    ASSUME TypeOK, [LifeNext]_lifeVars
    PROVE  [Next]_vars
<1>1. CASE client_main
  BY <1>1, ToErrorStep DEF client_main, client_run, client_disconnect, client_disconnected,
                           client_exit, Next
<1>2. CASE server_main
  BY <1>2, ToErrorStep DEF server_main, server_disconnected, ServerHears, destroy_queues,
                           release_memory, server_served, server_exit
<1>3. CASE server_intruded
  BY <1>3 DEF server_intruded
<1>4. ASSUME NEW c \in Conns,
             client_thread(c) \/ server_thread(c) \/ adapters(c) \/ fault(c)
      PROVE  Next
  BY <1>4, LifecycleAssumption DEF client_thread, server_thread, adapters, fault, environment, Environment, Next
<1>5. ASSUME NEW c \in Conns, server_worker_astray(c) \/ server_gone(c)
      PROVE  [Next]_vars
  BY <1>5, ToErrorStep DEF server_worker_astray, server_gone
<1>6. CASE Ended \/ UNCHANGED lifeVars
  BY <1>6 DEF Ended, lifeVars
<1>. QED
  BY <1>1, <1>2, <1>3, <1>4, <1>5, <1>6 DEF LifeNext

\* The whole program is wsbenchmark's data path with a main thread at either
\* end: what is proved of WriteSend holds of it.
THEOREM DataPathRefined == LifeSpec => Spec
<1>1. LifeInit => Init
  BY DEF LifeInit
<1>2. TypeOK /\ [LifeNext]_lifeVars => [Next]_vars
  BY LifeStep
<1>3. TypeOK /\ [Next]_vars => TypeOK'
  BY NextType
<1>. QED
  BY <1>1, <1>2, <1>3, InitType, PTL DEF LifeSpec, Spec

----------------------------------------------------------------------------
(* The main threads.                                                       *)

\* What the main threads know: disconnects_left is what is left to hear, the
\* client disconnects after its join only, and the server leaves its event
\* loop when all is heard or a stranger has asked.
MainsInv ==
    /\ heard \subseteq disconnecting
    /\ disconnects_left + Cardinality(heard) = Cardinality(Conns)
    /\ disconnecting # {} => Joined
    /\ smain # "serve" => intruded \/ disconnects_left = 0

\* A queue pair that is destroyed takes nothing in any more, and memory that
\* is released has nothing on its way to it.
ReleasedInv ==
    /\ \A c \in unqueued : broken[Server(c)]
    /\ \A c \in released : Placed(c)

LifeInv == LifeTypeOK /\ MainsInv /\ ReleasedInv

LEMMA ConnsFinite ==
    ASSUME NEW S \in SUBSET Conns
    PROVE  /\ IsFiniteSet(S) /\ Cardinality(S) \in Nat
           /\ Cardinality(Conns) \in Nat
           /\ Cardinality(S) = Cardinality(Conns) => S = Conns
           /\ \A c \in Conns \ S : Cardinality(S \cup {c}) = Cardinality(S) + 1
BY LifecycleAssumption, FS_Subset, FS_CardinalityType, FS_AddElement

LEMMA LifeInitInv == LifeInit => LifeInv
<1> SUFFICES ASSUME LifeInit PROVE LifeInv
  OBVIOUS
<1>1. TypeOK
  BY InitType DEF LifeInit
<1>2. Cardinality(Conns) \in Nat /\ Cardinality({}) = 0
  BY ConnsFinite, FS_EmptySet
<1>3. LifeTypeOK
  <2> DEFINE n == Cardinality(Conns)
  <2>1. n \in Nat /\ disconnects_left = n
    BY <1>2 DEF LifeInit
  <2>2. disconnects_left \in 0 .. n
    <3> HIDE DEF n
    <3>. QED
      BY <2>1
  <2>. QED
    BY <1>1, <2>2 DEF LifeInit, LifeTypeOK
<1>4. heard = {} /\ disconnects_left + Cardinality(heard) = Cardinality(Conns)
  BY <1>2 DEF LifeInit
<1>5. MainsInv /\ ReleasedInv
  BY <1>4 DEF LifeInit, MainsInv, ReleasedInv
<1>. QED
  BY <1>3, <1>5 DEF LifeInv

\* Steps of threads, adapters and faults leave the main threads' state alone,
\* but for the join.
LEMMA DataPathStep ==
    ASSUME LifeInv, [Next]_vars, UNCHANGED lifecycle
    PROVE  LifeTypeOK' /\ MainsInv'
<1>1. TypeOK'
  BY NextType DEF LifeInv, LifeTypeOK
<1>2. Joined => Joined'
  BY DEF Joined, Next, run_client, RunClient, SetBegin, SetStop, Join,
         Finished, vars, run, server_worker, server_poll_recv, server_post_recv, server_persist,
         server_persisted, server_notify, server_poll_send, nic_write, nic_flush, nic_notify,
         transport, Transport, environment, Environment, nic_ack, nic_retry_exceeded, nic_place,
         evict, break, worker, worker_begin, worker_stop, worker_write, worker_recv, worker_flush,
         worker_poll_send, worker_poll_recv, WorkerBegin, WorkerStop
<1>. QED
  BY <1>1, <1>2 DEF LifeInv, LifeTypeOK, MainsInv, lifecycle

LEMMA MainStep ==
    ASSUME LifeInv,
           \/ \E c \in Conns : client_disconnect(c) \/ client_disconnected(c) \/ server_disconnected(c)
                               \/ destroy_queues(c) \/ release_memory(c)
                               \/ server_worker_astray(c) \/ server_gone(c)
           \/ client_exit \/ server_served \/ server_exit \/ server_intruded
    PROVE  LifeTypeOK' /\ MainsInv'
<1>. USE DEF LifeInv
<1>0. TypeOK'
  <2>1. [LifeNext]_lifeVars
    BY DEF LifeNext, client_main, server_main
  <2>. QED
    BY <2>1, LifeStep, NextType DEF LifeTypeOK
<1>1. UNCHANGED main
  BY DEF client_disconnect, client_disconnected, server_disconnected, ServerHears,
         destroy_queues, release_memory, server_worker_astray, server_gone, client_exit,
         server_served, server_exit,
         server_intruded, ToError, vars, run
<1>2. ASSUME NEW c \in Conns, client_disconnect(c) PROVE LifeTypeOK' /\ MainsInv'
  BY <1>0, <1>1, <1>2 DEF client_disconnect, LifeTypeOK, MainsInv, Joined
<1>3. ASSUME NEW c \in Conns, server_disconnected(c) PROVE LifeTypeOK' /\ MainsInv'
  <2>1. /\ disconnects_left' = disconnects_left - 1 /\ disconnects_left > 0
        /\ heard' = heard \cup {c} /\ c \in Conns \ heard /\ c \in disconnecting
        /\ UNCHANGED <<smain, cmain, disconnecting, ended, unqueued, released, intruded>>
        /\ smain = "serve"
    BY <1>3 DEF server_disconnected, ServerHears
  <2>2. Cardinality(heard') = Cardinality(heard) + 1 /\ Cardinality(heard) \in Nat
        /\ Cardinality(Conns) \in Nat
    BY <2>1, ConnsFinite DEF LifeTypeOK
  <2>. QED
    BY <1>0, <1>1, <2>1, <2>2 DEF LifeTypeOK, MainsInv, Joined
<1>4. ASSUME NEW c \in Conns, destroy_queues(c) \/ release_memory(c)
      PROVE  LifeTypeOK' /\ MainsInv'
  BY <1>0, <1>1, <1>4 DEF destroy_queues, release_memory, NextNode, LifeTypeOK, MainsInv, Joined
<1>5. ASSUME NEW c \in Conns, server_worker_astray(c) \/ server_gone(c)
      PROVE  LifeTypeOK' /\ MainsInv'
  BY <1>0, <1>1, <1>5 DEF server_worker_astray, server_gone, lifecycle, LifeTypeOK, MainsInv, Joined
<1>6. CASE client_exit \/ server_served \/ server_exit \/ server_intruded
  BY <1>0, <1>1, <1>6 DEF client_exit, server_served, server_exit, server_intruded, LifeTypeOK,
                          MainsInv, Joined
<1>7. ASSUME NEW c \in Conns, client_disconnected(c) PROVE LifeTypeOK' /\ MainsInv'
  BY <1>0, <1>1, <1>7 DEF client_disconnected, LifeTypeOK, MainsInv, Joined
<1>. QED
  BY <1>2, <1>3, <1>4, <1>5, <1>6, <1>7

\* A queue pair stays in the error state.
LEMMA BrokenStays ==
    ASSUME TypeOK, [Next]_vars, NEW c \in Conns, broken[Server(c)]
    PROVE  broken'[Server(c)]
<1>. USE EndsFacts
<1>1. CASE UNCHANGED broken
  BY <1>1
<1>2. CASE \E d \in Conns, s \in Sides : nic_retry_exceeded(<<d, s>>) \/ break(<<d, s>>)
  BY <1>2 DEF nic_retry_exceeded, break, RetryExceeded, Break, TypeOK, RunTypeOK, VerbsTypeOK
<1>3. \/ UNCHANGED broken
      \/ \E d \in Conns, s \in Sides : nic_retry_exceeded(<<d, s>>) \/ break(<<d, s>>)
  <2>1. CASE UNCHANGED <<verbs, buffer, client, server>>
    BY <2>1 DEF verbs
  <2>2. ASSUME NEW d \in Conns, worker(d) PROVE UNCHANGED broken
    BY <2>2 DEF worker, worker_begin, worker_stop, worker_write, worker_recv, worker_flush,
                worker_poll_send, worker_poll_recv, WorkerBegin, WorkerStop, verbs,
                post_send_write, post_send_flush, post_recv_notification, node_poll_n_send,
                node_poll_n_recv, PostSend, PostRecv, PollSend, Retire, PollRecv, PollFlushed
  <2>3. ASSUME NEW d \in Conns, server_worker(d) PROVE UNCHANGED broken
    BY <2>3 DEF server_worker, server_poll_recv, server_post_recv, server_persist,
                server_persisted, server_notify, server_poll_send, verbs,
                post_send_notification, post_recv_flush, node_poll_n_send, PostSend, PostRecv,
                PollSend, Retire, PollRecv, PollFlushed
  <2>4. ASSUME NEW d \in Conns, nic_write(d) \/ nic_flush(d) \/ nic_notify(d)
        PROVE  UNCHANGED broken
    BY <2>4 DEF nic_write, nic_flush, nic_notify, Deliver
  <2>5. ASSUME NEW d \in Conns, transport(d) \/ environment(d)
        PROVE  \/ UNCHANGED broken
               \/ \E s \in Sides : nic_retry_exceeded(<<d, s>>) \/ break(<<d, s>>)
    BY <2>5 DEF transport, Transport, environment, Environment, nic_ack, Ack, nic_place, evict, verbs
  <2>. QED
    BY <2>1, <2>2, <2>3, <2>4, <2>5, NextCases DEF ConnStep
<1>. QED
  BY <1>1, <1>2, <1>3

\* Nothing comes to a buffer behind a dead queue pair.
LEMMA BufferRests ==
    ASSUME TypeOK, [Next]_vars, NEW c \in Conns, broken[Server(c)], Placed(c)
    PROVE  nic'[c] = nic[c] /\ mem'[c] = mem[c]
<1>. USE EndsFacts
<1>1. CASE UNCHANGED <<verbs, buffer, client, server>>
  BY <1>1 DEF buffer
<1>2. ASSUME NEW d \in Conns, worker(d) PROVE UNCHANGED buffer
  BY <1>2 DEF worker, worker_begin, worker_stop, worker_write, worker_recv, worker_flush,
              worker_poll_send, worker_poll_recv, WorkerBegin, WorkerStop
<1>3. ASSUME NEW d \in Conns, server_worker(d) PROVE UNCHANGED <<nic, mem>>
  BY <1>3 DEF server_worker, server_poll_recv, server_post_recv, server_persist, WriteBack,
              server_persisted, server_notify, server_poll_send, buffer
<1>4. ASSUME NEW d \in Conns, nic_write(d) PROVE nic'[c] = nic[c] /\ mem'[c] = mem[c]
  <2>1. d # c
    BY <1>4 DEF nic_write, Deliver, Executing
  <2>. QED
    BY <1>4, <2>1 DEF nic_write, Receive, TypeOK, RunTypeOK, BufferTypeOK
<1>5. ASSUME NEW d \in Conns, nic_flush(d) \/ nic_notify(d) PROVE UNCHANGED buffer
  BY <1>5 DEF nic_flush, nic_notify
<1>6. ASSUME NEW d \in Conns, transport(d) \/ environment(d)
      PROVE  nic'[c] = nic[c] /\ mem'[c] = mem[c]
  <2>1. CASE \E l \in Lines : nic_place(d, l)
    <3>1. PICK l \in Lines : nic_place(d, l)
      BY <2>1
    <3>2. d # c
      BY <3>1 DEF nic_place, Place, Placed, TypeOK, RunTypeOK, BufferTypeOK
    <3>. QED
      BY <3>1, <3>2 DEF nic_place, Place, TypeOK, RunTypeOK, BufferTypeOK
  <2>2. CASE ~\E l \in Lines : nic_place(d, l)
    BY <1>6, <2>2 DEF transport, Transport, environment, Environment, nic_ack, nic_retry_exceeded,
                      break, evict, Evict, WriteBack, buffer
  <2>. QED
    BY <2>1, <2>2
<1>. QED
  BY <1>1, <1>2, <1>3, <1>4, <1>5, <1>6, NextCases DEF ConnStep, buffer

LEMMA ReleasedStep ==
    ASSUME LifeInv, [LifeNext]_lifeVars
    PROVE  /\ ReleasedInv'
           /\ \A c \in released : nic'[c] = nic[c] /\ mem'[c] = mem[c]
<1>. USE EndsFacts
<1>1. TypeOK /\ [Next]_vars
  BY LifeStep DEF LifeInv, LifeTypeOK
<1>2. released \subseteq unqueued /\ unqueued \subseteq Conns
  BY DEF LifeInv, LifeTypeOK
<1>3. ASSUME NEW c \in released PROVE nic'[c] = nic[c] /\ mem'[c] = mem[c]
  BY <1>1, <1>2, <1>3, BufferRests DEF LifeInv, ReleasedInv
<1>4. ASSUME NEW c \in unqueued PROVE broken'[Server(c)]
  BY <1>1, <1>2, <1>4, BrokenStays DEF LifeInv, ReleasedInv
<1>5. CASE UNCHANGED <<unqueued, released>>
  BY <1>3, <1>4, <1>5 DEF LifeInv, ReleasedInv, Placed
<1>6. CASE \E c \in Conns : destroy_queues(c)
  <2>1. PICK c \in Conns : destroy_queues(c)
    BY <1>6
  <2>2. unqueued' = unqueued \cup {c} /\ released' = released /\ broken'[Server(c)]
    BY <1>1, <2>1 DEF destroy_queues, ToError, TypeOK, RunTypeOK, VerbsTypeOK
  <2>. QED
    BY <1>3, <1>4, <2>2 DEF LifeInv, ReleasedInv, Placed
<1>7. CASE \E c \in Conns : release_memory(c)
  <2>1. PICK c \in Conns : release_memory(c)
    BY <1>7
  <2>2. unqueued' = unqueued /\ released' = released \cup {c} /\ Placed(c) /\ UNCHANGED buffer
    BY <2>1 DEF release_memory, vars
  <2>3. Placed(c)'
    BY <2>2 DEF Placed, buffer
  <2>. QED
    BY <1>3, <1>4, <2>2, <2>3 DEF LifeInv, ReleasedInv, Placed
<1>8. \/ UNCHANGED <<unqueued, released>>
      \/ \E c \in Conns : destroy_queues(c)
      \/ \E c \in Conns : release_memory(c)
  BY DEF LifeNext, client_main, client_run, client_disconnect, client_disconnected,
         client_exit, server_main, server_disconnected, ServerHears, server_served, server_exit, server_intruded,
         client_thread, server_thread, adapters, fault, server_worker_astray, server_gone, Ended,
         lifecycle, lifeVars
<1>. QED
  BY <1>3, <1>5, <1>6, <1>7, <1>8

----------------------------------------------------------------------------
(* The inductive invariant.                                                *)

LEMMA LifeNextInv == LifeInv /\ [LifeNext]_lifeVars => LifeInv'
<1> SUFFICES ASSUME LifeInv, [LifeNext]_lifeVars PROVE LifeInv'
  OBVIOUS
<1>1. [Next]_vars
  BY LifeStep DEF LifeInv, LifeTypeOK
<1>2. CASE UNCHANGED lifecycle
  BY <1>1, <1>2, DataPathStep, ReleasedStep DEF LifeInv
<1>3. CASE \/ \E c \in Conns : client_disconnect(c) \/ client_disconnected(c) \/ server_disconnected(c)
                               \/ destroy_queues(c) \/ release_memory(c)
                               \/ server_worker_astray(c) \/ server_gone(c)
           \/ client_exit \/ server_served \/ server_exit \/ server_intruded
  BY <1>3, MainStep, ReleasedStep DEF LifeInv
<1>4. ASSUME client_run \/ \E c \in Conns : client_thread(c) \/ server_thread(c) \/ adapters(c) \/ fault(c)
      PROVE  UNCHANGED lifecycle
  BY <1>4 DEF client_run, client_thread, server_thread, adapters, fault
<1>. QED
  BY <1>2, <1>3, <1>4 DEF LifeNext, client_main, server_main, Ended, lifeVars

\* The variables of wsbenchmark's main threads keep their types to the end.
THEOREM LifeTypeCorrect == LifeSpec => []LifeTypeOK
BY LifeInitInv, LifeNextInv, PTL DEF LifeSpec, LifeInv

\* The counts of both main threads agree, and memory that destroy_node frees
\* is out of reach of the adapter.
THEOREM LifeInvariance == LifeSpec => []LifeInv
BY LifeInitInv, LifeNextInv, PTL DEF LifeSpec

\* Unless a stranger interferes, the server takes down its nodes only when the
\* client has joined its workers and disconnected every connection.
THEOREM ServedEnd == LifeSpec => []ServedToTheEnd
<1>1. LifeInv /\ WorkersInv => ServedToTheEnd
  <2> SUFFICES ASSUME LifeInv, WorkersInv, smain # "serve", ~intruded
               PROVE  /\ disconnecting = Conns
                      /\ \A c \in Conns : wpc[c] \in {"finished", "failed"}
    BY DEF ServedToTheEnd
  <2>1. disconnects_left = 0 /\ heard \subseteq Conns /\ heard \subseteq disconnecting
        /\ disconnecting \subseteq Conns
    BY DEF LifeInv, LifeTypeOK, MainsInv
  <2>2. Cardinality(heard) = Cardinality(Conns)
    BY <2>1, ConnsFinite DEF LifeInv, MainsInv
  <2>3. heard = Conns
    BY <2>1, <2>2, ConnsFinite
  <2>4. disconnecting = Conns
    BY <2>1, <2>3
  <2>5. \A c \in Conns : Joined
    BY <2>4 DEF LifeInv, MainsInv
  <2>. QED
    BY <2>4, <2>5 DEF WorkersInv
<1>. QED
  BY <1>1, LifeInvariance, DataPathRefined, WorkersInvariance, PTL

\* What the client's WRITEs bring never lands in memory that is freed.
THEOREM ReleasedRests == LifeSpec => ReleasedUntouched
<1>1. LifeInv /\ [LifeNext]_lifeVars => \A c \in released : nic'[c] = nic[c] /\ mem'[c] = mem[c]
  BY ReleasedStep
<1>. QED
  BY <1>1, LifeInvariance, PTL DEF LifeSpec, ReleasedUntouched

\* On a sound connection rdma_disconnect drops nothing: every operation begun
\* is counted, its data in the server's memory, the server worker idle.
THEOREM NothingLost == LifeSpec => DisconnectLosesNothing
<1> DEFINE Nothing ==
      \A c \in disconnecting' \ disconnecting :
         Live(c) =>
             /\ ops[c] = posted[c]
             /\ \A l \in Lines : mem[c][l] = posted[c]
             /\ rcq[Server(c)] = 0 /\ spc[c] \in {"poll_recv", "poll_send"}
<1>1. LifeInv /\ IInv /\ WorkersInv /\ [LifeNext]_lifeVars => Nothing
  <2> SUFFICES ASSUME LifeInv, IInv, WorkersInv, [LifeNext]_lifeVars,
                      NEW c \in disconnecting' \ disconnecting, Live(c)
               PROVE  /\ ops[c] = posted[c]
                      /\ \A l \in Lines : mem[c][l] = posted[c]
                      /\ rcq[Server(c)] = 0 /\ spc[c] \in {"poll_recv", "poll_send"}
    OBVIOUS
  <2>1. c \in Conns /\ Joined
    BY DEF LifeNext, client_main, client_run, client_disconnect, client_disconnected,
           client_exit, server_main, server_disconnected, ServerHears, server_served, server_exit, server_intruded,
           client_thread, server_thread, adapters, fault, server_worker_astray, server_gone,
           destroy_queues, release_memory, Ended, lifecycle, lifeVars
  <2>2. wpc[c] = "finished" /\ posted[c] = ops[c]
    BY <2>1 DEF WorkersInv, IInv, ConnInv, ClientShape, Live
  <2>3. rcq[Server(c)] = 0 /\ ServerReady(c)
    BY <2>1, <2>2 DEF IInv, ConnInv, Phase, FlushSent
  <2>4. ASSUME NEW l \in Lines PROVE mem[c][l] = posted[c]
    <3>1. nic[c] <= posted[c] /\ mem[c][l] <= nic[c] /\ mem[c][l] >= posted[c]
      BY <2>1, <2>2 DEF IInv, ConnInv, DataFlow, Live
    <3>2. mem[c][l] \in Nat /\ nic[c] \in Nat /\ posted[c] \in Nat
      BY <2>1 DEF LifeInv, LifeTypeOK, TypeOK, RunTypeOK, BufferTypeOK
    <3>. QED
      BY <3>1, <3>2
  <2>. QED
    BY <2>2, <2>3, <2>4 DEF ServerReady
<1>. QED
  BY <1>1, LifeInvariance, DataPathRefined, Invariance, WorkersInvariance, PTL
     DEF LifeSpec, DisconnectLosesNothing
=============================================================================
