--------------------------- MODULE BenchConnProofs ---------------------------
(***************************************************************************)
(* Proofs about BenchConn, for any numbers of connections and nodes and    *)
(* with any of the faults.                                                 *)
(***************************************************************************)
EXTENDS BenchConn, FiniteSetTheorems, SequenceTheorems, TLAPS

----------------------------------------------------------------------------
(* The inductive invariant.                                                *)

\* No event waits twice in a channel.
Once(chan) == \A j, k \in 1 .. Len(chan) : chan[j] = chan[k] => j = k

\* Where the client's event channel stands with the cm_ids.
ClientChannel ==
    /\ Once(cchan)
    /\ \A c \in Pending(cchan, "ADDR_RESOLVED") : cst[c] = "addr_done"
    /\ \A c \in Pending(cchan, "ROUTE_RESOLVED") : cst[c] = "route_done"
    /\ \A c \in Pending(cchan, "ADDR_ERROR") : cst[c] = "failed"
    /\ \A c \in Pending(cchan, "ROUTE_ERROR") : cst[c] = "failed"
    /\ \A c \in Pending(cchan, "CONNECT_RESPONSE") :
         cst[c] \in {"connect", "failed"} /\ sst[c] \notin {"none", "requested", "accepted"}
    /\ \A c \in Pending(cchan, "UNREACHABLE") : sst[c] = "failed"
    /\ \A c \in Pending(cchan, "REJECTED") : sst[c] = "failed"
    /\ \A c \in Pending(cchan, "DISCONNECTED") : cst[c] = "disconnected"

\* The client's connections, one by one.
ClientConns ==
    /\ \A c \in Conns : sst[c] \in {"requested", "accepted"} => cst[c] \in {"connect", "failed"}
    /\ cphase = "resolve" => \A c \in cnext .. ClientConnections : cst[c] = "idle"
    /\ \A c \in Conns : c \in cconn <=> cst[c] \in {"established", "disconnecting", "disconnected"}
    /\ \A c \in Conns : cst[c] = "connect" \/ c \in cconn => c \in crq

\* Where the server's event channel stands with the cm_ids and the nodes.
ServerChannel ==
    /\ Once(schan)
    /\ \A c \in Pending(schan, "CONNECT_REQUEST") : sst[c] \in {"requested", "failed"} /\ node[c] = 0
    /\ \A c \in Pending(schan, "ESTABLISHED") :
         c \notin sconn /\ sst[c] \in {"established", "disconnected", "failed"} /\ node[c] # 0
    /\ \A c \in Pending(schan, "REJECTED") :
         sst[c] = "failed" /\ c \notin sconn /\ c \notin Pending(schan, "ESTABLISHED")
    /\ \A c \in Pending(schan, "DISCONNECTED") : sst[c] = "disconnected"

\* The server's connections, one by one.
ServerConns ==
    /\ \A c \in Conns : sst[c] = "none" => node[c] = 0
    /\ \A c \in Conns : sst[c] \in {"accepted", "replied", "established", "disconnected"} => node[c] # 0
    /\ \A c \in sconn : sst[c] \in {"established", "disconnected", "failed"} /\ node[c] # 0

\* No two connections share a node.
NodesTaken ==
    /\ \A c \in Conns : node[c] <= conn_index
    /\ \A c, d \in Conns : node[c] = node[d] /\ node[c] # 0 => c = d

\* Metadata is sent once, of the node of its connection, whose first receive
\* is posted.
MetadataInv ==
    /\ \A c \in Conns :
         IF meta[c].at = "none" THEN meta[c].about = 0
         ELSE /\ meta[c].about = node[c] /\ node[c] # 0
              /\ sphase # "connect"
              /\ sphase = "send_metadata" => node[c] < snext
              /\ PostsFirst => c \in srq
    /\ PostsFirst /\ ((sphase = "connect" /\ ~sret) \/ sphase = "send_metadata") =>
         \A c \in Conns : node[c] # 0 => c \in srq

\* The client's counters and phases.
ClientCounts ==
    /\ cphase \in {"resolve", "connect"} /\ ~cerr =>
         cleft = ClientConnections - Cardinality(cconn)
    /\ cphase = "metadata" => cconn = Conns
    /\ cphase = "running" \/ (cphase \in {"disconnect", "drain", "done"} /\ ~cret) =>
         cconn = Conns /\ \A c \in Conns : meta[c].at = "received"
    /\ cphase = "done" /\ ~cret => \A c \in Conns : cst[c] = "disconnected"

\* Connections whose disconnect the server has counted.
Counted == {c \in Conns : sst[c] = "disconnected" /\ c \notin Pending(schan, "DISCONNECTED")}

\* The server's counters and phases.
ServerCounts ==
    /\ sdisc = Cardinality(sconn) - Cardinality(Counted)
    /\ sphase = "connect" /\ ~sret => sleft = nodes - Cardinality(sconn)
    /\ ClientConnections <= nodes /\ sphase \in {"send_metadata", "poll_metadata", "serve"} =>
         sconn = Conns /\ ~sret

Handshake == ClientChannel /\ ClientConns /\ ServerChannel /\ ServerConns
Described == NodesTaken /\ MetadataInv

IInv ==
    /\ TypeOK /\ Handshake /\ Described
    /\ ClientCounts /\ DisconnectsCounted
    /\ ServerCounts /\ DisconnectsAwaited

----------------------------------------------------------------------------
(* What the channels hold after an event is taken or sent.                 *)

\* A channel that was asked for its first event is left with the others.
LEMMA PendingTail ==
    ASSUME NEW S, NEW chan \in Seq(S), Once(chan), chan # <<>>,
           NEW event, NEW c \in Conns, Head(chan) = <<event, c>>
    PROVE  /\ Tail(chan) \in Seq(S) /\ Once(Tail(chan))
           /\ c \in Pending(chan, event)
           /\ \A e, d : d \in Pending(Tail(chan), e) <=> (d \in Pending(chan, e) /\ (e # event \/ d # c))
<1> DEFINE tail == Tail(chan)
<1>1. /\ tail \in Seq(S)
      /\ Len(chan) \in Nat /\ Len(chan) >= 1 /\ Len(tail) = Len(chan) - 1
      /\ \A k \in 1 .. Len(tail) : tail[k] = chan[k + 1]
      /\ chan[1] = <<event, c>>
  BY HeadTailProperties, LenProperties, ElementOfSeq
<1>2. Once(tail)
  BY <1>1 DEF Once
<1>3. c \in Pending(chan, event)
  BY <1>1 DEF Pending
<1>4. ASSUME NEW e
      PROVE  \A d : d \in Pending(tail, e) <=> (d \in Pending(chan, e) /\ (e # event \/ d # c))
  <2>1. ASSUME NEW d \in Conns, NEW k \in 1 .. Len(tail), tail[k] = <<e, d>>
        PROVE  d \in Pending(chan, e) /\ <<e, d>> # <<event, c>>
    <3>1. k + 1 \in 1 .. Len(chan) /\ chan[k + 1] = <<e, d>> /\ k + 1 # 1 /\ 1 \in 1 .. Len(chan)
      BY <1>1, <2>1
    <3>. QED  BY <3>1, <1>1 DEF Pending, Once
  <2>2. ASSUME NEW d \in Conns, NEW k \in 1 .. Len(chan), chan[k] = <<e, d>>, <<e, d>> # <<event, c>>
        PROVE  d \in Pending(tail, e)
    <3>1. k - 1 \in 1 .. Len(tail) /\ tail[k - 1] = <<e, d>>
      BY <1>1, <2>2
    <3>. QED  BY <3>1 DEF Pending
  <2>. QED  BY <2>1, <2>2 DEF Pending
<1>. QED  BY <1>1, <1>2, <1>3, <1>4

\* A channel that was sent an event holds it with the others.
LEMMA PendingAppend ==
    ASSUME NEW chan, NEW event, NEW c \in Conns,
           NEW longer, Len(chan) \in Nat, Len(longer) = Len(chan) + 1,
           \A k \in 1 .. Len(chan) : longer[k] = chan[k],
           longer[Len(chan) + 1] = <<event, c>>
    PROVE  /\ Once(chan) /\ c \notin Pending(chan, event) => Once(longer)
           /\ \A e, d : d \in Pending(longer, e) <=> (d \in Pending(chan, e) \/ (e = event /\ d = c))
<1>1. ASSUME Once(chan), c \notin Pending(chan, event)
      PROVE  Once(longer)
  <2>0. \A k \in 1 .. Len(chan) : chan[k] # <<event, c>>
    BY <1>1 DEF Pending
  <2>1. SUFFICES ASSUME NEW j \in 1 .. Len(longer), NEW k \in 1 .. Len(longer), longer[j] = longer[k]
                 PROVE  j = k
    BY DEF Once
  <2>2. CASE j \in 1 .. Len(chan) /\ k \in 1 .. Len(chan)
    <3>1. chan[j] = chan[k]
      BY <2>1, <2>2
    <3>. QED  BY <1>1, <2>2, <3>1 DEF Once
  <2>3. ASSUME NEW i \in 1 .. Len(chan)
        PROVE  longer[i] # longer[Len(chan) + 1]
    BY <2>0
  <2>. QED  BY <2>1, <2>2, <2>3
<1>2. ASSUME NEW e
      PROVE  \A d : d \in Pending(longer, e) <=> (d \in Pending(chan, e) \/ (e = event /\ d = c))
  <2>1. ASSUME NEW d \in Conns, NEW k \in 1 .. Len(chan), chan[k] = <<e, d>>
        PROVE  d \in Pending(longer, e)
    <3>1. k \in 1 .. Len(longer) /\ longer[k] = <<e, d>>
      BY <2>1
    <3>. QED  BY <3>1 DEF Pending
  <2>2. e = event => c \in Pending(longer, e)
    <3>1. Len(longer) \in 1 .. Len(longer) /\ longer[Len(longer)] = <<event, c>>
      OBVIOUS
    <3>. QED  BY <3>1 DEF Pending
  <2>3. ASSUME NEW d \in Conns, NEW k \in 1 .. Len(longer), longer[k] = <<e, d>>
        PROVE  d \in Pending(chan, e) \/ (e = event /\ d = c)
    <3>1. CASE k \in 1 .. Len(chan)
      BY <3>1, <2>3 DEF Pending
    <3>2. CASE k = Len(chan) + 1
      BY <3>2, <2>3
    <3>. QED  BY <3>1, <3>2
  <2>. QED  BY <2>1, <2>2, <2>3 DEF Pending
<1>. QED  BY <1>1, <1>2

\* The loop of the client takes an event, and the loop of the server.
LEMMA ClientGetsEffect ==
    ASSUME TypeOK, Once(cchan), NEW event, NEW c \in Conns, ClientGets(event, c)
    PROVE  /\ Once(cchan')
           /\ c \in Pending(cchan, event)
           /\ \A e, d : d \in Pending(cchan', e) <=> (d \in Pending(cchan, e) /\ (e # event \/ d # c))
<1>1. /\ cchan \in Seq(ClientEvents \X Conns) /\ cchan # <<>>
      /\ Head(cchan) = <<event, c>> /\ cchan' = Tail(cchan)
  BY DEF TypeOK, FabricTypeOK, ClientGets
<1>2. /\ Once(Tail(cchan))
      /\ c \in Pending(cchan, event)
      /\ \A e, d : d \in Pending(Tail(cchan), e) <=> (d \in Pending(cchan, e) /\ (e # event \/ d # c))
  BY <1>1, PendingTail
<1>. QED  BY <1>1, <1>2

LEMMA ServerGetsEffect ==
    ASSUME TypeOK, Once(schan), NEW event, NEW c \in Conns, ServerGets(event, c)
    PROVE  /\ Once(schan')
           /\ c \in Pending(schan, event)
           /\ \A e, d : d \in Pending(schan', e) <=> (d \in Pending(schan, e) /\ (e # event \/ d # c))
<1>1. /\ schan \in Seq(ServerEvents \X Conns) /\ schan # <<>>
      /\ Head(schan) = <<event, c>> /\ schan' = Tail(schan)
  BY DEF TypeOK, FabricTypeOK, ServerGets
<1>2. /\ Once(Tail(schan))
      /\ c \in Pending(schan, event)
      /\ \A e, d : d \in Pending(Tail(schan), e) <=> (d \in Pending(schan, e) /\ (e # event \/ d # c))
  BY <1>1, PendingTail
<1>. QED  BY <1>1, <1>2

\* The connection manager reports an event to the client, and to the server.
LEMMA ClientToldEffect ==
    ASSUME TypeOK, NEW event, NEW c \in Conns, ClientTold(event, c)
    PROVE  /\ Once(cchan) /\ c \notin Pending(cchan, event) => Once(cchan')
           /\ \A e, d : d \in Pending(cchan', e) <=> (d \in Pending(cchan, e) \/ (e = event /\ d = c))
<1>1. cchan \in Seq(ClientEvents \X Conns) /\ cchan' = Append(cchan, <<event, c>>)
  BY DEF TypeOK, FabricTypeOK, ClientTold
<1>2. /\ Len(cchan) \in Nat /\ Len(cchan') = Len(cchan) + 1
      /\ \A k \in 1 .. Len(cchan) : cchan'[k] = cchan[k]
      /\ cchan'[Len(cchan) + 1] = <<event, c>>
  BY <1>1
<1>. QED  BY <1>2, PendingAppend

LEMMA ServerToldEffect ==
    ASSUME TypeOK, NEW event, NEW c \in Conns, ServerTold(event, c)
    PROVE  /\ Once(schan) /\ c \notin Pending(schan, event) => Once(schan')
           /\ \A e, d : d \in Pending(schan', e) <=> (d \in Pending(schan, e) \/ (e = event /\ d = c))
<1>1. schan \in Seq(ServerEvents \X Conns) /\ schan' = Append(schan, <<event, c>>)
  BY DEF TypeOK, FabricTypeOK, ServerTold
<1>2. /\ Len(schan) \in Nat /\ Len(schan') = Len(schan) + 1
      /\ \A k \in 1 .. Len(schan) : schan'[k] = schan[k]
      /\ schan'[Len(schan) + 1] = <<event, c>>
  BY <1>1
<1>. QED  BY <1>2, PendingAppend

----------------------------------------------------------------------------
(* Type correctness.                                                       *)

LEMMA ClientStepType == TypeOK /\ run_client => TypeOK'
<1> SUFFICES ASSUME TypeOK, run_client PROVE TypeOK'
  OBVIOUS
<1>1. ClientTypeOK'
  <2>. USE DEF TypeOK, ClientTypeOK
  <2>0. cret' \in BOOLEAN /\ cerr' \in BOOLEAN
    BY Zenon DEF run_client, client_resolve, client_connected, client_metadata, client_joined, client_disconnect,
       client_drained, cma_handler, addr_handler, route_handler, client_established, client_error,
       client_disconnected, ClientError
  <2>1. CASE client_resolve
    BY <2>1, <2>0, BenchConnAssumption DEF client_resolve, ClientNext, ClientPhases, Conns
  <2>2. CASE client_connected \/ client_metadata \/ client_joined \/ client_drained
    BY <2>2, <2>0 DEF client_connected, client_metadata, client_joined, client_drained, ClientPhases
  <2>3. CASE client_disconnect
    BY <2>3, <2>0, BenchConnAssumption DEF client_disconnect, ClientNext, ClientPhases, Conns
  <2>4. ASSUME NEW c \in Conns, cma_handler(c) PROVE ClientTypeOK'
    BY <2>4, <2>0 DEF cma_handler, addr_handler, route_handler, client_established, client_error,
       client_disconnected, ClientError
  <2>. QED  BY <2>1, <2>2, <2>3, <2>4 DEF run_client
<1>2. FabricTypeOK'
  <2>. USE DEF TypeOK, FabricTypeOK, run_client, setup, ids, channels
  <2>1. CASE client_resolve
    BY <2>1 DEF client_resolve, ClientId, ClientStates
  <2>2. CASE client_connected \/ client_metadata \/ client_joined \/ client_drained
    BY <2>2 DEF client_connected, client_metadata, client_joined, client_drained
  <2>3. CASE client_disconnect
    BY <2>3 DEF client_disconnect, ClientStates
  <2>4. ASSUME NEW c \in Conns, cma_handler(c) PROVE FabricTypeOK'
    <3>1. cchan # <<>> /\ cchan' = Tail(cchan)
      BY <2>4 DEF cma_handler, addr_handler, route_handler, client_established, client_error,
         client_disconnected, ClientGets
    <3>2. cchan' \in Seq(ClientEvents \X Conns)
      BY <3>1
    <3>3. cst' \in [Conns -> ClientStates]
      BY <2>4 DEF cma_handler, addr_handler, route_handler, client_established, client_error,
         client_disconnected, ClientId, ClientStates
    <3>4. UNCHANGED <<nodes, sst, schan, meta>>
      BY <2>4 DEF cma_handler, addr_handler, route_handler, client_established, client_error,
         client_disconnected
    <3>. QED  BY <3>2, <3>3, <3>4
  <2>. QED  BY <2>1, <2>2, <2>3, <2>4
<1>3. UNCHANGED <<setup, server>>
  BY DEF run_client, client_resolve, client_connected, client_metadata, client_joined, client_disconnect,
     client_drained, cma_handler, addr_handler, route_handler, client_established, client_error,
     client_disconnected
<1>. QED  BY <1>1, <1>2, <1>3 DEF TypeOK, ServerTypeOK, Nodes, setup, server

LEMMA ServerStepType == TypeOK /\ run_server => TypeOK'
<1> SUFFICES ASSUME TypeOK, run_server PROVE TypeOK'
  OBVIOUS
<1>. USE DEF run_server, setup
<1>1. nodes \in Nat \ {0}
  BY BenchConnAssumption DEF TypeOK
<1>2. ServerTypeOK'
  <2>. USE <1>1 DEF TypeOK, ServerTypeOK, Nodes
  <2>0. sret' \in BOOLEAN
    BY Zenon DEF server_connected, server_send_metadata, server_poll_metadata, server_served,
       server_cma_handler, connect_handler, connect_refused, connect_accepted, connect_failed,
       server_established, server_error, server_disconnected, ServerError
  <2>1. CASE server_connected \/ server_poll_metadata \/ server_served
    BY <2>1, <2>0 DEF server_connected, server_poll_metadata, server_served, ServerPhases
  <2>2. CASE server_send_metadata
    BY <2>2, <2>0 DEF server_send_metadata, ServerPhases
  <2>3. ASSUME NEW c \in Conns, server_cma_handler(c) PROVE ServerTypeOK'
    <3>1. CASE connect_refused(c) \/ connect_accepted(c) \/ connect_failed(c)
      BY <3>1, <2>0 DEF connect_refused, connect_accepted, connect_failed, TakeNode, post_first, ServerError
    <3>2. CASE server_established(c) \/ server_error(c) \/ server_disconnected(c)
      BY <3>2, <2>0 DEF server_established, server_error, server_disconnected, ServerError
    <3>. QED  BY <2>3, <3>1, <3>2 DEF server_cma_handler, connect_handler
  <2>. QED  BY <2>1, <2>2, <2>3
<1>3. FabricTypeOK'
  <2>. USE DEF TypeOK, FabricTypeOK, ids, channels
  <2>1. CASE server_connected \/ server_poll_metadata \/ server_served
    BY <2>1 DEF server_connected, server_poll_metadata, server_served
  <2>2. CASE server_send_metadata
    BY <2>2, <1>1 DEF server_send_metadata, ServerTypeOK, Nodes
  <2>3. ASSUME NEW c \in Conns, server_cma_handler(c) PROVE FabricTypeOK'
    <3>1. schan # <<>> /\ schan' = Tail(schan)
      BY <2>3 DEF server_cma_handler, connect_handler, connect_refused, connect_accepted,
         connect_failed, server_established, server_error, server_disconnected, ServerGets
    <3>2. schan' \in Seq(ServerEvents \X Conns)
      BY <3>1
    <3>3. sst' \in [Conns -> ServerStates]
      BY <2>3 DEF server_cma_handler, connect_handler, connect_refused, connect_accepted,
         connect_failed, server_established, server_error, server_disconnected, ServerId, ServerStates
    <3>4. UNCHANGED <<nodes, cst, cchan, meta>>
      BY <2>3 DEF server_cma_handler, connect_handler, connect_refused, connect_accepted,
         connect_failed, server_established, server_error, server_disconnected
    <3>. QED  BY <3>2, <3>3, <3>4
  <2>. QED  BY <2>1, <2>2, <2>3
<1>4. UNCHANGED <<setup, client>>
  BY DEF server_connected, server_send_metadata, server_poll_metadata, server_served,
     server_cma_handler, connect_handler, connect_refused, connect_accepted, connect_failed,
     server_established, server_error, server_disconnected
<1>. QED  BY <1>2, <1>3, <1>4 DEF TypeOK, ClientTypeOK, client

LEMMA CmStepType ==
    ASSUME TypeOK, NEW c \in Conns, cm(c)
    PROVE  TypeOK' /\ UNCHANGED <<setup, client, server>>
<1>1. UNCHANGED <<setup, client, server>>
  BY DEF cm, cm_address, cm_route, cm_request, cm_unreachable, cm_reply, cm_ready, cm_reject,
     cm_disconnect, cm_disconnected, cm_abandoned, cm_server_gone, nic_metadata
<1>2. FabricTypeOK'
  <2>1. cchan' \in Seq(ClientEvents \X Conns)
    <3>1. ASSUME NEW e \in ClientEvents, ClientTold(e, c) PROVE cchan' \in Seq(ClientEvents \X Conns)
      BY <3>1 DEF TypeOK, FabricTypeOK, ClientTold
    <3>2. UNCHANGED cchan \/ \E e \in ClientEvents : ClientTold(e, c)
      BY DEF cm, cm_address, cm_route, cm_request, cm_unreachable, cm_reply, cm_ready, cm_reject,
         cm_disconnect, cm_disconnected, cm_abandoned, cm_server_gone, nic_metadata, ClientEvents, channels
    <3>. QED  BY <3>1, <3>2 DEF TypeOK, FabricTypeOK
  <2>2. schan' \in Seq(ServerEvents \X Conns)
    <3>1. ASSUME NEW e \in ServerEvents, ServerTold(e, c) PROVE schan' \in Seq(ServerEvents \X Conns)
      BY <3>1 DEF TypeOK, FabricTypeOK, ServerTold
    <3>2. UNCHANGED schan \/ \E e \in ServerEvents : ServerTold(e, c)
      BY DEF cm, cm_address, cm_route, cm_request, cm_unreachable, cm_reply, cm_ready, cm_reject,
         cm_disconnect, cm_disconnected, cm_abandoned, cm_server_gone, nic_metadata, ServerEvents, channels
    <3>. QED  BY <3>1, <3>2 DEF TypeOK, FabricTypeOK
  <2>3. cst' \in [Conns -> ClientStates]
    BY DEF TypeOK, FabricTypeOK, cm, cm_address, cm_route, cm_request, cm_unreachable, cm_reply, cm_ready,
       cm_reject, cm_disconnect, cm_disconnected, cm_abandoned, cm_server_gone, nic_metadata, ids,
       ClientId, ClientStates
  <2>4. sst' \in [Conns -> ServerStates]
    BY DEF TypeOK, FabricTypeOK, cm, cm_address, cm_route, cm_request, cm_unreachable, cm_reply, cm_ready,
       cm_reject, cm_disconnect, cm_disconnected, cm_abandoned, cm_server_gone, nic_metadata, ids,
       ServerId, ServerStates
  <2>5. meta' \in [Conns -> [about : 0 .. nodes, at : {"none", "sent", "received"}]]
    BY DEF TypeOK, FabricTypeOK, cm, cm_address, cm_route, cm_request, cm_unreachable, cm_reply, cm_ready,
       cm_reject, cm_disconnect, cm_disconnected, cm_abandoned, cm_server_gone, nic_metadata
  <2>. QED  BY <1>1, <2>1, <2>2, <2>3, <2>4, <2>5 DEF FabricTypeOK, setup
<1>. QED  BY <1>1, <1>2 DEF TypeOK, ClientTypeOK, ServerTypeOK, Nodes, setup, client, server

LEMMA InitType == Init => TypeOK
<1> SUFFICES ASSUME Init PROVE TypeOK
  OBVIOUS
<1>1. nodes \in Nat \ {0} /\ ClientConnections \in Nat \ {0}
  BY BenchConnAssumption DEF Init
<1>0. cret \in BOOLEAN /\ cerr \in BOOLEAN /\ sret \in BOOLEAN
  BY Zenon DEF Init
<1>2. ClientTypeOK
  BY <1>1, <1>0 DEF Init, ClientTypeOK, Conns, ClientPhases
<1>3. ServerTypeOK
  BY <1>1, <1>0 DEF Init, ServerTypeOK, Nodes, ServerPhases
<1>4. FabricTypeOK
  <2>1. cchan \in Seq(ClientEvents \X Conns) /\ schan \in Seq(ServerEvents \X Conns)
    BY DEF Init
  <2>2. [about |-> 0, at |-> "none"] \in [about : 0 .. nodes, at : {"none", "sent", "received"}]
    BY <1>1
  <2>. QED  BY <2>1, <2>2 DEF Init, FabricTypeOK, ClientStates, ServerStates
<1>. QED  BY <1>2, <1>3, <1>4 DEF Init, TypeOK

\* Every variable keeps the type the code gives it, for any numbers of
\* connections and nodes and any fault.
THEOREM TypeCorrect == Spec => []TypeOK
<1>1. TypeOK /\ [Next]_vars => TypeOK'
  <2> SUFFICES ASSUME TypeOK, [Next]_vars PROVE TypeOK'
    OBVIOUS
  <2>1. CASE UNCHANGED vars
    BY <2>1 DEF TypeOK, ClientTypeOK, ServerTypeOK, FabricTypeOK, Nodes, vars, setup, client, server,
       ids, channels
  <2>. QED  BY <2>1, ClientStepType, ServerStepType, CmStepType DEF Next, Finished
<1>. QED  BY <1>1, InitType, PTL DEF Spec

----------------------------------------------------------------------------
(* The handshake: the channels, the cm_ids and the nodes stay in step.     *)

\* A cm_id of the client may move on if no event of its old state waits.
LEMMA ClientIdMoves ==
    ASSUME ClientChannel, Once(cchan'), UNCHANGED sst, NEW c,
           \A e, d : d \in Pending(cchan', e) => d \in Pending(cchan, e),
           \A d \in Conns : d # c => cst'[d] = cst[d],
           \A e \in {"ADDR_RESOLVED", "ADDR_ERROR", "ROUTE_RESOLVED", "ROUTE_ERROR",
                     "CONNECT_RESPONSE", "DISCONNECTED"} : c \notin Pending(cchan', e)
    PROVE  ClientChannel'
<1>1. \A e : Pending(cchan', e) \subseteq Conns
  BY DEF Pending
<1>2. \A e \in {"ADDR_RESOLVED", "ADDR_ERROR", "ROUTE_RESOLVED", "ROUTE_ERROR",
                "CONNECT_RESPONSE", "DISCONNECTED"} :
        \A d \in Pending(cchan', e) : d \in Pending(cchan, e) /\ cst'[d] = cst[d]
  BY <1>1
<1>. QED  BY <1>2 DEF ClientChannel

LEMMA ClientStepHandshake ==
    ASSUME TypeOK, TypeOK', Handshake, run_client
    PROVE  Handshake'
<1>1. UNCHANGED <<setup, server, sst, schan, meta>>
  BY DEF run_client, client_resolve, client_connected, client_metadata, client_joined, client_disconnect,
     client_drained, cma_handler, addr_handler, route_handler, client_established, client_error,
     client_disconnected, ids, channels
<1>2. ServerChannel' /\ ServerConns'
  BY <1>1 DEF Handshake, ServerChannel, ServerConns, server
<1>3. ClientChannel' /\ ClientConns'
  <2>0. cst \in [Conns -> ClientStates] /\ cnext \in Conns
    BY DEF TypeOK, ClientTypeOK, FabricTypeOK
  <2>. USE <2>0 DEF Handshake, ClientChannel, ClientConns, ClientId
  <2>1. CASE client_resolve
    <3>1. UNCHANGED <<cchan, cconn, crq>>
      BY <2>1 DEF client_resolve, channels
    <3>2. cst[cnext] = "idle" /\ (cst' = cst \/ cst' = [cst EXCEPT ![cnext] = "addr"])
      BY <2>1 DEF client_resolve, Conns
    <3>3. cphase' = "resolve" => \A c \in cnext' .. ClientConnections : cst'[c] = "idle"
      BY <2>1, BenchConnAssumption DEF client_resolve, ClientNext, Conns
    <3>4. ClientChannel'
      BY <3>1, <3>2, <1>1, ClientIdMoves
    <3>. QED  BY <3>1, <3>2, <3>3, <3>4, <1>1
  <2>2. CASE client_connected \/ client_metadata \/ client_joined \/ client_drained
    BY <2>2, <1>1 DEF client_connected, client_metadata, client_joined, client_drained, ids, channels
  <2>3. CASE client_disconnect
    <3>1. UNCHANGED <<cchan, cconn, crq>> /\ cphase' # "resolve"
      BY <2>3 DEF client_disconnect, channels, ClientNext
    <3>2. ClientChannel'
      BY <2>3, <3>1, <1>1 DEF client_disconnect
    <3>3. ClientConns'
      BY <2>3, <3>1, <1>1 DEF client_disconnect
    <3>. QED  BY <3>2, <3>3
  <2>4. ASSUME NEW c \in Conns, cma_handler(c) PROVE ClientChannel' /\ ClientConns'
    <3>1. ASSUME NEW event, ClientGets(event, c)
          PROVE  /\ Once(cchan')
                 /\ c \in Pending(cchan, event)
                 /\ \A e, d : d \in Pending(cchan', e) <=> (d \in Pending(cchan, e) /\ (e # event \/ d # c))
                 /\ cphase # "resolve"
      BY <3>1, ClientGetsEffect DEF ClientGets, ClientLooping
    <3>2. CASE addr_handler(c)
      <4>1. ClientGets("ADDR_RESOLVED", c)
        BY <3>2 DEF addr_handler
      <4>2. ClientChannel'
        BY <3>2, <3>1, <4>1, <1>1, ClientIdMoves DEF addr_handler
      <4>3. ClientConns'
        BY <3>2, <3>1, <4>1, <1>1 DEF addr_handler, ClientError
      <4>. QED  BY <4>2, <4>3
    <3>3. CASE route_handler(c)
      <4>1. ClientGets("ROUTE_RESOLVED", c)
        BY <3>3 DEF route_handler
      <4>2. ClientChannel'
        BY <3>3, <3>1, <4>1, <1>1, ClientIdMoves DEF route_handler
      <4>3. ClientConns'
        BY <3>3, <3>1, <4>1, <1>1 DEF route_handler, ClientError
      <4>. QED  BY <4>2, <4>3
    <3>4. CASE client_established(c)
      <4>1. ClientGets("CONNECT_RESPONSE", c)
        BY <3>4 DEF client_established
      <4>2. ClientChannel'
        BY <3>4, <3>1, <4>1, <1>1, ClientIdMoves DEF client_established
      <4>3. ClientConns'
        BY <3>4, <3>1, <4>1, <1>1 DEF client_established, ClientError
      <4>. QED  BY <4>2, <4>3
    <3>5. CASE client_error(c)
      BY <3>5, <3>1, <1>1 DEF client_error, ids
    <3>6. CASE client_disconnected(c)
      BY <3>6, <3>1, <1>1 DEF client_disconnected, ids
    <3>. QED  BY <2>4, <3>2, <3>3, <3>4, <3>5, <3>6 DEF cma_handler
  <2>. QED  BY <2>1, <2>2, <2>3, <2>4 DEF run_client
<1>. QED  BY <1>2, <1>3 DEF Handshake

LEMMA ServerStepHandshake ==
    ASSUME TypeOK, TypeOK', Handshake, run_server
    PROVE  Handshake'
<1>1. UNCHANGED <<setup, client, cst, cchan>>
  BY DEF run_server, server_connected, server_send_metadata, server_poll_metadata, server_served,
     server_cma_handler, connect_handler, connect_refused, connect_accepted, connect_failed,
     server_established, server_error, server_disconnected, ids, channels
<1>0. sst \in [Conns -> ServerStates] /\ node \in [Conns -> 0 .. nodes] /\ conn_index \in Nat
  BY BenchConnAssumption DEF TypeOK, ServerTypeOK, FabricTypeOK
<1>. USE <1>0 DEF Handshake
<1>2. CASE server_connected \/ server_send_metadata \/ server_poll_metadata \/ server_served
  BY <1>2, <1>1 DEF server_connected, server_send_metadata, server_poll_metadata, server_served, ids, channels,
     client, ClientChannel, ClientConns, ServerChannel, ServerConns
<1>3. ASSUME NEW c \in Conns, server_cma_handler(c) PROVE Handshake'
  <2>1. ASSUME NEW event, ServerGets(event, c)
        PROVE  /\ Once(schan')
               /\ c \in Pending(schan, event)
               /\ \A e, d : d \in Pending(schan', e) <=> (d \in Pending(schan, e) /\ (e # event \/ d # c))
    BY <2>1, ServerGetsEffect DEF ServerChannel
  <2>2. CASE connect_refused(c)
    <3>1. ClientChannel' /\ ClientConns'
      BY <2>2, <1>1 DEF connect_refused, ClientChannel, ClientConns, client
    <3>2. ServerChannel'
      BY <2>2, <2>1 DEF connect_refused, ServerChannel
    <3>3. ServerConns'
      BY <2>2, <2>1 DEF connect_refused, ServerChannel, ServerConns
    <3>. QED  BY <3>1, <3>2, <3>3
  <2>3. CASE connect_accepted(c)
    <3>1. ClientChannel' /\ ClientConns'
      BY <2>3, <1>1 DEF connect_accepted, ServerId, ClientChannel, ClientConns, client
    <3>2. ServerChannel'
      BY <2>3, <2>1 DEF connect_accepted, ServerId, TakeNode, ServerChannel
    <3>3. ServerConns'
      BY <2>3, <2>1 DEF connect_accepted, ServerId, TakeNode, ServerChannel, ServerConns
    <3>. QED  BY <3>1, <3>2, <3>3
  <2>4. CASE connect_failed(c)
    <3>1. ClientChannel' /\ ClientConns'
      BY <2>4, <1>1 DEF connect_failed, ClientChannel, ClientConns, client
    <3>2. ServerChannel'
      BY <2>4, <2>1 DEF connect_failed, TakeNode, ServerChannel
    <3>3. ServerConns'
      BY <2>4, <2>1 DEF connect_failed, TakeNode, ServerChannel, ServerConns
    <3>. QED  BY <3>1, <3>2, <3>3
  <2>5. CASE server_established(c) \/ server_error(c) \/ server_disconnected(c)
    <3>1. ClientChannel' /\ ClientConns'
      BY <2>5, <1>1 DEF server_established, server_error, server_disconnected, ids, ClientChannel, ClientConns, client
    <3>2. ServerChannel'
      BY <2>5, <2>1 DEF server_established, server_error, server_disconnected, ids, ServerChannel
    <3>3. ServerConns'
      BY <2>5, <2>1 DEF server_established, server_error, server_disconnected, ids, ServerChannel, ServerConns
    <3>. QED  BY <3>1, <3>2, <3>3
  <2>. QED  BY <1>3, <2>2, <2>3, <2>4, <2>5 DEF server_cma_handler, connect_handler
<1>. QED  BY <1>2, <1>3 DEF run_server

LEMMA CmStepHandshake ==
    ASSUME TypeOK, TypeOK', Handshake, NEW c \in Conns, cm(c)
    PROVE  Handshake'
<1>0. cst \in [Conns -> ClientStates] /\ sst \in [Conns -> ServerStates]
  BY DEF TypeOK, FabricTypeOK
<1>1. UNCHANGED <<cphase, cnext, cconn, crq, sconn, node>>
  BY CmStepType DEF client, server
<1>2. ASSUME NEW event \in ClientEvents, ClientTold(event, c), c \notin Pending(cchan, event)
      PROVE  /\ Once(cchan')
             /\ \A e, d : d \in Pending(cchan', e) <=> (d \in Pending(cchan, e) \/ (e = event /\ d = c))
  BY <1>2, ClientToldEffect DEF Handshake, ClientChannel
<1>3. ASSUME NEW event \in ServerEvents, ServerTold(event, c), c \notin Pending(schan, event)
      PROVE  /\ Once(schan')
             /\ \A e, d : d \in Pending(schan', e) <=> (d \in Pending(schan, e) \/ (e = event /\ d = c))
  BY <1>3, ServerToldEffect DEF Handshake, ServerChannel
<1>4. \A e : Pending(cchan, e) \subseteq Conns /\ Pending(schan, e) \subseteq Conns
  BY DEF Pending
<1>5. cnext .. ClientConnections \subseteq Conns
  BY DEF TypeOK, ClientTypeOK, Conns
<1>. USE <1>0, <1>1, <1>4, <1>5 DEF Handshake, ClientId, ServerId, ClientEvents, ServerEvents
<1>6. CASE cm_address(c)
  <2>1. c \notin Pending(cchan, "ADDR_RESOLVED") /\ c \notin Pending(cchan, "ADDR_ERROR")
    BY <1>6 DEF cm_address, ClientChannel, ClientConns
  <2>2. ClientChannel'
    BY <1>6, <2>1, <1>2 DEF cm_address, ClientChannel, ClientConns
  <2>3. ClientConns'
    BY <1>6 DEF cm_address, ClientConns
  <2>4. ServerChannel'
    BY <1>6, <2>1, <1>2 DEF cm_address, ServerChannel, ServerConns
  <2>5. ServerConns'
    BY <1>6 DEF cm_address, ServerConns
  <2>. QED  BY <2>2, <2>3, <2>4, <2>5
<1>7. CASE cm_route(c)
  <2>1. c \notin Pending(cchan, "ROUTE_RESOLVED") /\ c \notin Pending(cchan, "ROUTE_ERROR")
    BY <1>7 DEF cm_route, ClientChannel, ClientConns
  <2>2. ClientChannel'
    BY <1>7, <2>1, <1>2 DEF cm_route, ClientChannel, ClientConns
  <2>3. ClientConns'
    BY <1>7 DEF cm_route, ClientConns
  <2>4. ServerChannel'
    BY <1>7, <2>1, <1>2 DEF cm_route, ServerChannel, ServerConns
  <2>5. ServerConns'
    BY <1>7 DEF cm_route, ServerConns
  <2>. QED  BY <2>2, <2>3, <2>4, <2>5
<1>8. CASE cm_request(c)
  <2>1. c \notin Pending(schan, "CONNECT_REQUEST")
    BY <1>8 DEF cm_request, Requesting, ServerChannel, ServerConns
  <2>2. ClientChannel'
    BY <1>8, <2>1, <1>3 DEF cm_request, Requesting, ClientChannel, ClientConns
  <2>3. ClientConns'
    BY <1>8 DEF cm_request, Requesting, ClientConns
  <2>4. ServerChannel'
    BY <1>8, <2>1, <1>3 DEF cm_request, Requesting, ServerChannel, ServerConns
  <2>5. ServerConns'
    BY <1>8 DEF cm_request, Requesting, ServerConns
  <2>. QED  BY <2>2, <2>3, <2>4, <2>5
<1>9. CASE cm_unreachable(c)
  <2>1. c \notin Pending(cchan, "UNREACHABLE")
    BY <1>9 DEF cm_unreachable, Requesting, ClientChannel, ClientConns
  <2>2. ClientChannel'
    BY <1>9, <2>1, <1>2 DEF cm_unreachable, Requesting, ClientChannel, ClientConns
  <2>3. ClientConns'
    BY <1>9 DEF cm_unreachable, Requesting, ClientConns
  <2>4. ServerChannel'
    BY <1>9, <2>1, <1>2 DEF cm_unreachable, Requesting, ServerChannel, ServerConns
  <2>5. ServerConns'
    BY <1>9 DEF cm_unreachable, Requesting, ServerConns
  <2>. QED  BY <2>2, <2>3, <2>4, <2>5
<1>10. CASE cm_reply(c)
  <2>1. c \notin Pending(cchan, "CONNECT_RESPONSE")
    BY <1>10 DEF cm_reply, ClientChannel, ClientConns
  <2>2. ClientChannel'
    BY <1>10, <2>1, <1>2 DEF cm_reply, ClientChannel, ClientConns
  <2>3. ClientConns'
    BY <1>10 DEF cm_reply, ClientConns
  <2>4. ServerChannel'
    BY <1>10, <2>1, <1>2 DEF cm_reply, ServerChannel, ServerConns
  <2>5. ServerConns'
    BY <1>10 DEF cm_reply, ServerConns
  <2>. QED  BY <2>2, <2>3, <2>4, <2>5
<1>11. CASE cm_ready(c)
  <2>1. c \notin Pending(schan, "ESTABLISHED")
    BY <1>11 DEF cm_ready, ServerChannel, ServerConns
  <2>2. ClientChannel'
    BY <1>11, <2>1, <1>3 DEF cm_ready, ClientChannel, ClientConns
  <2>3. ClientConns'
    BY <1>11 DEF cm_ready, ClientConns
  <2>4. ServerChannel'
    BY <1>11, <2>1, <1>3 DEF cm_ready, ServerChannel, ServerConns
  <2>5. ServerConns'
    BY <1>11 DEF cm_ready, ServerConns
  <2>. QED  BY <2>2, <2>3, <2>4, <2>5
<1>12. CASE cm_reject(c)
  <2>1. c \notin Pending(cchan, "REJECTED")
    BY <1>12 DEF cm_reject, ClientChannel, ClientConns
  <2>2. ClientChannel'
    BY <1>12, <2>1, <1>2 DEF cm_reject, ClientChannel, ClientConns
  <2>3. ClientConns'
    BY <1>12 DEF cm_reject, ClientConns
  <2>4. ServerChannel'
    BY <1>12, <2>1, <1>2 DEF cm_reject, ServerChannel, ServerConns
  <2>5. ServerConns'
    BY <1>12 DEF cm_reject, ServerConns
  <2>. QED  BY <2>2, <2>3, <2>4, <2>5
<1>13. CASE cm_disconnect(c)
  <2>1. c \notin Pending(schan, "DISCONNECTED")
    BY <1>13 DEF cm_disconnect, ServerChannel, ServerConns
  <2>2. ClientChannel'
    BY <1>13, <2>1, <1>3 DEF cm_disconnect, ClientChannel, ClientConns
  <2>3. ClientConns'
    BY <1>13 DEF cm_disconnect, ClientConns
  <2>4. ServerChannel'
    BY <1>13, <2>1, <1>3 DEF cm_disconnect, ServerChannel, ServerConns
  <2>5. ServerConns'
    BY <1>13 DEF cm_disconnect, ServerConns
  <2>. QED  BY <2>2, <2>3, <2>4, <2>5
<1>14. CASE cm_disconnected(c)
  <2>1. c \notin Pending(cchan, "DISCONNECTED")
    BY <1>14 DEF cm_disconnected, ClientChannel, ClientConns
  <2>2. ClientChannel'
    BY <1>14, <2>1, <1>2 DEF cm_disconnected, ClientChannel, ClientConns
  <2>3. ClientConns'
    BY <1>14 DEF cm_disconnected, ClientConns
  <2>4. ServerChannel'
    BY <1>14, <2>1, <1>2 DEF cm_disconnected, ServerChannel, ServerConns
  <2>5. ServerConns'
    BY <1>14 DEF cm_disconnected, ServerConns
  <2>. QED  BY <2>2, <2>3, <2>4, <2>5
<1>15. CASE cm_abandoned(c)
  <2>1. c \notin Pending(schan, "REJECTED")
    BY <1>15 DEF cm_abandoned, ServerChannel, ServerConns
  <2>2. ClientChannel'
    BY <1>15, <2>1, <1>3 DEF cm_abandoned, ClientChannel, ClientConns
  <2>3. ClientConns'
    BY <1>15 DEF cm_abandoned, ClientConns
  <2>4. ServerChannel'
    BY <1>15, <2>1, <1>3 DEF cm_abandoned, ServerChannel, ServerConns
  <2>5. ServerConns'
    BY <1>15 DEF cm_abandoned, ServerConns
  <2>. QED  BY <2>2, <2>3, <2>4, <2>5
<1>16. CASE cm_server_gone(c)
  <2>1. c \notin Pending(cchan, "REJECTED")
        /\ (cst[c] # "disconnected" => c \notin Pending(cchan, "DISCONNECTED"))
    BY <1>16 DEF cm_server_gone, Requesting, ClientChannel, ClientConns
  <2>2. ClientChannel'
    BY <1>16, <2>1, <1>2 DEF cm_server_gone, Requesting, ClientChannel, ClientConns
  <2>3. ClientConns'
    BY <1>16 DEF cm_server_gone, Requesting, ClientConns
  <2>4. ServerChannel'
    BY <1>16, <2>1, <1>2 DEF cm_server_gone, Requesting, ServerChannel, ServerConns
  <2>5. ServerConns'
    BY <1>16 DEF cm_server_gone, Requesting, ServerConns
  <2>. QED  BY <2>2, <2>3, <2>4, <2>5
<1>17. CASE nic_metadata(c)
  BY <1>17 DEF nic_metadata, ids, channels, ClientChannel, ClientConns, ServerChannel, ServerConns
<1>. QED  BY <1>6, <1>7, <1>8, <1>9, <1>10, <1>11, <1>12, <1>13, <1>14, <1>15, <1>16, <1>17 DEF cm

----------------------------------------------------------------------------
(* The metadata: each node is one connection's, and is described once.     *)

\* Nobody but the server touches what this is about.
LEMMA DescribedFrame ==
    ASSUME Described, UNCHANGED <<setup, server, meta>>
    PROVE  Described'
  BY DEF Described, NodesTaken, MetadataInv, server

LEMMA ServerStepDescribed ==
    ASSUME TypeOK, TypeOK', Handshake, Described, run_server
    PROVE  Described'
<1>0. /\ node \in [Conns -> 0 .. nodes] /\ conn_index \in Nat /\ snext \in Nat \ {0} /\ nodes \in Nat
      /\ meta \in [Conns -> [about : 0 .. nodes, at : {"none", "sent", "received"}]]
  BY BenchConnAssumption DEF TypeOK, ServerTypeOK, FabricTypeOK, Nodes
<1>. USE <1>0 DEF Described
<1>1. CASE server_connected
  <2>1. NodesTaken'
    BY <1>1 DEF server_connected, NodesTaken
  <2>2. \A c \in Conns : meta[c].at = "none"
    BY <1>1 DEF server_connected, MetadataInv
  <2>. QED  BY <1>1, <2>1, <2>2 DEF server_connected, MetadataInv
<1>2. CASE server_send_metadata
  <2>1. NodesTaken'
    BY <1>2 DEF server_send_metadata, NodesTaken
  <2>2. PICK c \in Conns : node[c] = snext /\ meta' = [meta EXCEPT ![c] = [about |-> snext, at |-> "sent"]]
    BY <1>2 DEF server_send_metadata
  <2>3. UNCHANGED <<sret, node, srq>> /\ sphase = "send_metadata"
    BY <1>2 DEF server_send_metadata
  <2>4. (sphase' = "send_metadata" /\ snext' = snext + 1) \/ sphase' = "poll_metadata"
    BY <1>2 DEF server_send_metadata
  <2>5. PostsFirst => \A d \in Conns : node[d] # 0 => d \in srq
    BY <2>3 DEF MetadataInv
  <2>6. ASSUME NEW d \in Conns
        PROVE  IF meta'[d].at = "none" THEN meta'[d].about = 0
               ELSE /\ meta'[d].about = node[d] /\ node[d] # 0
                    /\ sphase' = "send_metadata" => node[d] < snext'
                    /\ PostsFirst => d \in srq
    <3>1. CASE d = c
      BY <3>1, <2>2, <2>4, <2>5
    <3>2. CASE d # c
      <4>1. meta'[d] = meta[d]
        BY <3>2, <2>2
      <4>2. node[d] < snext => node[d] < snext + 1
        OBVIOUS
      <4>. QED  BY <4>1, <4>2, <2>3, <2>4 DEF MetadataInv
    <3>. QED  BY <3>1, <3>2
  <2>. QED  BY <2>1, <2>3, <2>4, <2>5, <2>6 DEF MetadataInv
<1>3. CASE server_poll_metadata \/ server_served
  BY <1>3 DEF server_poll_metadata, server_served, NodesTaken, MetadataInv
<1>4. ASSUME NEW c \in Conns, connect_handler(c) PROVE Described'
  <2>1. \A event : ServerGets(event, c) => c \in Pending(schan, event)
    BY ServerGetsEffect DEF Handshake, ServerChannel
  <2>2. node[c] = 0
    BY <1>4, <2>1 DEF connect_handler, connect_refused, connect_accepted, connect_failed, Handshake, ServerChannel
  <2>3. meta[c].at = "none"
    BY <2>2 DEF MetadataInv
  <2>4. CASE connect_refused(c)
    BY <2>4 DEF connect_refused, NodesTaken, MetadataInv
  <2>5. ASSUME TakeNode(c) PROVE NodesTaken'
    <3>1. \A d \in Conns : node'[d] = IF d = c THEN conn_index + 1 ELSE node[d]
      BY <2>5 DEF TakeNode
    <3>. QED  BY <2>5, <3>1 DEF TakeNode, NodesTaken
  <2>6. CASE connect_accepted(c)
    <3>1. /\ \A d \in Conns \ {c} : node'[d] = node[d]
          /\ UNCHANGED <<meta, sphase, snext, sret>> /\ sphase # "send_metadata"
          /\ srq \subseteq srq' /\ (PostsFirst => c \in srq')
      BY <2>6 DEF connect_accepted, TakeNode, post_first, ServerGets, ServerLooping
    <3>. QED  BY <2>3, <2>5, <2>6, <3>1 DEF connect_accepted, MetadataInv
  <2>7. CASE connect_failed(c)
    <3>1. /\ \A d \in Conns \ {c} : node'[d] = node[d]
          /\ UNCHANGED <<meta, sphase, snext, srq>> /\ sphase # "send_metadata" /\ sret'
      BY <2>7 DEF connect_failed, TakeNode, ServerError, ServerGets, ServerLooping
    <3>. QED  BY <2>3, <2>5, <2>7, <3>1 DEF connect_failed, MetadataInv
  <2>. QED  BY <1>4, <2>4, <2>6, <2>7 DEF connect_handler
<1>5. ASSUME NEW c \in Conns, server_established(c) \/ server_error(c) \/ server_disconnected(c)
      PROVE  Described'
  <2>1. UNCHANGED <<node, conn_index, meta, sphase, snext, srq>> /\ (sret' = sret \/ sret') /\ sphase # "send_metadata"
    BY <1>5, Zenon DEF server_established, server_error, server_disconnected, ServerError, ServerGets, ServerLooping
  <2>. QED  BY <2>1 DEF NodesTaken, MetadataInv
<1>. QED  BY <1>1, <1>2, <1>3, <1>4, <1>5 DEF run_server, server_cma_handler

LEMMA CmStepDescribed ==
    ASSUME TypeOK, Described, NEW c \in Conns, cm(c)
    PROVE  Described'
<1>1. UNCHANGED <<setup, client, server>>
  BY CmStepType
<1>2. CASE UNCHANGED meta
  BY <1>1, <1>2, DescribedFrame
<1>3. CASE nic_metadata(c)
  <2>1. meta \in [Conns -> [about : 0 .. nodes, at : {"none", "sent", "received"}]]
    BY DEF TypeOK, FabricTypeOK
  <2>2. \A d \in Conns : /\ meta'[d].about = meta[d].about
                         /\ meta'[d].at = "none" <=> meta[d].at = "none"
    BY <1>3, <2>1 DEF nic_metadata
  <2>. QED  BY <1>1, <2>2 DEF Described, NodesTaken, MetadataInv, server
<1>. QED  BY <1>2, <1>3 DEF cm, cm_address, cm_route, cm_request, cm_unreachable, cm_reply, cm_ready, cm_reject,
             cm_disconnect, cm_disconnected, cm_abandoned, cm_server_gone

----------------------------------------------------------------------------
(* The client's counters and phases.                                       *)

LEMMA ConnsFinite == IsFiniteSet(Conns) /\ Cardinality(Conns) = ClientConnections
  BY FS_Interval, BenchConnAssumption DEF Conns

\* The connections whose end the client has not heard of.
Awaited == {c \in cconn : cst[c] # "disconnected" \/ c \in Pending(cchan, "DISCONNECTED")}

\* What the client has received it keeps.
MetadataKept == \A c \in Conns : meta[c].at = "received" => meta'[c].at = "received"

LEMMA ClientCountsFrame ==
    ASSUME ClientCounts, UNCHANGED client, MetadataKept,
           \A c \in Conns : cst[c] = "disconnected" => cst'[c] = "disconnected"
    PROVE  ClientCounts'
  BY DEF ClientCounts, client, MetadataKept

LEMMA ClientStepCounts ==
    ASSUME TypeOK, TypeOK', Handshake, ClientCounts, DisconnectsCounted, run_client
    PROVE  ClientCounts' /\ DisconnectsCounted'
<1>0. /\ cconn \subseteq Conns /\ cst \in [Conns -> ClientStates] /\ cleft \in Int /\ cdisc \in Int
      /\ cret \in BOOLEAN /\ cerr \in BOOLEAN
  BY DEF TypeOK, ClientTypeOK, FabricTypeOK
<1>1. /\ IsFiniteSet(cconn) /\ IsFiniteSet(Awaited)
      /\ Cardinality(cconn) \in Nat /\ Cardinality(Awaited) \in Nat
      /\ Awaited \subseteq cconn
      /\ Cardinality(cconn) = ClientConnections => cconn = Conns
      /\ cdisc = Cardinality(Awaited)
  <2>1. IsFiniteSet(cconn) /\ (Cardinality(cconn) = ClientConnections => cconn = Conns)
    BY <1>0, ConnsFinite, FS_Subset
  <2>2. Awaited \subseteq cconn
    BY DEF Awaited
  <2>. QED  BY <2>1, <2>2, FS_Subset, FS_CardinalityType DEF DisconnectsCounted, Awaited
<1>2. UNCHANGED meta /\ UNCHANGED sst
  BY DEF run_client, client_resolve, client_connected, client_metadata, client_joined, client_disconnect,
     client_drained, cma_handler, addr_handler, route_handler, client_established, client_error,
     client_disconnected, ids, channels
<1>3. ASSUME UNCHANGED <<cdisc, cconn, cchan>>,
             \A c \in cconn : cst'[c] = "disconnected" <=> cst[c] = "disconnected"
      PROVE  DisconnectsCounted'
  BY <1>3 DEF DisconnectsCounted
<1>4. CASE client_resolve
  <2>1. \A c \in cconn : cst'[c] = "disconnected" <=> cst[c] = "disconnected"
    <3>1. cnext \in cnext .. ClientConnections
      BY DEF TypeOK, ClientTypeOK, Conns
    <3>2. cst[cnext] = "idle"
      BY <1>4, <3>1 DEF client_resolve, Handshake, ClientConns
    <3>. QED  BY <1>4, <1>0, <3>2 DEF client_resolve, ClientId
  <2>2. UNCHANGED <<cerr, cdisc, cconn, cchan>>
    BY <1>4 DEF client_resolve, channels
  <2>3. \/ cphase = "resolve" /\ cphase' \in {"resolve", "connect"} /\ cleft' = cleft
        \/ cphase' = "done" /\ cret'
    BY <1>4 DEF client_resolve, ClientNext
  <2>. QED  BY <1>3, <2>1, <2>2, <2>3 DEF ClientCounts
<1>5. CASE client_connected
  <2>1. ASSUME ~cerr PROVE cconn = Conns
    BY <1>5, <2>1, <1>0, <1>1, BenchConnAssumption DEF client_connected, ClientCounts
  <2>2. ClientCounts'
    BY <1>5, <2>1 DEF client_connected, ClientCounts
  <2>3. DisconnectsCounted'
    BY <1>3, <1>5 DEF client_connected, ids, channels
  <2>. QED  BY <2>2, <2>3
<1>6. CASE client_metadata \/ client_joined
  <2>1. ClientCounts'
    BY <1>6, <1>2 DEF client_metadata, client_joined, ClientCounts
  <2>2. DisconnectsCounted'
    BY <1>3, <1>6 DEF client_metadata, client_joined, ids, channels
  <2>. QED  BY <2>1, <2>2
<1>7. CASE client_disconnect
  <2>1. \A c \in Conns : cst'[c] = "disconnected" <=> cst[c] = "disconnected"
    BY <1>7, <1>0 DEF client_disconnect
  <2>2. UNCHANGED <<cret, cdisc, cconn, cchan>> /\ cphase = "disconnect" /\ cphase' \in {"disconnect", "drain"}
    BY <1>7 DEF client_disconnect, channels, ClientNext
  <2>3. ClientCounts'
    BY <2>2, <1>2 DEF ClientCounts
  <2>. QED  BY <1>0, <1>3, <2>1, <2>2, <2>3
<1>8. CASE client_drained
  <2>1. ASSUME ~cret' PROVE \A c \in Conns : cst[c] = "disconnected"
    <3>1. ~cret /\ ~cerr /\ cdisc = 0 /\ cphase = "drain"
      BY <1>8, <2>1 DEF client_drained
    <3>2. Awaited = {}
      BY <3>1, <1>1, FS_EmptySet
    <3>. QED  BY <3>1, <3>2 DEF Awaited, ClientCounts
  <2>2. cphase = "drain" /\ cphase' = "done" /\ (~cret' => ~cret) /\ UNCHANGED <<cconn, cst>>
    BY <1>8 DEF client_drained, ids
  <2>3. ClientCounts'
    BY <2>1, <2>2, <1>2 DEF ClientCounts
  <2>4. DisconnectsCounted'
    BY <1>3, <1>8 DEF client_drained, ids, channels
  <2>. QED  BY <2>3, <2>4
<1>9. ASSUME NEW c \in Conns, cma_handler(c) PROVE ClientCounts' /\ DisconnectsCounted'
  <2>1. ASSUME NEW event, ClientGets(event, c)
        PROVE  /\ c \in Pending(cchan, event)
               /\ \A d : d \in Pending(cchan', "DISCONNECTED") <=>
                           (d \in Pending(cchan, "DISCONNECTED") /\ (event # "DISCONNECTED" \/ d # c))
               /\ cphase \in {"connect", "drain"}
    BY <2>1, ClientGetsEffect DEF ClientGets, ClientLooping, Handshake, ClientChannel
  <2>2. UNCHANGED <<cphase, cret>>
    BY <1>9 DEF cma_handler, addr_handler, route_handler, client_established, client_error,
       client_disconnected
  <2>3. ASSUME UNCHANGED cconn, (UNCHANGED <<cleft, cerr>>) \/ cerr', cphase \in {"connect", "drain"}
        PROVE  ClientCounts'
    BY <1>2, <2>2, <2>3 DEF ClientCounts
  <2>4. ASSUME UNCHANGED <<cdisc, cconn>>,
               \A d : d \in Pending(cchan', "DISCONNECTED") <=> d \in Pending(cchan, "DISCONNECTED"),
               \A d \in cconn : cst'[d] = "disconnected" <=> cst[d] = "disconnected"
        PROVE  DisconnectsCounted'
    BY <2>4 DEF DisconnectsCounted
  <2>5. CASE addr_handler(c) \/ route_handler(c)
    <3>1. UNCHANGED <<cdisc, cconn>> /\ ((UNCHANGED <<cleft, cerr>>) \/ cerr')
      BY <2>5 DEF addr_handler, route_handler, ClientError
    <3>2. ClientGets("ADDR_RESOLVED", c) \/ ClientGets("ROUTE_RESOLVED", c)
      BY <2>5 DEF addr_handler, route_handler
    <3>3. \A d \in cconn : cst'[d] = "disconnected" <=> cst[d] = "disconnected"
      BY <2>5, <1>0, <3>2, <2>1 DEF addr_handler, route_handler, ClientId, Handshake, ClientChannel
    <3>4. ClientCounts'
      BY <2>1, <2>3, <3>1, <3>2
    <3>5. DisconnectsCounted'
      BY <2>1, <2>4, <3>1, <3>2, <3>3
    <3>. QED  BY <3>4, <3>5
  <2>6. CASE client_established(c)
    <3>1. ClientGets("CONNECT_RESPONSE", c)
      BY <2>6 DEF client_established
    <3>2. CASE cst[c] # "connect"
      <4>1. UNCHANGED <<cdisc, cconn, cst>> /\ cerr'
        BY <2>6, <3>2 DEF client_established, ClientError
      <4>2. ClientCounts'
        BY <2>1, <2>3, <3>1, <4>1
      <4>3. DisconnectsCounted'
        BY <2>1, <2>4, <3>1, <4>1
      <4>. QED  BY <4>2, <4>3
    <3>3. CASE cst[c] = "connect"
      <4>1. /\ cst' = [cst EXCEPT ![c] = "established"] /\ cconn' = cconn \cup {c}
            /\ cleft' = cleft - 1 /\ cdisc' = cdisc + 1 /\ UNCHANGED cerr
        BY <2>6, <3>3 DEF client_established, ClientId
      <4>2. c \notin cconn
        BY <3>3 DEF Handshake, ClientConns
      <4>3. Cardinality(cconn') = Cardinality(cconn) + 1
        BY <4>1, <4>2, <1>1, FS_AddElement
      <4>4. ClientCounts'
        <5>1. cconn = Conns => cconn' = Conns
          BY <4>1
        <5>2. cphase = "connect" /\ ~cerr => cleft' = ClientConnections - Cardinality(cconn')
          BY <4>1, <4>3, <1>1, <1>0, BenchConnAssumption DEF ClientCounts
        <5>3. cphase' = cphase /\ cerr' = cerr /\ cret' = cret /\ cphase \in {"connect", "drain"} /\ meta' = meta
          BY <4>1, <1>2, <2>1, <2>2, <3>1
        <5>. QED  BY <5>1, <5>2, <5>3 DEF ClientCounts
      <4>5. Awaited' = Awaited \cup {c} /\ c \notin Awaited
        BY <4>1, <4>2, <1>0, <2>1, <3>1 DEF Awaited
      <4>6. DisconnectsCounted'
        <5>1. Cardinality(Awaited') = Cardinality(Awaited) + 1
          BY <4>5, <1>1, FS_AddElement
        <5>. QED  BY <4>1, <5>1, <1>1 DEF DisconnectsCounted, Awaited
      <4>. QED  BY <4>4, <4>6
    <3>. QED  BY <3>2, <3>3
  <2>7. CASE client_error(c)
    <3>1. UNCHANGED <<cdisc, cconn, cst>> /\ cerr'
      BY <2>7 DEF client_error, ClientError, ids
    <3>2. PICK event \in {"ADDR_ERROR", "ROUTE_ERROR", "UNREACHABLE", "REJECTED"} : ClientGets(event, c)
      BY <2>7 DEF client_error
    <3>3. ClientCounts'
      BY <2>1, <2>3, <3>1, <3>2
    <3>4. DisconnectsCounted'
      BY <2>1, <2>4, <3>1, <3>2
    <3>. QED  BY <3>3, <3>4
  <2>8. CASE client_disconnected(c)
    <3>1. /\ ClientGets("DISCONNECTED", c)
          /\ cdisc' = cdisc - 1 /\ UNCHANGED <<cleft, cerr, cconn, cst>>
      BY <2>8 DEF client_disconnected, ids
    <3>2. ClientCounts'
      BY <2>1, <2>3, <3>1
    <3>3. cst[c] = "disconnected" /\ c \in cconn
      BY <2>1, <3>1 DEF Handshake, ClientChannel, ClientConns
    <3>4. Awaited' = Awaited \ {c} /\ c \in Awaited
      BY <2>1, <3>1, <3>3 DEF Awaited
    <3>5. DisconnectsCounted'
      BY <3>1, <3>4, <1>1, FS_RemoveElement DEF DisconnectsCounted, Awaited
    <3>. QED  BY <3>2, <3>5
  <2>. QED  BY <1>9, <2>5, <2>6, <2>7, <2>8 DEF cma_handler
<1>. QED  BY <1>4, <1>5, <1>6, <1>7, <1>8, <1>9 DEF run_client

LEMMA ServerStepMetadataKept ==
    ASSUME TypeOK, Described, run_server
    PROVE  MetadataKept
<1>1. CASE server_send_metadata
  <2>1. PICK c \in Conns : node[c] = snext /\ meta' = [meta EXCEPT ![c] = [about |-> snext, at |-> "sent"]]
    BY <1>1 DEF server_send_metadata
  <2>2. meta[c].at = "none"
    BY <1>1, <2>1, BenchConnAssumption DEF server_send_metadata, Described, MetadataInv, TypeOK, ServerTypeOK, Nodes
  <2>. QED  BY <2>1, <2>2 DEF MetadataKept, TypeOK, FabricTypeOK
<1>2. CASE ~server_send_metadata
  BY <1>2 DEF run_server, server_connected, server_poll_metadata, server_served,
     server_cma_handler, connect_handler, connect_refused, connect_accepted, connect_failed,
     server_established, server_error, server_disconnected, MetadataKept
<1>. QED  BY <1>1, <1>2

LEMMA ServerStepClientCounts ==
    ASSUME TypeOK, Described, ClientCounts, DisconnectsCounted, run_server
    PROVE  ClientCounts' /\ DisconnectsCounted'
<1>1. UNCHANGED <<client, cst, cchan>>
  BY DEF run_server, server_connected, server_send_metadata, server_poll_metadata, server_served,
     server_cma_handler, connect_handler, connect_refused, connect_accepted, connect_failed,
     server_established, server_error, server_disconnected, ids, channels
<1>. QED  BY <1>1, ServerStepMetadataKept, ClientCountsFrame DEF DisconnectsCounted, client

LEMMA CmStepClientCounts ==
    ASSUME TypeOK, Handshake, ClientCounts, DisconnectsCounted, NEW c \in Conns, cm(c)
    PROVE  ClientCounts' /\ DisconnectsCounted'
<1>0. /\ cconn \subseteq Conns /\ cst \in [Conns -> ClientStates]
      /\ meta \in [Conns -> [about : 0 .. nodes, at : {"none", "sent", "received"}]]
  BY DEF TypeOK, ClientTypeOK, FabricTypeOK
<1>1. UNCHANGED client
  BY CmStepType
<1>2. MetadataKept
  BY <1>0 DEF MetadataKept, cm, cm_address, cm_route, cm_request, cm_unreachable, cm_reply, cm_ready,
     cm_reject, cm_disconnect, cm_disconnected, cm_abandoned, cm_server_gone, nic_metadata
<1>3. \A d \in Conns : cst[d] = "disconnected" => cst'[d] = "disconnected"
  BY <1>0 DEF cm, cm_address, cm_route, cm_request, cm_unreachable, cm_reply, cm_ready, cm_reject,
     cm_disconnect, cm_disconnected, cm_abandoned, cm_server_gone, nic_metadata, ids, ClientId
<1>4. ASSUME NEW event, ClientTold(event, c)
      PROVE  \A d : d \in Pending(cchan', "DISCONNECTED") <=>
                      (d \in Pending(cchan, "DISCONNECTED") \/ (event = "DISCONNECTED" /\ d = c))
  BY <1>4, ClientToldEffect
<1>5. ASSUME \A d : d \in Pending(cchan', "DISCONNECTED") <=> d \in Pending(cchan, "DISCONNECTED"),
             \A d \in cconn : cst'[d] = "disconnected" <=> cst[d] = "disconnected"
      PROVE  DisconnectsCounted'
  BY <1>1, <1>5 DEF DisconnectsCounted, client
<1>6. ASSUME \A d \in Conns : d # c => cst'[d] = cst[d],
             cst[c] # "disconnected", cst'[c] = "disconnected", ClientTold("DISCONNECTED", c)
      PROVE  DisconnectsCounted'
  <2>1. Awaited' = Awaited
    BY <1>0, <1>1, <1>4, <1>6 DEF Awaited, client
  <2>. QED  BY <1>1, <2>1 DEF DisconnectsCounted, Awaited, client
<1>7. CASE cm_address(c) \/ cm_route(c) \/ cm_unreachable(c) \/ cm_reply(c) \/ cm_reject(c)
  <2>1. PICK event \in ClientEvents \ {"DISCONNECTED"} : ClientTold(event, c)
    BY <1>7 DEF cm_address, cm_route, cm_unreachable, cm_reply, cm_reject, ClientEvents
  <2>2. \A d \in Conns : cst'[d] = "disconnected" <=> cst[d] = "disconnected"
    BY <1>7, <1>0 DEF cm_address, cm_route, cm_unreachable, cm_reply, cm_reject, ClientId
  <2>. QED  BY <1>0, <1>1, <1>2, <1>3, <1>4, <1>5, <2>1, <2>2, ClientCountsFrame
<1>8. CASE cm_request(c) \/ cm_ready(c) \/ cm_disconnect(c) \/ cm_abandoned(c) \/ nic_metadata(c)
  BY <1>1, <1>2, <1>3, <1>5, <1>8, ClientCountsFrame DEF cm_request, cm_ready, cm_disconnect, cm_abandoned,
     nic_metadata, ids, channels
<1>9. CASE cm_disconnected(c)
  BY <1>0, <1>1, <1>2, <1>3, <1>6, <1>9, ClientCountsFrame DEF cm_disconnected, ClientId
<1>10. CASE cm_server_gone(c)
  <2>1. CASE cst[c] \in {"connect", "failed"}
    <3>1. ClientTold("REJECTED", c) /\ cst' = [cst EXCEPT ![c] = "failed"]
      BY <1>10, <2>1 DEF cm_server_gone, ClientId
    <3>2. \A d \in Conns : cst'[d] = "disconnected" <=> cst[d] = "disconnected"
      BY <1>0, <2>1, <3>1
    <3>. QED  BY <1>0, <1>1, <1>2, <1>3, <1>4, <1>5, <3>1, <3>2, ClientCountsFrame
  <2>2. CASE cst[c] = "established"
    BY <1>0, <1>1, <1>2, <1>3, <1>6, <1>10, <2>2, ClientCountsFrame DEF cm_server_gone, ClientId
  <2>3. CASE cst[c] \notin {"connect", "failed", "established"}
    BY <1>1, <1>2, <1>3, <1>5, <1>10, <2>3, ClientCountsFrame DEF cm_server_gone
  <2>. QED  BY <2>1, <2>2, <2>3
<1>. QED  BY <1>7, <1>8, <1>9, <1>10 DEF cm

----------------------------------------------------------------------------
(* The server's counters and phases.                                       *)

LEMMA ServerCountsFrame ==
    ASSUME ServerCounts, DisconnectsAwaited, UNCHANGED <<setup, server>>,
           Counted' = Counted,
           \A c \in Conns : sst[c] = "disconnected" => sst'[c] = "disconnected",
           sconn \subseteq Conns,
           \A c \in Conns : meta'[c].about = meta[c].about
    PROVE  ServerCounts' /\ DisconnectsAwaited'
<1>1. ServerCounts'
  BY DEF ServerCounts, setup, server
<1>2. DisconnectsAwaited'
  BY DEF DisconnectsAwaited, ServerWaits, ServerGone, Nodes, setup, server
<1>. QED  BY <1>1, <1>2

\* The facts about cardinalities that the counters need.
LEMMA ServerSets ==
    ASSUME TypeOK, ServerCounts
    PROVE  /\ sconn \subseteq Conns /\ Counted \subseteq Conns
           /\ IsFiniteSet(sconn) /\ IsFiniteSet(Counted)
           /\ Cardinality(sconn) \in Nat /\ Cardinality(Counted) \in Nat
           /\ Cardinality(sconn) <= ClientConnections
           /\ Cardinality(sconn) = ClientConnections => sconn = Conns
           /\ Cardinality(Counted) = ClientConnections => Counted = Conns
           /\ nodes \in Nat \ {0} /\ sdisc \in Int /\ sleft \in Int
<1>1. sconn \subseteq Conns /\ Counted \subseteq Conns
  BY DEF TypeOK, ServerTypeOK, Counted
<1>2. nodes \in Nat \ {0} /\ sdisc \in Int /\ sleft \in Int
  BY BenchConnAssumption DEF TypeOK, ServerTypeOK
<1>. QED  BY <1>1, <1>2, ConnsFinite, FS_Subset, FS_CardinalityType

LEMMA ServerStepCounts ==
    ASSUME TypeOK, TypeOK', Handshake, Described, ServerCounts, DisconnectsAwaited, run_server
    PROVE  ServerCounts' /\ DisconnectsAwaited'
<1>0. sst \in [Conns -> ServerStates] /\ UNCHANGED nodes
  BY DEF TypeOK, FabricTypeOK, run_server, setup
<1>1. CASE server_connected
  <2>1. UNCHANGED <<sret, sleft, sdisc, sconn, sst, schan, meta>> /\ sphase = "connect"
    BY <1>1 DEF server_connected, ids, channels
  <2>2. ASSUME sphase' # "done", ClientConnections <= nodes
        PROVE  sconn = Conns /\ ~sret
    <3>1. ~sret /\ sleft = 0
      BY <1>1, <2>2 DEF server_connected
    <3>2. Cardinality(sconn) = ClientConnections
      BY <2>1, <2>2, <3>1, ServerSets, BenchConnAssumption DEF ServerCounts
    <3>. QED  BY <3>1, <3>2, ServerSets
  <2>3. ServerCounts'
    BY <1>0, <1>1, <2>1, <2>2 DEF server_connected, ServerCounts, Counted
  <2>4. ~(\A n \in Nodes : \E c \in Conns : meta[c].about = n)
    <3>1. \A c \in Conns : meta[c].about = 0
      BY <2>1 DEF Described, MetadataInv
    <3>2. 1 \in Nodes
      BY ServerSets DEF Nodes
    <3>. QED  BY <3>1, <3>2
  <2>. QED  BY <1>0, <2>1, <2>3, <2>4 DEF DisconnectsAwaited, ServerWaits, Nodes
<1>2. CASE server_send_metadata \/ server_poll_metadata
  <2>1. /\ UNCHANGED <<sret, sleft, sdisc, sconn, sst, schan>>
        /\ sphase \in {"send_metadata", "poll_metadata"}
        /\ sphase' \in {"send_metadata", "poll_metadata", "serve"}
    BY <1>2 DEF server_send_metadata, server_poll_metadata, ids, channels
  <2>2. ServerCounts'
    BY <1>0, <2>1 DEF ServerCounts, Counted
  <2>. QED  BY <2>1, <2>2 DEF DisconnectsAwaited, ServerWaits, ServerGone
<1>3. CASE server_served
  <2>1. /\ UNCHANGED <<sret, sleft, sdisc, sconn, sst, schan>>
        /\ sphase = "serve" /\ sphase' = "done" /\ (sdisc = 0 \/ sret)
    BY <1>3 DEF server_served, ids, channels
  <2>2. ServerCounts'
    BY <1>0, <2>1 DEF ServerCounts, Counted
  <2>3. ASSUME ClientConnections <= nodes
        PROVE  \A c \in Conns : sst[c] = "disconnected"
    <3>1. sconn = Conns /\ sdisc = 0
      BY <2>1, <2>3 DEF ServerCounts
    <3>2. Cardinality(Counted) = ClientConnections
      BY <3>1, ConnsFinite, ServerSets, BenchConnAssumption DEF ServerCounts
    <3>3. Counted = Conns
      BY <3>2, ServerSets
    <3>. QED  BY <3>3 DEF Counted
  <2>. QED  BY <1>0, <2>1, <2>2, <2>3, ServerSets DEF DisconnectsAwaited, ServerWaits
<1>4. ASSUME NEW c \in Conns, server_cma_handler(c)
      PROVE  ServerCounts' /\ DisconnectsAwaited'
  <2>1. UNCHANGED sphase /\ sphase \in {"connect", "serve"}
    BY <1>4 DEF server_cma_handler, connect_handler, connect_refused, connect_accepted, connect_failed,
       server_established, server_error, server_disconnected, ServerGets, ServerLooping
  <2>2. DisconnectsAwaited'
    BY <2>1 DEF DisconnectsAwaited, ServerWaits, ServerGone
  <2>3. ASSUME NEW event, ServerGets(event, c)
        PROVE  /\ c \in Pending(schan, event)
               /\ \A d : d \in Pending(schan', "DISCONNECTED") <=>
                           (d \in Pending(schan, "DISCONNECTED") /\ (event # "DISCONNECTED" \/ d # c))
    BY <2>3, ServerGetsEffect DEF Handshake, ServerChannel
  <2>4. CASE connect_handler(c)
    <3>1. ServerGets("CONNECT_REQUEST", c)
      BY <2>4 DEF connect_handler, connect_refused, connect_accepted, connect_failed
    <3>2. sst[c] \in {"requested", "failed"} /\ c \notin sconn
      BY <2>3, <3>1 DEF Handshake, ServerChannel, ServerConns
    <3>3. \A d \in Conns : sst'[d] = "disconnected" <=> sst[d] = "disconnected"
      BY <1>0, <2>4, <3>2 DEF connect_handler, connect_refused, connect_accepted, connect_failed, ServerId
    <3>4. Counted' = Counted
      BY <2>3, <3>1, <3>3 DEF Counted
    <3>5. UNCHANGED <<sdisc, sconn>> /\ ((UNCHANGED <<sret, sleft>>) \/ sret')
      BY <2>4 DEF connect_handler, connect_refused, connect_accepted, connect_failed, ServerError
    <3>6. ClientConnections <= nodes => sphase = "connect"
      BY <2>1, <3>2 DEF ServerCounts
    <3>7. ServerCounts'
      BY <1>0, <2>1, <3>4, <3>5, <3>6 DEF ServerCounts
    <3>. QED  BY <2>2, <3>7
  <2>5. CASE server_established(c)
    <3>1. /\ ServerGets("ESTABLISHED", c)
          /\ sconn' = sconn \cup {c} /\ sleft' = sleft - 1 /\ sdisc' = sdisc + 1
          /\ UNCHANGED <<sret, sst>>
      BY <2>5 DEF server_established, ids
    <3>2. c \notin sconn
      BY <2>3, <3>1 DEF Handshake, ServerChannel
    <3>3. Cardinality(sconn') = Cardinality(sconn) + 1
      BY <3>1, <3>2, ServerSets, FS_AddElement
    <3>4. Counted' = Counted
      BY <2>3, <3>1 DEF Counted
    <3>5. sconn = Conns => sconn' = Conns
      BY <3>1
    <3>6. sdisc' = Cardinality(sconn') - Cardinality(Counted')
      BY <3>1, <3>3, <3>4, ServerSets DEF ServerCounts
    <3>7. sphase = "connect" /\ ~sret => sleft' = nodes - Cardinality(sconn')
      BY <3>1, <3>3, ServerSets DEF ServerCounts
    <3>8. ServerCounts'
      BY <1>0, <2>1, <3>1, <3>5, <3>6, <3>7 DEF ServerCounts
    <3>. QED  BY <2>2, <3>8
  <2>6. CASE server_error(c)
    <3>1. ServerGets("REJECTED", c) /\ UNCHANGED <<sdisc, sconn, sst>> /\ sret'
      BY <2>6 DEF server_error, ServerError, ids
    <3>2. c \notin sconn
      BY <2>3, <3>1 DEF Handshake, ServerChannel
    <3>3. Counted' = Counted
      BY <2>3, <3>1 DEF Counted
    <3>4. ServerCounts'
      BY <1>0, <2>1, <3>1, <3>2, <3>3 DEF ServerCounts
    <3>. QED  BY <2>2, <3>4
  <2>7. CASE server_disconnected(c)
    <3>1. /\ ServerGets("DISCONNECTED", c) /\ sdisc' = sdisc - 1
          /\ UNCHANGED <<sret, sleft, sconn, sst>>
      BY <2>7 DEF server_disconnected, ids
    <3>2. sst[c] = "disconnected"
      BY <2>3, <3>1 DEF Handshake, ServerChannel
    <3>3. Counted' = Counted \cup {c} /\ c \notin Counted
      BY <2>3, <3>1, <3>2 DEF Counted
    <3>4. Cardinality(Counted') = Cardinality(Counted) + 1
      BY <3>3, ServerSets, FS_AddElement
    <3>5. sdisc' = Cardinality(sconn') - Cardinality(Counted')
      BY <3>1, <3>4, ServerSets DEF ServerCounts
    <3>6. ServerCounts'
      BY <1>0, <2>1, <3>1, <3>5 DEF ServerCounts
    <3>. QED  BY <2>2, <3>6
  <2>. QED  BY <1>4, <2>4, <2>5, <2>6, <2>7 DEF server_cma_handler
<1>. QED  BY <1>1, <1>2, <1>3, <1>4 DEF run_server

LEMMA ClientStepServerCounts ==
    ASSUME TypeOK, ServerCounts, DisconnectsAwaited, run_client
    PROVE  ServerCounts' /\ DisconnectsAwaited'
<1>1. UNCHANGED <<setup, server, sst, schan, meta>>
  BY DEF run_client, client_resolve, client_connected, client_metadata, client_joined, client_disconnect,
     client_drained, cma_handler, addr_handler, route_handler, client_established, client_error,
     client_disconnected, ids, channels
<1>2. Counted' = Counted
  BY <1>1 DEF Counted
<1>. QED  BY <1>1, <1>2, ServerSets, ServerCountsFrame

LEMMA CmStepServerCounts ==
    ASSUME TypeOK, ServerCounts, DisconnectsAwaited, NEW c \in Conns, cm(c)
    PROVE  ServerCounts' /\ DisconnectsAwaited'
<1>0. /\ sst \in [Conns -> ServerStates]
      /\ meta \in [Conns -> [about : 0 .. nodes, at : {"none", "sent", "received"}]]
  BY DEF TypeOK, FabricTypeOK
<1>1. UNCHANGED <<setup, server>>
  BY CmStepType
<1>2. \A d \in Conns : meta'[d].about = meta[d].about
  BY <1>0 DEF cm, cm_address, cm_route, cm_request, cm_unreachable, cm_reply, cm_ready,
     cm_reject, cm_disconnect, cm_disconnected, cm_abandoned, cm_server_gone, nic_metadata
<1>3. \A d \in Conns : sst[d] = "disconnected" => sst'[d] = "disconnected"
  BY <1>0 DEF cm, cm_address, cm_route, cm_request, cm_unreachable, cm_reply, cm_ready, cm_reject,
     cm_disconnect, cm_disconnected, cm_abandoned, cm_server_gone, nic_metadata, Requesting, ids, ServerId
<1>4. ASSUME NEW event, ServerTold(event, c)
      PROVE  \A d : d \in Pending(schan', "DISCONNECTED") <=>
                      (d \in Pending(schan, "DISCONNECTED") \/ (event = "DISCONNECTED" /\ d = c))
  BY <1>4, ServerToldEffect
<1>5. ASSUME \A d : d \in Pending(schan', "DISCONNECTED") <=> d \in Pending(schan, "DISCONNECTED"),
             \A d \in Conns : sst'[d] = "disconnected" <=> sst[d] = "disconnected"
      PROVE  Counted' = Counted
  BY <1>5 DEF Counted
<1>6. Counted' = Counted
  <2>1. CASE cm_address(c) \/ cm_route(c) \/ cm_disconnected(c) \/ nic_metadata(c)
    BY <1>5, <2>1 DEF cm_address, cm_route, cm_disconnected, nic_metadata, ids, channels
  <2>2. CASE cm_unreachable(c) \/ cm_reply(c) \/ cm_reject(c) \/ cm_server_gone(c)
    BY <1>0, <1>5, <2>2 DEF cm_unreachable, cm_reply, cm_reject, cm_server_gone, Requesting, ServerId
  <2>3. CASE cm_request(c) \/ cm_ready(c) \/ cm_abandoned(c)
    <3>1. UNCHANGED schan \/ \E event \in {"CONNECT_REQUEST", "ESTABLISHED", "REJECTED"} : ServerTold(event, c)
      BY <2>3 DEF cm_request, cm_ready, cm_abandoned
    <3>2. \A d : d \in Pending(schan', "DISCONNECTED") <=> d \in Pending(schan, "DISCONNECTED")
      BY <3>1, <1>4
    <3>3. \A d \in Conns : sst'[d] = "disconnected" <=> sst[d] = "disconnected"
      BY <1>0, <2>3 DEF cm_request, cm_ready, cm_abandoned, Requesting, ServerId
    <3>. QED  BY <1>5, <3>2, <3>3
  <2>4. CASE cm_disconnect(c)
    BY <1>0, <1>4, <2>4 DEF cm_disconnect, ServerId, Counted
  <2>. QED  BY <2>1, <2>2, <2>3, <2>4 DEF cm
<1>. QED  BY <1>1, <1>2, <1>3, <1>6, ServerSets, ServerCountsFrame

----------------------------------------------------------------------------
(* The theorems.                                                           *)

LEMMA InitInv == Init => IInv
<1> SUFFICES ASSUME Init PROVE IInv
  OBVIOUS
<1>1. TypeOK
  BY InitType
<1>2. \A e : Pending(cchan, e) = {} /\ Pending(schan, e) = {}
  BY DEF Init, Pending
<1>3. Once(cchan) /\ Once(schan)
  BY DEF Init, Once
<1>4. nodes \in Nat \ {0} /\ ClientConnections \in Nat \ {0}
  BY BenchConnAssumption DEF Init
<1>5. Handshake
  BY <1>2, <1>3, <1>4 DEF Init, Handshake, ClientChannel, ClientConns, ServerChannel, ServerConns, Conns
<1>6. Described
  BY <1>4 DEF Init, Described, NodesTaken, MetadataInv
<1>7. ClientCounts /\ DisconnectsCounted
  <2>1. Awaited = {} /\ cconn = {}
    BY DEF Init, Awaited
  <2>2. ClientCounts
    BY <2>1, <1>4, FS_EmptySet DEF Init, ClientCounts
  <2>3. cdisc = Cardinality(Awaited)
    BY <2>1, FS_EmptySet DEF Init
  <2>. QED  BY <2>2, <2>3 DEF DisconnectsCounted, Awaited
<1>8. ServerCounts /\ DisconnectsAwaited
  <2>1. Counted = {} /\ sconn = {}
    BY DEF Init, Counted
  <2>. QED  BY <2>1, <1>4, FS_EmptySet DEF Init, ServerCounts, DisconnectsAwaited, ServerWaits, ServerGone
<1>. QED  BY <1>1, <1>5, <1>6, <1>7, <1>8 DEF IInv

LEMMA NextInv == IInv /\ [Next]_vars => IInv'
<1> SUFFICES ASSUME IInv, [Next]_vars PROVE IInv'
  OBVIOUS
<1>. USE DEF IInv
<1>1. CASE run_client
  <2>1. TypeOK'
    BY <1>1, ClientStepType
  <2>2. Handshake'
    BY <1>1, <2>1, ClientStepHandshake
  <2>3. Described'
    BY <1>1, DescribedFrame DEF run_client, client_resolve, client_connected, client_metadata, client_joined,
       client_disconnect, client_drained, cma_handler, addr_handler, route_handler, client_established,
       client_error, client_disconnected
  <2>4. ClientCounts' /\ DisconnectsCounted'
    BY <1>1, <2>1, ClientStepCounts
  <2>5. ServerCounts' /\ DisconnectsAwaited'
    BY <1>1, ClientStepServerCounts
  <2>. QED  BY <2>1, <2>2, <2>3, <2>4, <2>5
<1>2. CASE run_server
  <2>1. TypeOK'
    BY <1>2, ServerStepType
  <2>2. Handshake'
    BY <1>2, <2>1, ServerStepHandshake
  <2>3. Described'
    BY <1>2, <2>1, ServerStepDescribed
  <2>4. ClientCounts' /\ DisconnectsCounted'
    BY <1>2, ServerStepClientCounts
  <2>5. ServerCounts' /\ DisconnectsAwaited'
    BY <1>2, <2>1, ServerStepCounts
  <2>. QED  BY <2>1, <2>2, <2>3, <2>4, <2>5
<1>3. ASSUME NEW c \in Conns, cm(c) PROVE IInv'
  <2>1. TypeOK'
    BY <1>3, CmStepType
  <2>2. Handshake'
    BY <1>3, <2>1, CmStepHandshake
  <2>3. Described'
    BY <1>3, CmStepDescribed
  <2>4. ClientCounts' /\ DisconnectsCounted'
    BY <1>3, CmStepClientCounts
  <2>5. ServerCounts' /\ DisconnectsAwaited'
    BY <1>3, CmStepServerCounts
  <2>. QED  BY <2>1, <2>2, <2>3, <2>4, <2>5
<1>4. CASE UNCHANGED vars
  <2>. USE <1>4 DEF vars, setup, client, server, ids, channels
  <2>1. TypeOK'
    BY DEF TypeOK, ClientTypeOK, ServerTypeOK, FabricTypeOK, Nodes
  <2>2. Handshake'
    BY DEF Handshake, ClientChannel, ClientConns, ServerChannel, ServerConns
  <2>3. Described'
    BY DescribedFrame
  <2>4. ClientCounts' /\ DisconnectsCounted'
    BY DEF ClientCounts, DisconnectsCounted
  <2>5. ServerCounts' /\ DisconnectsAwaited'
    BY DEF ServerCounts, Counted, DisconnectsAwaited, ServerWaits, ServerGone, Nodes
  <2>. QED  BY <2>1, <2>2, <2>3, <2>4, <2>5
<1>. QED  BY <1>1, <1>2, <1>3, <1>4 DEF Next, Finished

\* The handshake, the metadata, the counters and the phases of the two
\* programs agree in every state, whatever fails.
THEOREM Invariance == Spec => []IInv
  BY InitInv, NextInv, PTL DEF Spec

\* The client's disconnects_left is the number of connections whose end it
\* has still to be told: its loop ends neither early nor late.
THEOREM DisconnectsAreCounted == Spec => []DisconnectsCounted
<1>1. IInv => DisconnectsCounted
  BY DEF IInv
<1>. QED  BY <1>1, Invariance, PTL

\* A server with a node for every connection of its client, once it has begun
\* to serve, ends only when every connection has been disconnected.
THEOREM DisconnectsAreAwaited == Spec => []DisconnectsAwaited
<1>1. IInv => DisconnectsAwaited
  BY DEF IInv
<1>. QED  BY <1>1, Invariance, PTL

\* Workers start on connections paired one to one with the server's nodes,
\* each with the metadata of its own node, though requests arrive in any order.
THEOREM MetadataIsPaired == Spec => []MetadataPaired
<1>1. IInv => MetadataPaired
  <2> SUFFICES ASSUME IInv, cphase = "running"
               PROVE  /\ cconn = Conns
                      /\ \A c \in Conns : meta[c] = [about |-> node[c], at |-> "received"]
                      /\ \A c, d \in Conns : node[c] = node[d] => c = d
    BY DEF MetadataPaired
  <2>1. cconn = Conns /\ \A c \in Conns : meta[c].at = "received"
    BY DEF IInv, ClientCounts
  <2>2. \A c \in Conns : meta[c].about = node[c] /\ node[c] # 0
    BY <2>1 DEF IInv, Described, MetadataInv
  <2>3. \A c \in Conns : meta[c] = [about |-> node[c], at |-> "received"]
    BY <2>1, <2>2 DEF IInv, TypeOK, FabricTypeOK
  <2>4. \A c, d \in Conns : node[c] = node[d] => c = d
    BY <2>2 DEF IInv, Described, NodesTaken
  <2>. QED  BY <2>1, <2>3, <2>4
<1>. QED  BY <1>1, Invariance, PTL

\* No SEND of the handshake or of the first requests meets an empty receive
\* queue.
THEOREM ReceivesComeFirst == Spec => []ReceivesFirst
<1>1. IInv => ReceivesFirst
  <2> SUFFICES ASSUME IInv PROVE ReceivesFirst
    OBVIOUS
  <2>1. \A c \in Conns : meta[c].at = "sent" /\ cst[c] = "established" => c \in crq
    BY DEF IInv, Handshake, ClientConns
  <2>2. ASSUME cphase = "running", PostsFirst PROVE srq = Conns
    <3>1. \A c \in Conns : meta[c].at = "received"
      BY <2>2 DEF IInv, ClientCounts
    <3>2. \A c \in Conns : c \in srq
      BY <2>2, <3>1 DEF IInv, Described, MetadataInv
    <3>. QED  BY <3>2 DEF IInv, TypeOK, ServerTypeOK
  <2>. QED  BY <2>1, <2>2 DEF ReceivesFirst
<1>. QED  BY <1>1, Invariance, PTL

\* A client whose exit code says success has had every connection, its
\* metadata and its disconnect.
THEOREM SuccessMeansComplete == Spec => []SuccessIsComplete
<1>1. IInv => SuccessIsComplete
  BY DEF IInv, ClientCounts, SuccessIsComplete, ClientGone
<1>. QED  BY <1>1, Invariance, PTL
=============================================================================
