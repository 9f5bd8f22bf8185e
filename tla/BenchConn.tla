------------------------------ MODULE BenchConn ------------------------------
(***************************************************************************)
(* Connections of the five benchmarks: run_client and run_server around    *)
(* their event loops, the handlers of the connection manager's events, and *)
(* the exchange of metadata before the workers start.                      *)
(*                                                                         *)
(* One client process with a connection for each of its -c, one server     *)
(* process with a node for each of its -c, and one event channel for each  *)
(* process, on which the events of all its connections arrive in order.    *)
(* The connection manager (rdma_cm and the fabric) is external.            *)
(***************************************************************************)
EXTENDS Integers, Sequences, FiniteSets

CONSTANTS ClientConnections,  \* connections of the client
          ServerConnections,  \* set of the -c the server may be started with
          PostsFirst,         \* connect_handler posts a receive (wsbenchmark, wibenchmark)
          Faults              \* what may fail in a run that is not sound

ASSUME BenchConnAssumption ==
    /\ ClientConnections \in Nat \ {0}
    /\ ServerConnections \subseteq Nat \ {0}
    /\ PostsFirst \in BOOLEAN
    /\ Faults \subseteq {"resolve", "addr_handler", "route_handler", "connect_handler",
                         "address", "route", "unreachable"}

Conns == 1 .. ClientConnections

VARIABLES nodes,        \* the server's -c
          sound         \* nothing fails in this run

VARIABLES cphase,       \* where run_client is
          cnext,        \* the index of its loops
          cret,         \* its ret is an error
          cerr,         \* ret of the event loop it is in is an error
          cleft,        \* its connects_left
          cdisc,        \* its disconnects_left
          cconn,        \* connections whose node has connected = 1
          crq           \* connections with a receive for the metadata

VARIABLES sphase,       \* where run_server is
          snext,        \* the index of its loops
          sret,         \* its ret is an error
          sleft,        \* its connects_left
          sdisc,        \* its disconnects_left
          sconn,        \* connections whose node has connected = 1
          conn_index,   \* nodes taken so far
          node,         \* the server's node of each connection, or 0
          srq           \* connections with a receive for the first request

VARIABLES cst,          \* the client's cm_id of each connection
          sst,          \* the server's
          cchan,        \* the client's event channel
          schan,        \* the server's
          meta          \* node whose metadata was sent to each connection, or 0;
                        \* "sent" and then "received"

client == <<cphase, cnext, cret, cerr, cleft, cdisc, cconn, crq>>
server == <<sphase, snext, sret, sleft, sdisc, sconn, conn_index, node, srq>>
ids == <<cst, sst>>
channels == <<cchan, schan>>
setup == <<nodes, sound>>
vars == <<setup, client, server, ids, channels, meta>>

Nodes == 1 .. nodes

ClientPhases == {"resolve", "connect", "metadata", "running", "disconnect", "drain", "done"}
ServerPhases == {"connect", "send_metadata", "poll_metadata", "serve", "done"}
ClientStates == {"idle", "addr", "addr_done", "route", "route_done", "connect",
                 "established", "disconnecting", "disconnected", "failed"}
ServerStates == {"none", "requested", "accepted", "replied", "established",
                 "disconnected", "rejected", "failed"}
ClientEvents == {"ADDR_RESOLVED", "ADDR_ERROR", "ROUTE_RESOLVED", "ROUTE_ERROR",
                 "CONNECT_RESPONSE", "UNREACHABLE", "REJECTED", "DISCONNECTED"}
ServerEvents == {"CONNECT_REQUEST", "ESTABLISHED", "REJECTED", "DISCONNECTED"}

ClientTypeOK ==
    /\ cphase \in ClientPhases
    /\ cnext \in Conns
    /\ cret \in BOOLEAN /\ cerr \in BOOLEAN
    /\ cleft \in Int /\ cdisc \in Int
    /\ cconn \subseteq Conns /\ crq \subseteq Conns

ServerTypeOK ==
    /\ sphase \in ServerPhases
    /\ snext \in Nodes
    /\ sret \in BOOLEAN
    /\ sleft \in Int /\ sdisc \in Int
    /\ sconn \subseteq Conns
    /\ conn_index \in 0 .. nodes
    /\ node \in [Conns -> 0 .. nodes]
    /\ srq \subseteq Conns

FabricTypeOK ==
    /\ cst \in [Conns -> ClientStates]
    /\ sst \in [Conns -> ServerStates]
    /\ cchan \in Seq(ClientEvents \X Conns)
    /\ schan \in Seq(ServerEvents \X Conns)
    /\ meta \in [Conns -> [about : 0 .. nodes, at : {"none", "sent", "received"}]]

TypeOK ==
    /\ nodes \in ServerConnections /\ sound \in BOOLEAN
    /\ ClientTypeOK /\ ServerTypeOK /\ FabricTypeOK

\* The server is listening when the client starts.
Init ==
    /\ nodes \in ServerConnections /\ sound \in BOOLEAN
    /\ cphase = "resolve" /\ cnext = 1
    /\ cret = FALSE /\ cerr = FALSE
    /\ cleft = ClientConnections /\ cdisc = 0
    /\ cconn = {} /\ crq = {}
    /\ sphase = "connect" /\ snext = 1
    /\ sret = FALSE
    /\ sleft = nodes /\ sdisc = 0
    /\ sconn = {} /\ conn_index = 0 /\ srq = {}
    /\ node = [c \in Conns |-> 0]
    /\ cst = [c \in Conns |-> "idle"]
    /\ sst = [c \in Conns |-> "none"]
    /\ cchan = <<>> /\ schan = <<>>
    /\ meta = [c \in Conns |-> [about |-> 0, at |-> "none"]]

MayFail(fault) == ~sound /\ fault \in Faults

ClientId(c, state) == cst' = [cst EXCEPT ![c] = state]
ServerId(c, state) == sst' = [sst EXCEPT ![c] = state]

ClientTold(event, c) == cchan' = Append(cchan, <<event, c>>)
ServerTold(event, c) == schan' = Append(schan, <<event, c>>)

----------------------------------------------------------------------------
(* The client's event loops and handlers.  A handler ends with its event   *)
(* acknowledged; an error of it ends the loop.                             *)

ClientLooping ==
    \/ cphase = "connect" /\ cleft # 0 /\ ~cerr
    \/ cphase = "drain" /\ cdisc # 0 /\ ~cerr

\* The loop has taken this event from the channel.
ClientGets(event, c) ==
    /\ ClientLooping
    /\ cchan # <<>> /\ Head(cchan) = <<event, c>>
    /\ cchan' = Tail(cchan)

\* connect_error, and the error that ends the loop.
ClientError ==
    /\ cleft' = cleft - 1
    /\ cerr' = TRUE

addr_handler(c) ==
    /\ ClientGets("ADDR_RESOLVED", c)
    /\ \/ ClientId(c, "route") /\ UNCHANGED <<cleft, cerr>>
       \/ MayFail("addr_handler") /\ ClientError /\ UNCHANGED cst
    /\ UNCHANGED <<cphase, cnext, cret, cdisc, cconn, crq, server, sst, schan, meta>>

\* Bug: the connection is requested before the receive is posted.
BugConnectFirst(c) ==
    /\ ClientGets("ROUTE_RESOLVED", c)
    /\ ClientId(c, "connect")
    /\ UNCHANGED <<client, server, sst, schan, meta>>

\* init_node, post_recv_metadata, rdma_connect.
route_handler(c) ==
    /\ ClientGets("ROUTE_RESOLVED", c)
    /\ \/ ClientId(c, "connect") /\ crq' = crq \cup {c} /\ UNCHANGED <<cleft, cerr>>
       \/ MayFail("route_handler") /\ ClientError /\ UNCHANGED <<cst, crq>>
    /\ UNCHANGED <<cphase, cnext, cret, cdisc, cconn, server, sst, schan, meta>>

\* Bug: the connection is not counted among those to disconnect.
BugNoCount(c) ==
    /\ ClientGets("CONNECT_RESPONSE", c)
    /\ IF cst[c] = "connect"
       THEN /\ ClientId(c, "established")
            /\ cconn' = cconn \cup {c}
            /\ cleft' = cleft - 1
            /\ UNCHANGED <<cerr, cdisc>>
       ELSE ClientError /\ UNCHANGED <<cst, cconn, cdisc>>
    /\ UNCHANGED <<cphase, cnext, cret, crq, server, sst, schan, meta>>

\* rdma_get_cm_event completes the connection and reports ESTABLISHED, or, if
\* the queue pair is in error already, CONNECT_ERROR.
client_established(c) ==
    /\ ClientGets("CONNECT_RESPONSE", c)
    /\ IF cst[c] = "connect"
       THEN /\ ClientId(c, "established")
            /\ cconn' = cconn \cup {c}
            /\ cleft' = cleft - 1
            /\ cdisc' = cdisc + 1
            /\ UNCHANGED cerr
       ELSE ClientError /\ UNCHANGED <<cst, cconn, cdisc>>
    /\ UNCHANGED <<cphase, cnext, cret, crq, server, sst, schan, meta>>

client_error(c) ==
    /\ \E event \in {"ADDR_ERROR", "ROUTE_ERROR", "UNREACHABLE", "REJECTED"} : ClientGets(event, c)
    /\ ClientError
    /\ UNCHANGED <<cphase, cnext, cret, cdisc, cconn, crq, server, ids, schan, meta>>

client_disconnected(c) ==
    /\ ClientGets("DISCONNECTED", c)
    /\ cdisc' = cdisc - 1
    /\ UNCHANGED <<cphase, cnext, cret, cerr, cleft, cconn, crq, server, ids, schan, meta>>

cma_handler(c) ==
    \/ addr_handler(c)
    \/ route_handler(c)
    \/ client_established(c)
    \/ client_error(c)
    \/ client_disconnected(c)

----------------------------------------------------------------------------
(* run_client.                                                             *)

ClientNext(again, phase) ==
    IF cnext < ClientConnections
    THEN cnext' = cnext + 1 /\ cphase' = again
    ELSE cnext' = 1 /\ cphase' = phase

\* rdma_resolve_addr, one connection after the other.
client_resolve ==
    /\ cphase = "resolve"
    /\ \/ /\ ClientId(cnext, "addr")
          /\ ClientNext("resolve", "connect")
          /\ UNCHANGED <<cret, cleft>>
       \/ /\ MayFail("resolve")
          /\ cleft' = cleft - 1
          /\ cret' = TRUE
          /\ cphase' = "done"
          /\ UNCHANGED <<cst, cnext>>
    /\ UNCHANGED <<cerr, cdisc, cconn, crq, server, sst, channels, meta>>

\* connect_events returns.
client_connected ==
    /\ cphase = "connect" /\ (cleft = 0 \/ cerr)
    /\ cphase' = IF cerr THEN "disconnect" ELSE "metadata"
    /\ cret' = cerr
    /\ cerr' = FALSE
    /\ UNCHANGED <<cnext, cleft, cdisc, cconn, crq, server, ids, channels, meta>>

\* poll_one_wc returns when each connected node has had its completion.
client_metadata ==
    /\ cphase = "metadata"
    /\ \A c \in cconn : meta[c].at = "received"
    /\ cphase' = "running"
    /\ UNCHANGED <<cnext, cret, cerr, cleft, cdisc, cconn, crq, server, ids, channels, meta>>

\* The workers have run and are joined (see BenchRun).
client_joined ==
    /\ cphase = "running"
    /\ cphase' = "disconnect"
    /\ UNCHANGED <<cnext, cret, cerr, cleft, cdisc, cconn, crq, server, ids, channels, meta>>

\* rdma_disconnect, one connection after the other.  Without a connection it
\* does nothing but put the queue pair, if there is one, into error.
client_disconnect ==
    /\ cphase = "disconnect"
    /\ cst' = [cst EXCEPT ![cnext] = CASE @ = "established" -> "disconnecting"
                                       [] @ = "connect" -> "failed"
                                       [] OTHER -> @]
    /\ ClientNext("disconnect", "drain")
    /\ UNCHANGED <<cret, cerr, cleft, cdisc, cconn, crq, server, sst, channels, meta>>

\* Bug: the disconnects are not waited for.
BugNoDrain ==
    /\ cphase = "drain"
    /\ cphase' = "done"
    /\ UNCHANGED <<cnext, cret, cerr, cleft, cdisc, cconn, crq, server, ids, channels, meta>>

\* disconnect_events returns, and main destroys the nodes.
client_drained ==
    /\ cphase = "drain" /\ (cdisc = 0 \/ cerr)
    /\ cphase' = "done"
    /\ cret' = (cret \/ cerr)
    /\ UNCHANGED <<cnext, cerr, cleft, cdisc, cconn, crq, server, ids, channels, meta>>

run_client ==
    /\ \/ client_resolve
       \/ client_connected
       \/ client_metadata
       \/ client_joined
       \/ client_disconnect
       \/ client_drained
       \/ \E c \in Conns : cma_handler(c)
    /\ UNCHANGED setup

----------------------------------------------------------------------------
(* The server's event loops and handlers.                                  *)

ServerLooping ==
    \/ sphase = "connect" /\ sleft # 0 /\ ~sret
    \/ sphase = "serve" /\ sdisc # 0 /\ ~sret

ServerGets(event, c) ==
    /\ ServerLooping
    /\ schan # <<>> /\ Head(schan) = <<event, c>>
    /\ schan' = Tail(schan)

ServerError ==
    /\ sleft' = sleft - 1
    /\ sret' = TRUE

\* A request more than there are nodes.
connect_refused(c) ==
    /\ ServerGets("CONNECT_REQUEST", c)
    /\ conn_index = nodes
    /\ sst' = [sst EXCEPT ![c] = IF @ = "requested" THEN "rejected" ELSE @]
    /\ sret' = TRUE
    /\ UNCHANGED <<sphase, snext, sleft, sdisc, sconn, conn_index, node, srq, client, cst, cchan, meta>>

\* Bug: there is no limit.
BugNoLimit(c) ==
    /\ conn_index' = conn_index + 1
    /\ node' = [node EXCEPT ![c] = conn_index + 1]

TakeNode(c) ==
    /\ conn_index < nodes
    /\ conn_index' = conn_index + 1
    /\ node' = [node EXCEPT ![c] = conn_index + 1]

\* The receive connect_handler posts before it accepts.
post_first(c) == srq' = IF PostsFirst THEN srq \cup {c} ELSE srq

\* init_node, the first receive, rdma_accept.
connect_accepted(c) ==
    /\ ServerGets("CONNECT_REQUEST", c)
    /\ sst[c] = "requested"
    /\ TakeNode(c)
    /\ post_first(c)
    /\ ServerId(c, "accepted")
    /\ UNCHANGED <<sphase, snext, sret, sleft, sdisc, sconn, client, cst, cchan, meta>>

\* One of them fails: rdma_accept does if the client has gone.  The node stays
\* taken but lets go of its cm_id.
connect_failed(c) ==
    /\ ServerGets("CONNECT_REQUEST", c)
    /\ sst[c] = "failed" \/ MayFail("connect_handler")
    /\ TakeNode(c)
    /\ ServerError
    /\ sst' = [sst EXCEPT ![c] = IF @ = "requested" THEN "rejected" ELSE @]
    /\ UNCHANGED <<sphase, snext, sdisc, sconn, srq, client, cst, cchan, meta>>

connect_handler(c) == connect_refused(c) \/ connect_accepted(c) \/ connect_failed(c)

\* Bug: the connection is not counted among those to be disconnected.
BugServerNoCount(c) ==
    /\ ServerGets("ESTABLISHED", c)
    /\ sconn' = sconn \cup {c}
    /\ sleft' = sleft - 1
    /\ UNCHANGED <<sphase, snext, sret, sdisc, conn_index, node, srq, client, ids, cchan, meta>>

server_established(c) ==
    /\ ServerGets("ESTABLISHED", c)
    /\ sconn' = sconn \cup {c}
    /\ sleft' = sleft - 1
    /\ sdisc' = sdisc + 1
    /\ UNCHANGED <<sphase, snext, sret, conn_index, node, srq, client, ids, cchan, meta>>

server_error(c) ==
    /\ ServerGets("REJECTED", c)
    /\ ServerError
    /\ UNCHANGED <<sphase, snext, sdisc, sconn, conn_index, node, srq, client, ids, cchan, meta>>

\* Bug: the disconnect is answered and not counted.
BugNotCounted(c) ==
    /\ ServerGets("DISCONNECTED", c)
    /\ UNCHANGED <<server, client, ids, cchan, meta>>

\* rdma_disconnect answers the client, which may have given up waiting.
server_disconnected(c) ==
    /\ ServerGets("DISCONNECTED", c)
    /\ sdisc' = sdisc - 1
    /\ UNCHANGED <<sphase, snext, sret, sleft, sconn, conn_index, node, srq, client, ids, cchan, meta>>

server_cma_handler(c) ==
    \/ connect_handler(c)
    \/ server_established(c)
    \/ server_error(c)
    \/ server_disconnected(c)

----------------------------------------------------------------------------
(* run_server.                                                             *)

server_connected ==
    /\ sphase = "connect" /\ (sleft = 0 \/ sret)
    /\ sphase' = IF sret THEN "done" ELSE "send_metadata"
    /\ UNCHANGED <<snext, sret, sleft, sdisc, sconn, conn_index, node, srq, client, ids, channels, meta>>

\* Bug: the metadata describes the first node.
BugFirstNode ==
    /\ sphase = "send_metadata"
    /\ \E c \in Conns :
         /\ node[c] = snext
         /\ meta' = [meta EXCEPT ![c] = [about |-> 1, at |-> "sent"]]
    /\ IF snext < nodes
       THEN snext' = snext + 1 /\ UNCHANGED sphase
       ELSE snext' = 1 /\ sphase' = "poll_metadata"
    /\ UNCHANGED <<sret, sleft, sdisc, sconn, conn_index, node, srq, client, ids, channels>>

\* server_set_metadata and post_send_metadata, one node after the other.
server_send_metadata ==
    /\ sphase = "send_metadata"
    /\ \E c \in Conns :
         /\ node[c] = snext
         /\ meta' = [meta EXCEPT ![c] = [about |-> snext, at |-> "sent"]]
    /\ IF snext < nodes
       THEN snext' = snext + 1 /\ UNCHANGED sphase
       ELSE snext' = 1 /\ sphase' = "poll_metadata"
    /\ UNCHANGED <<sret, sleft, sdisc, sconn, conn_index, node, srq, client, ids, channels>>

\* The client cannot take a message of this connection any more.
Unreceivable(c) == cphase = "done" \/ cst[c] \in {"disconnecting", "disconnected"}

\* poll_one_wc: every SEND has completed, well or not.
server_poll_metadata ==
    /\ sphase = "poll_metadata"
    /\ \A c \in sconn : meta[c].at = "received" \/ Unreceivable(c)
    /\ sphase' = "serve"
    /\ UNCHANGED <<snext, sret, sleft, sdisc, sconn, conn_index, node, srq, client, ids, channels, meta>>

\* disconnect_events returns, and main destroys the nodes.
server_served ==
    /\ sphase = "serve" /\ (sdisc = 0 \/ sret)
    /\ sphase' = "done"
    /\ UNCHANGED <<snext, sret, sleft, sdisc, sconn, conn_index, node, srq, client, ids, channels, meta>>

run_server ==
    /\ \/ server_connected
       \/ server_send_metadata
       \/ server_poll_metadata
       \/ server_served
       \/ \E c \in Conns : server_cma_handler(c)
    /\ UNCHANGED setup

----------------------------------------------------------------------------
(* The connection manager and the fabric.                                  *)

ClientGone == cphase = "done"
ServerGone == sphase = "done"

cm_address(c) ==
    /\ cst[c] = "addr" /\ ~ClientGone
    /\ \/ ClientId(c, "addr_done") /\ ClientTold("ADDR_RESOLVED", c)
       \/ MayFail("address") /\ ClientId(c, "failed") /\ ClientTold("ADDR_ERROR", c)
    /\ UNCHANGED <<client, server, sst, schan, meta>>

cm_route(c) ==
    /\ cst[c] = "route" /\ ~ClientGone
    /\ \/ ClientId(c, "route_done") /\ ClientTold("ROUTE_RESOLVED", c)
       \/ MayFail("route") /\ ClientId(c, "failed") /\ ClientTold("ROUTE_ERROR", c)
    /\ UNCHANGED <<client, server, sst, schan, meta>>

\* The request is on its way, and stays so when rdma_disconnect puts the
\* client's queue pair into error.  (A connection that has failed before it was
\* requested has no receive posted.)
Requesting(c) ==
    /\ sst[c] = "none"
    /\ cst[c] = "connect" \/ (cst[c] = "failed" /\ c \in crq)

\* The request reaches the server, be the client still there or not.
cm_request(c) ==
    /\ Requesting(c) /\ ~ServerGone
    /\ ServerId(c, "requested")
    /\ ServerTold("CONNECT_REQUEST", c)
    /\ UNCHANGED <<client, server, cst, cchan, meta>>

\* The request is lost as often as it is sent.
cm_unreachable(c) ==
    /\ MayFail("unreachable")
    /\ Requesting(c) /\ ~ClientGone
    /\ ServerId(c, "failed")
    /\ ClientTold("UNREACHABLE", c)
    /\ UNCHANGED <<client, server, cst, schan, meta>>

\* The reply reaches the client.
cm_reply(c) ==
    /\ sst[c] = "accepted" /\ ~ServerGone /\ ~ClientGone
    /\ ServerId(c, "replied")
    /\ ClientTold("CONNECT_RESPONSE", c)
    /\ UNCHANGED <<client, server, cst, schan, meta>>

\* The ready-to-use message reaches the server.
cm_ready(c) ==
    /\ cst[c] \in {"established", "disconnecting"}
    /\ sst[c] = "replied" /\ ~ServerGone
    /\ ServerId(c, "established")
    /\ ServerTold("ESTABLISHED", c)
    /\ UNCHANGED <<client, server, cst, cchan, meta>>

\* The rejection reaches the client.
cm_reject(c) ==
    /\ sst[c] = "rejected" /\ ~ClientGone
    /\ ServerId(c, "failed")
    /\ ClientTold("REJECTED", c)
    /\ UNCHANGED <<client, server, cst, schan, meta>>

\* The client's disconnect request reaches the server: rdma_disconnect sent it,
\* or the end of the client.  It may overtake the ready-to-use message.
cm_disconnect(c) ==
    /\ cst[c] \in {"disconnecting", "disconnected"} \/ (cst[c] = "established" /\ ClientGone)
    /\ sst[c] \in {"replied", "established"} /\ ~ServerGone
    /\ ServerId(c, "disconnected")
    /\ ServerTold("DISCONNECTED", c)
    /\ UNCHANGED <<client, server, cst, cchan, meta>>

\* The client's disconnect request is answered, or not answered in time.
cm_disconnected(c) ==
    /\ cst[c] = "disconnecting" /\ ~ClientGone
    /\ ClientId(c, "disconnected")
    /\ ClientTold("DISCONNECTED", c)
    /\ UNCHANGED <<client, server, sst, schan, meta>>

\* A client that has gone, or will never be ready, ends the server's attempt;
\* of a request the server has not looked at yet it learns when it accepts.
cm_abandoned(c) ==
    /\ ~ServerGone
    /\ cst[c] \in {"connect", "failed"}
    /\ \/ ClientGone /\ sst[c] \in {"requested", "accepted", "replied"}
       \/ cst[c] = "failed" /\ sst[c] = "replied"
    /\ ServerId(c, "failed")
    /\ IF sst[c] = "requested" THEN UNCHANGED schan ELSE ServerTold("REJECTED", c)
    /\ UNCHANGED <<client, server, cst, cchan, meta>>

\* A server that has gone rejects what is not established and disconnects
\* what is.
cm_server_gone(c) ==
    /\ ServerGone /\ ~ClientGone
    /\ Requesting(c) \/ sst[c] \in {"requested", "accepted", "replied", "established"}
    /\ ServerId(c, "failed")
    /\ CASE cst[c] \in {"connect", "failed"} -> ClientId(c, "failed") /\ ClientTold("REJECTED", c)
         [] cst[c] = "established" -> ClientId(c, "disconnected") /\ ClientTold("DISCONNECTED", c)
         [] OTHER -> UNCHANGED <<cst, cchan>>
    /\ UNCHANGED <<client, server, schan, meta>>

\* The metadata reaches the receive that waits for it.
nic_metadata(c) ==
    /\ meta[c].at = "sent" /\ c \in crq
    /\ cst[c] = "established" /\ ~ClientGone /\ ~ServerGone
    /\ meta' = [meta EXCEPT ![c].at = "received"]
    /\ UNCHANGED <<client, server, ids, channels>>

cm(c) ==
    /\ \/ cm_address(c) \/ cm_route(c)
       \/ cm_request(c) \/ cm_unreachable(c) \/ cm_reply(c) \/ cm_ready(c) \/ cm_reject(c)
       \/ cm_disconnect(c) \/ cm_disconnected(c)
       \/ cm_abandoned(c) \/ cm_server_gone(c)
       \/ nic_metadata(c)
    /\ UNCHANGED setup

Finished == ClientGone /\ ServerGone /\ UNCHANGED vars

Next ==
    \/ run_client
    \/ run_server
    \/ \E c \in Conns : cm(c)
    \/ Finished

Spec == Init /\ [][Next]_vars

\* The two processes run, and the connection manager does not sit on a
\* message for ever.
Fairness ==
    /\ WF_vars(run_client)
    /\ WF_vars(run_server)
    /\ \A c \in Conns : WF_vars(cm(c))

FairSpec == Spec /\ Fairness

----------------------------------------------------------------------------
(* Properties.                                                             *)

\* The workers start on connections that are established at both ends, with
\* the metadata of a server node of their own: no two connections write to the
\* same part of the server's memory.
MetadataPaired ==
    cphase = "running" =>
        /\ cconn = Conns
        /\ \A c \in Conns : meta[c] = [about |-> node[c], at |-> "received"]
        /\ \A c, d \in Conns : node[c] = node[d] => c = d

\* A SEND never meets an empty receive queue, which would end the connection
\* (rnr_retry_count is 0): the client's receive is there before the metadata
\* is sent, the server's before the client's workers run.
ReceivesFirst ==
    /\ \A c \in Conns : meta[c].at = "sent" /\ cst[c] = "established" => c \in crq
    /\ cphase = "running" /\ PostsFirst => srq = Conns

Pending(chan, event) == {c \in Conns : \E k \in 1 .. Len(chan) : chan[k] = <<event, c>>}

\* The client's disconnects_left is the number of its connections that have
\* not been reported disconnected.
DisconnectsCounted ==
    cdisc = Cardinality({c \in cconn : cst[c] # "disconnected" \/ c \in Pending(cchan, "DISCONNECTED")})

\* A client that succeeds has had all its connections, all its metadata, and
\* every disconnect.
SuccessIsComplete ==
    ClientGone /\ ~cret =>
        /\ cconn = Conns
        /\ \A c \in Conns : meta[c].at = "received" /\ cst[c] = "disconnected"

\* A server that has begun to serve ends when every client has disconnected
\* ("wait for disconnects").
ServerWaits ==
    ServerGone /\ (\A n \in Nodes : \E c \in Conns : meta[c].about = n) =>
        \A c \in sconn : sst[c] = "disconnected"

\* It does with a node for every connection of the client.
DisconnectsAwaited == ClientConnections <= nodes => ServerWaits

\* Both programs end when nothing fails, even if the client asks for more
\* connections than the server has nodes.
BothEnd == sound => <>(ClientGone /\ ServerGone)

\* A client that waits for its disconnects ends.
ClientDrains == cphase = "drain" ~> ClientGone
=============================================================================
