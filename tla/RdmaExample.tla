----------------------------- MODULE RdmaExample -----------------------------
(***************************************************************************)
(* rdma-example: a client tells the server the size of its buffer, is told *)
(* the address of a buffer of that size, WRITEs its string into it, READs  *)
(* it back and compares.  The server serves one client, waits until it has *)
(* disconnected, and ends.  Each program is one thread; a second client    *)
(* may ask the server for a connection, too.  rwbenchmark's Client is the  *)
(* same class.                                                             *)
(***************************************************************************)
EXTENDS CqChannel, FiniteSets

ASSUME RdmaExampleAssumption == "none" \notin Clients

VARIABLES users,      \* the clients that are started in this run
          cpc,        \* where the main of each client is
          cchan,      \* its channel of connection events
          dst,        \* its dst buffer
          unposted,   \* the requests it has gone on without (a history)
          spc,        \* where the server's main is
          schan,      \* its channel of connection events
          peer,       \* the client it has accepted, or "none"
          buf         \* the server's buffer: "none", "zero", "written"

VARIABLES link,       \* the connection of each client
          rq,         \* a receive is posted
          flight,     \* the request on its way, or "none"
          landed      \* it has taken effect

client == <<cpc, dst, unposted>>
server == <<spc, peer>>
cm == <<cchan, schan, link>>
nic == <<rq, flight, landed>>
vars == <<sound, channel, users, client, server, cm, buf, nic>>

TypeOK ==
    /\ ChannelTypeOK
    /\ users \subseteq Clients
    /\ cpc \in [Clients -> {"init", "connecting", "exchange", "exchanging", "writing", "reading",
                            "disconnecting", "destroy_cq", "done", "failed"}]
    /\ cchan \in [Clients -> Seq({"CONNECT_RESPONSE", "REJECTED", "UNREACHABLE", "DISCONNECTED"})]
    /\ dst \in [Clients -> {"none", "zero", "written"}]
    /\ unposted \in [Clients -> SUBSET {"SEND", "WRITE", "READ"}]
    /\ spc \in {"listen", "accepted", "metadata", "sending", "serving", "destroy_cq", "done", "failed"}
    /\ schan \in Seq({"CONNECT_REQUEST", "ESTABLISHED", "REJECTED", "DISCONNECTED"} \X Clients)
    /\ peer \in Clients \cup {"none"}
    /\ buf \in {"none", "zero", "written"}
    /\ link \in [Clients -> {"none", "connect", "requested", "accepted", "replied", "ready", "up",
                             "disconnecting", "down"}]
    /\ rq \in [Processes -> BOOLEAN]
    /\ flight \in [Processes -> {"none", "SEND", "WRITE", "READ"}]
    /\ landed \in [Processes -> BOOLEAN]

\* The server listens when the clients start.
Init ==
    /\ ChannelInit
    /\ users \in SUBSET Clients
    /\ cpc = [c \in Clients |-> "init"]
    /\ cchan = [c \in Clients |-> <<>>]
    /\ dst = [c \in Clients |-> "none"]
    /\ unposted = [c \in Clients |-> {}]
    /\ spc = "listen" /\ schan = <<>> /\ peer = "none" /\ buf = "none"
    /\ link = [c \in Clients |-> "none"]
    /\ rq = [p \in Processes |-> FALSE]
    /\ flight = [p \in Processes |-> "none"]
    /\ landed = [p \in Processes |-> FALSE]

ClientGone(c) == cpc[c] \in {"done", "failed"}
ServerGone == spc \in {"done", "failed"}

ClientGoto(c, pc) == cpc' = [cpc EXCEPT ![c] = pc]
Link(c, state) == link' = [link EXCEPT ![c] = state]
ClientTold(c, event) == cchan' = [cchan EXCEPT ![c] = Append(@, event)]
ServerTold(event, c) == schan' = Append(schan, <<event, c>>)

PostRecv(p) == rq' = [rq EXCEPT ![p] = TRUE]

PostSend(p, op) ==
    /\ flight' = [flight EXCEPT ![p] = op]
    /\ landed' = [landed EXCEPT ![p] = FALSE]
    /\ UNCHANGED rq

----------------------------------------------------------------------------
(* The client.  process_rdma_cm_event ends the client with any event but   *)
(* the one it expects.                                                     *)

\* Client::init up to rdma_connect.
client_init(c) ==
    /\ c \in users /\ cpc[c] = "init"
    /\ CreateCq(c) /\ PostRecv(c)
    /\ Link(c, "connect")
    /\ ClientGoto(c, "connecting")
    /\ UNCHANGED <<sound, users, dst, unposted, server, cchan, schan, buf, flight, landed>>

\* One of its calls fails, or address or route are not resolved.
client_init_fails(c) ==
    /\ c \in users /\ cpc[c] = "init"
    /\ MayFail("client")
    /\ ClientGoto(c, "failed")
    /\ UNCHANGED <<sound, channel, users, dst, unposted, server, cm, buf, nic>>

\* The event librdmacm makes ESTABLISHED of, with the ready-to-use message, when
\* it is fetched.
client_established(c) ==
    /\ cpc[c] = "connecting" /\ cchan[c] # <<>>
    /\ cchan' = [cchan EXCEPT ![c] = Tail(@)]
    /\ link' = [link EXCEPT ![c] = IF @ = "replied" THEN "ready" ELSE @]
    /\ ClientGoto(c, IF Head(cchan[c]) = "CONNECT_RESPONSE" THEN "exchange" ELSE "failed")
    /\ UNCHANGED <<sound, channel, users, dst, unposted, server, schan, buf, nic>>

\* A request is posted and n completions are awaited.
Request(c, op, n, pc) ==
    /\ PostSend(c, op)
    /\ Await(c, n)
    /\ ClientGoto(c, pc)
    /\ UNCHANGED <<sound, users, dst, unposted, server, cm, buf>>

exchange_metadata_with_server(c) ==
    /\ cpc[c] = "exchange"
    /\ Request(c, "SEND", 2, "exchanging")

send_write(c) ==
    /\ cpc[c] = "exchanging" /\ Returned(c, "success")
    /\ Request(c, "WRITE", 1, "writing")

\* Bug: client_send_wr, which all requests share, keeps the last opcode.
BugStaleOpcode(c) ==
    /\ cpc[c] = "writing" /\ Returned(c, "success")
    /\ Request(c, "WRITE", 1, "reading")

send_read(c) ==
    /\ cpc[c] = "writing" /\ Returned(c, "success")
    /\ Request(c, "READ", 1, "reading")

\* A registration or a post fails, or a completion is bad: main returns.
client_fails(c) ==
    /\ \/ MayFail("client") /\ cpc[c] = "exchange"
       \/ MayFail("client") /\ cpc[c] \in {"exchanging", "writing"} /\ Returned(c, "success")
       \/ cpc[c] \in {"exchanging", "writing", "reading"} /\ Returned(c, "error")
    /\ ClientGoto(c, "failed")
    /\ UNCHANGED <<sound, channel, users, dst, unposted, server, cm, buf, nic>>

GoesWithout(c, op, pc) ==
    /\ unposted' = [unposted EXCEPT ![c] = @ \cup {op}]
    /\ ClientGoto(c, pc)

\* ibv_post_send fails, and the method returns -errno.  Verbs return their error
\* and need not set errno: if it is 0, main goes on as if all had been done.
client_goes_on(c) ==
    /\ MayFail("client")
    /\ \/ cpc[c] = "exchange" /\ GoesWithout(c, "SEND", "exchanging")
       \/ cpc[c] = "exchanging" /\ Returned(c, "success") /\ GoesWithout(c, "WRITE", "writing")
       \/ cpc[c] = "writing" /\ Returned(c, "success") /\ GoesWithout(c, "READ", "reading")
    /\ Goto(c, "success")
    /\ UNCHANGED <<sound, cq, armed, events, unacked, max_wc, wc>>
    /\ UNCHANGED <<users, dst, server, cm, buf, nic>>

\* cmp_data, and rdma_disconnect.
client_disconnect(c) ==
    /\ cpc[c] = "reading" /\ Returned(c, "success")
    /\ link' = [link EXCEPT ![c] = IF @ = "down" THEN @ ELSE "disconnecting"]
    /\ ClientGoto(c, "disconnecting")
    /\ UNCHANGED <<sound, channel, users, dst, unposted, server, cchan, schan, buf, nic>>

\* The event has come; cleanup goes on whatever it is.
client_disconnected(c) ==
    /\ cpc[c] = "disconnecting" /\ cchan[c] # <<>>
    /\ cchan' = [cchan EXCEPT ![c] = Tail(@)]
    /\ ClientGoto(c, "destroy_cq")
    /\ UNCHANGED <<sound, channel, users, dst, unposted, server, schan, link, buf, nic>>

\* ibv_destroy_cq waits until all events are acknowledged; the rest of cleanup.
client_destroy(c) ==
    /\ cpc[c] = "destroy_cq" /\ unacked[c] = 0
    /\ ClientGoto(c, "done")
    /\ UNCHANGED <<sound, channel, users, dst, unposted, server, cm, buf, nic>>

main_client(c) ==
    \/ client_init(c) \/ client_init_fails(c)
    \/ client_established(c)
    \/ exchange_metadata_with_server(c)
    \/ send_write(c)
    \/ send_read(c)
    \/ client_fails(c)
    \/ client_goes_on(c)
    \/ client_disconnect(c)
    \/ client_disconnected(c)
    \/ client_destroy(c)

----------------------------------------------------------------------------
(* The server.                                                             *)

ServerGets(event, c) ==
    /\ schan # <<>> /\ Head(schan) = <<event, c>>
    /\ schan' = Tail(schan)

\* Bug: the receive is posted after rdma_accept, that is, too late.
BugNoReceive(c) ==
    /\ spc = "listen" /\ ServerGets("CONNECT_REQUEST", c)
    /\ link[c] = "requested"
    /\ CreateCq("server")
    /\ Link(c, "accepted")
    /\ peer' = c
    /\ spc' = "accepted"
    /\ UNCHANGED <<sound, users, client, cchan, buf, nic>>

\* Server::init from the request to rdma_accept.
server_accept(c) ==
    /\ spc = "listen" /\ ServerGets("CONNECT_REQUEST", c)
    /\ link[c] = "requested"
    /\ CreateCq("server") /\ PostRecv("server")
    /\ Link(c, "accepted")
    /\ peer' = c
    /\ spc' = "accepted"
    /\ UNCHANGED <<sound, users, client, cchan, buf, flight, landed>>

\* A call fails; rdma_accept does if the client has given up.
server_accept_fails(c) ==
    /\ spc = "listen" /\ ServerGets("CONNECT_REQUEST", c)
    /\ MayFail("server") \/ link[c] = "down"
    /\ spc' = "failed"
    /\ UNCHANGED <<sound, channel, users, client, peer, cchan, link, buf, nic>>

\* The second part of Server::init, and exchange_metadata_with_client up to
\* the receive.
server_established(c) ==
    /\ spc = "accepted" /\ ServerGets("ESTABLISHED", c)
    /\ Await("server", 1)
    /\ spc' = "metadata"
    /\ UNCHANGED <<sound, users, client, peer, cchan, link, buf, nic>>

\* The client's metadata is here: rdma_buffer_alloc and the SEND.
exchange_metadata_with_client ==
    /\ spc = "metadata" /\ Returned("server", "success")
    /\ buf' = "zero"
    /\ PostSend("server", "SEND")
    /\ Await("server", 1)
    /\ spc' = "sending"
    /\ UNCHANGED <<sound, users, client, peer, cm>>

\* The SEND is not posted, and main goes on, as client_goes_on does.
server_goes_on ==
    /\ MayFail("server")
    /\ spc = "metadata" /\ Returned("server", "success")
    /\ buf' = "zero"
    /\ spc' = "serving"
    /\ UNCHANGED <<sound, channel, users, client, peer, cm, nic>>

\* print_buffer, whatever it holds.
print_buffer ==
    /\ spc = "sending" /\ Returned("server", "success")
    /\ spc' = "serving"
    /\ UNCHANGED <<sound, channel, users, client, peer, cm, buf, nic>>

\* Bug: the server does not wait for the client to disconnect.
BugNotAwaited(c) ==
    /\ spc = "serving" /\ c = peer
    /\ Link(c, "down")
    /\ spc' = "destroy_cq"
    /\ buf' = "none"
    /\ UNCHANGED <<sound, channel, users, client, peer, cchan, schan, nic>>

\* Server::cleanup: the queue pair and its id go first, and no request of the
\* client finds the server any more.
server_disconnected(c) ==
    /\ spc = "serving" /\ ServerGets("DISCONNECTED", c)
    /\ Link(c, "down")
    /\ spc' = "destroy_cq"
    /\ buf' = "none"
    /\ UNCHANGED <<sound, channel, users, client, peer, cchan, nic>>

server_destroy ==
    /\ spc = "destroy_cq" /\ unacked["server"] = 0
    /\ spc' = "done"
    /\ UNCHANGED <<sound, channel, users, client, peer, cm, buf, nic>>

Expected == [listen |-> "CONNECT_REQUEST", accepted |-> "ESTABLISHED", serving |-> "DISCONNECTED"]

\* An event that is not the one expected, such as the request of a second client.
Unexpected ==
    /\ spc \in DOMAIN Expected
    /\ schan # <<>> /\ Head(schan)[1] # Expected[spc]
    /\ schan' = Tail(schan)

\* main returns.
server_unexpected ==
    /\ Unexpected
    /\ spc' = "failed"
    /\ UNCHANGED <<sound, channel, users, client, peer, cchan, link, buf, nic>>

\* Server::init returns -errno for it where it waits for ESTABLISHED, though no
\* call has failed: if errno is 0, main goes on without the event.
server_mistaken ==
    /\ spc = "accepted" /\ Unexpected
    /\ Await("server", 1)
    /\ spc' = "metadata"
    /\ UNCHANGED <<sound, users, client, peer, cchan, link, buf, nic>>

\* A completion is bad, or buffer or registration fail: main returns.
server_fails ==
    /\ spc \in {"metadata", "sending"}
    /\ \/ Returned("server", "error")
       \/ MayFail("server") /\ spc = "metadata" /\ Returned("server", "success")
    /\ spc' = "failed"
    /\ UNCHANGED <<sound, channel, users, client, peer, cm, buf, nic>>

main_server ==
    \/ \E c \in Clients :
         \/ server_accept(c) \/ server_accept_fails(c)
         \/ server_established(c)
         \/ server_disconnected(c)
    \/ exchange_metadata_with_client
    \/ server_goes_on
    \/ print_buffer
    \/ server_destroy
    \/ server_unexpected \/ server_mistaken
    \/ server_fails

\* A process in process_work_completion_events, until it is gone.
Waiting(p) == IF p = "server" THEN ~ServerGone ELSE ~ClientGone(p)

wait(p) ==
    /\ Waiting(p)
    /\ process_work_completion_events(p)
    /\ UNCHANGED <<sound, users, client, server, cm, buf, nic>>

----------------------------------------------------------------------------
(* The connection manager.                                                 *)

cm_request(c) ==
    /\ link[c] = "connect" /\ ~ServerGone
    /\ Link(c, "requested")
    /\ ServerTold("CONNECT_REQUEST", c)
    /\ UNCHANGED cchan

\* The server does not answer in time: it looks at one client only.
cm_unreachable(c) ==
    /\ link[c] = "requested"
    /\ MayFail("fabric") \/ peer \notin {"none", c}
    /\ Link(c, "down")
    /\ ClientTold(c, "UNREACHABLE")
    /\ UNCHANGED schan

cm_reply(c) ==
    /\ link[c] = "accepted" /\ ~ServerGone
    /\ Link(c, "replied")
    /\ ClientTold(c, "CONNECT_RESPONSE")
    /\ UNCHANGED schan

\* The reply is lost.
cm_reply_lost(c) ==
    /\ link[c] = "accepted" /\ ~ServerGone
    /\ MayFail("fabric")
    /\ Link(c, "down")
    /\ ClientTold(c, "UNREACHABLE")
    /\ ServerTold("REJECTED", c)

cm_ready(c) ==
    /\ link[c] = "ready" /\ ~ServerGone /\ ~ClientGone(c)
    /\ Link(c, "up")
    /\ ServerTold("ESTABLISHED", c)
    /\ UNCHANGED cchan

\* A client that disconnects, or ends, tells the server and is answered.
cm_disconnect(c) ==
    /\ link[c] = "disconnecting" \/ (ClientGone(c) /\ link[c] \in {"replied", "ready", "up"})
    /\ ~ServerGone
    /\ Link(c, "down")
    /\ ServerTold("DISCONNECTED", c)
    /\ ClientTold(c, "DISCONNECTED")

cm_server_gone(c) ==
    /\ ServerGone /\ ~ClientGone(c)
    /\ link[c] \notin {"none", "down"}
    /\ Link(c, "down")
    /\ ClientTold(c, IF link[c] \in {"replied", "ready", "up", "disconnecting"} THEN "DISCONNECTED"
                     ELSE "REJECTED")
    /\ UNCHANGED schan

connection(c) ==
    /\ \/ cm_request(c) \/ cm_unreachable(c)
       \/ cm_reply(c) \/ cm_reply_lost(c)
       \/ cm_ready(c)
       \/ cm_disconnect(c)
       \/ cm_server_gone(c)
    /\ UNCHANGED <<sound, channel, users, client, server, buf, nic>>

----------------------------------------------------------------------------
(* The adapters.                                                           *)

Peer(p) == IF p = "server" THEN peer ELSE "server"

\* The queue pair a request of p goes to still works.
Reachable(p) ==
    IF p = "server"
    THEN ~ClientGone(peer) /\ cpc[peer] \notin {"disconnecting", "destroy_cq"}
    ELSE peer = p /\ spc \in {"accepted", "metadata", "sending", "serving"}

InFlight(p, op) == flight[p] = op /\ ~landed[p] /\ Reachable(p)

Lands(p) == landed' = [landed EXCEPT ![p] = TRUE] /\ UNCHANGED flight

nic_send(p) ==
    /\ InFlight(p, "SEND") /\ rq[Peer(p)]
    /\ rq' = [rq EXCEPT ![Peer(p)] = FALSE]
    /\ Complete(Peer(p), <<"success">>)
    /\ Lands(p)
    /\ UNCHANGED <<dst, buf>>

nic_write(p) ==
    /\ InFlight(p, "WRITE") /\ buf # "none"
    /\ buf' = "written"
    /\ Lands(p)
    /\ UNCHANGED <<channel, rq, dst>>

nic_read(p) ==
    /\ InFlight(p, "READ") /\ buf # "none"
    /\ dst' = [dst EXCEPT ![p] = buf]
    /\ Lands(p)
    /\ UNCHANGED <<channel, rq, buf>>

\* A WRITE or READ of a client that has not been told the server's address: no
\* region has its key, and the server's queue pair fails, too.
Refused(p) == (InFlight(p, "WRITE") \/ InFlight(p, "READ")) /\ buf = "none"

nic_refuse(p) ==
    /\ Refused(p) /\ rq["server"]
    /\ rq' = [rq EXCEPT !["server"] = FALSE]
    /\ Complete("server", <<"error">>)
    /\ UNCHANGED <<flight, landed, dst, buf>>

nic_ack(p) ==
    /\ flight[p] # "none" /\ landed[p] /\ Waiting(p)
    /\ flight' = [flight EXCEPT ![p] = "none"]
    /\ Complete(p, <<"success">>)
    /\ UNCHANGED <<rq, landed, dst, buf>>

\* The request fails, for want of the peer or of a receive there
\* (rnr_retry_count is 0), and takes the posted receive with it.
nic_fail(p) ==
    /\ flight[p] # "none" /\ Waiting(p)
    /\ \/ MayFail("fabric")
       \/ ~landed[p] /\ ~Reachable(p)
       \/ InFlight(p, "SEND") /\ ~rq[Peer(p)]
       \/ Refused(p) /\ ~rq["server"]
    /\ flight' = [flight EXCEPT ![p] = "none"]
    /\ Complete(p, IF rq[p] THEN <<"error", "error">> ELSE <<"error">>)
    /\ rq' = [rq EXCEPT ![p] = FALSE]
    /\ UNCHANGED <<landed, dst, buf>>

adapter(p) ==
    /\ \/ nic_send(p) \/ nic_write(p) \/ nic_read(p)
       \/ nic_refuse(p) \/ nic_ack(p) \/ nic_fail(p)
    /\ UNCHANGED <<sound, users, cpc, unposted, server, cm>>

Next ==
    \/ main_server
    \/ \E c \in Clients : main_client(c) \/ connection(c)
    \/ \E p \in Processes : wait(p) \/ adapter(p)

Spec == Init /\ [][Next]_vars

\* The programs run, and neither adapters nor connection manager sit on a
\* message for ever.
Fairness ==
    /\ WF_vars(main_server)
    /\ \A c \in Clients : WF_vars(main_client(c)) /\ WF_vars(connection(c))
    /\ \A p \in Processes : WF_vars(wait(p)) /\ WF_vars(adapter(p))

FairSpec == Spec /\ Fairness

----------------------------------------------------------------------------
(* Properties.                                                             *)

\* The server's buffer is there as long as a client that has sent its metadata
\* WRITEs or READs it: a server that does not fail waits for the client to
\* disconnect, and no other client gets that far.
OneSidedServed ==
    \A c \in Clients :
        /\ flight[c] \in {"WRITE", "READ"} /\ ~ClientGone(c) /\ ~ServerGone
        /\ "SEND" \notin unposted[c]
        => peer = c /\ buf # "none"

\* The client that compares its buffers finds them equal, unless it has gone on
\* without a request: the READ takes effect behind the WRITE.
BuffersEqual ==
    \A c \in Clients :
        cpc[c] \in {"disconnecting", "destroy_cq", "done"} /\ unposted[c] = {} => dst[c] = "written"

\* With one client and without a failure both programs succeed: every wait for
\* a completion or an event ends, and ibv_destroy_cq finds every event
\* acknowledged.
BothSucceed ==
    sound /\ Cardinality(users) = 1 => <>(spc = "done" /\ \A c \in users : cpc[c] = "done")
=============================================================================
