---------------------------- MODULE NodeResources ----------------------------
(***************************************************************************)
(* What the nodes of a benchmark own: alloc_nodes, init_node with the      *)
(* create_ functions it calls, destroy_nodes and destroy_node, with a      *)
(* failure at any of the calls.  One thread does all of it, so init_node   *)
(* is one step; destroy_node is a step for each release.                   *)
(***************************************************************************)
EXTENDS Naturals, Sequences

CONSTANTS Programs,     \* of "ws" (wsbenchmark), "wi", and "one_sided" (the other three)
          Connections,  \* its -c
          Sizes,        \* its -S
          MappedLens,   \* lengths of the file it maps with --pmem
          Width,        \* bits of an unsigned int, in which offsets are computed
          Faults        \* the calls that may fail, by what they would acquire

Device == {"pd", "comp_channel", "send_cq", "recv_cq", "qp", "metadata_mr",
           "flush_request_mr", "flush_notification_mr", "mr", "src_mem_mr"}
Heap == {"stats", "metadata", "flush_request", "flush_notification", "mem", "src_mem"}

ASSUME NodeResourcesAssumption ==
    /\ Programs \subseteq {"ws", "wi", "one_sided"}
    /\ Connections \in Nat \ {0}
    /\ Sizes \subseteq Nat \ {0} /\ MappedLens \subseteq Nat
    /\ Width \in Nat
    /\ Faults \subseteq Device \cup Heap \cup {"id", "pmem", "is_pmem", "accept"}

Nodes == 1 .. Connections

VARIABLES program,         \* the benchmark that runs
          is_client,       \* it was started with -s
          use_pmem,        \* it was started with --pmem
          message_size,    \* it was started with -S
          pmem_mapped_len  \* the length of the file

VARIABLES pc,      \* "alloc", "unwind", "run", "destroy", "exit" or "crashed"
          i,       \* the index of the loop it is in
          ret,     \* ret of alloc_nodes: "unset", "ok" or "error"
          id,      \* nodes whose cma_id is set
          started, \* nodes init_node has been called for
          fields,  \* the fields of each node that are not NULL
          live,    \* what each node has acquired and not released
          release  \* what destroy_node has still to do to node i

arguments == <<program, is_client, use_pmem, message_size, pmem_mapped_len>>
vars == <<arguments, pc, i, ret, id, started, fields, live, release>>

TypeOK ==
    /\ program \in Programs /\ is_client \in BOOLEAN /\ use_pmem \in BOOLEAN
    /\ message_size \in Sizes /\ pmem_mapped_len \in MappedLens
    /\ pc \in {"alloc", "unwind", "run", "destroy", "exit", "crashed"}
    /\ i \in 0 .. Connections + 1
    /\ ret \in {"unset", "ok", "error"}
    /\ id \subseteq Nodes /\ started \subseteq Nodes
    /\ fields \in [Nodes -> SUBSET (Device \cup Heap)]
    /\ live \in [Nodes -> SUBSET (Device \cup Heap)]
    /\ release \in Seq([field : Device \cup Heap, what : Device \cup Heap])

Init ==
    /\ program \in Programs
    /\ is_client \in BOOLEAN
    /\ use_pmem \in IF program = "wi" THEN {FALSE} ELSE BOOLEAN
    /\ message_size \in Sizes /\ pmem_mapped_len \in MappedLens
    /\ ~use_pmem => \A n \in Sizes : message_size <= n
    /\ ~use_pmem => \A n \in MappedLens : pmem_mapped_len <= n
    /\ pc = "alloc" /\ i = 1 /\ ret = "unset"
    /\ id = {} /\ started = {}
    /\ fields = [n \in Nodes |-> {}]
    /\ live = [n \in Nodes |-> {}]
    /\ release = <<>>

MayFail(call) == call \in Faults

----------------------------------------------------------------------------
(* alloc_nodes.                                                            *)

\* rdma_create_id, for each node of a client.
create_id ==
    /\ pc = "alloc" /\ i <= Connections
    /\ \/ /\ id' = IF is_client THEN id \cup {i} ELSE id
          /\ ret' = IF is_client THEN "ok" ELSE ret
          /\ i' = i + 1 /\ UNCHANGED pc
       \/ /\ is_client /\ MayFail("id")
          /\ ret' = "error"
          /\ pc' = "unwind" /\ i' = i - 1 /\ UNCHANGED id
    /\ UNCHANGED <<arguments, started, fields, live, release>>

\* message_size is unsigned, so are its products with an int.
Product(n) == (message_size * n) % (2 ^ Width)

\* Bug: the file is only compared with the region of one node.
BugFitsOne == pmem_mapped_len >= message_size

Fits == pmem_mapped_len >= Product(Connections)

\* pmem_map_file and the test of the length; their failure leaves ret as it is.
map_pmem ==
    /\ pc = "alloc" /\ i > Connections
    /\ \/ /\ use_pmem => Fits
          /\ pc' = "run" /\ i' = 1
       \/ /\ use_pmem /\ (MayFail("pmem") \/ ~Fits)
          /\ pc' = "unwind" /\ i' = i - 1
    /\ UNCHANGED <<arguments, ret, id, started, fields, live, release>>

\* rdma_destroy_id of each node so far, then free(test.nodes).  A server's
\* cma_id is still NULL.  A return of 0 sends main on with the freed nodes.
unwind ==
    /\ pc = "unwind"
    /\ IF i > 0
       THEN /\ i' = i - 1
            /\ id' = id \ {i}
            /\ pc' = IF i \in id THEN pc ELSE "crashed"
       ELSE /\ pc' = IF ret = "error" THEN "exit" ELSE "crashed"
            /\ UNCHANGED <<i, id>>
    /\ UNCHANGED <<arguments, ret, started, fields, live, release>>

----------------------------------------------------------------------------
(* init_node, called when a connection's route is resolved (client) or its *)
(* request arrives (server).                                               *)

create_flush_buffers ==
    CASE program = "ws" -> <<{"flush_request"}, {"flush_request_mr"},
                             {"flush_notification"}, {"flush_notification_mr"}>>
      [] program = "wi" -> <<{"flush_notification"}, {"flush_notification_mr"}>>
      [] OTHER -> <<>>

create_metadata == <<{"metadata"}, {"metadata_mr"}>>

create_message == <<{"mem"}, {"mr"}, {"src_mem"}, {"src_mem_mr"}>>

create_comp_channel == IF program = "ws" THEN <<{"comp_channel"}>> ELSE <<>>

\* The calls of init_node in order; both completion queues are tested at once.
Calls == <<{"stats"}, {"pd"}>> \o create_comp_channel \o <<{"send_cq", "recv_cq"}, {"qp"}>>
         \o create_metadata \o create_flush_buffers \o create_message

Before(k) == UNION {Calls[j] : j \in 1 .. k - 1}

\* Bug: create_message frees the first buffer, too, when it cannot allocate the
\* second.
BugFreesMem(call) ==
    CASE call = {"metadata_mr"} -> {"metadata"}
      [] call = {"flush_request_mr"} -> {"flush_request"}
      [] call = {"flush_notification_mr"} -> {"flush_request", "flush_notification"}
      [] call \in {{"mr"}, {"src_mem"}, {"src_mem_mr"}} -> IF use_pmem THEN {} ELSE {"mem"}
      [] OTHER -> {}

\* What the failing call's function frees on its way out, its field not reset.
FreedOnError(call) ==
    CASE call = {"metadata_mr"} -> {"metadata"}
      [] call = {"flush_request_mr"} -> {"flush_request"}
      [] call = {"flush_notification_mr"} -> {"flush_request", "flush_notification"}
      [] call \in {{"mr"}, {"src_mem_mr"}} -> IF use_pmem THEN {} ELSE {"mem"}
      [] OTHER -> {}

\* With --pmem create_message points mem into the mapped file and fails if the
\* file is not on persistent memory.
CallFails(call) ==
    IF call = "mem" /\ use_pmem THEN MayFail("is_pmem") ELSE MayFail(call)

SetOnError(call) == IF call = {"mem"} /\ use_pmem THEN {"mem"} ELSE {}

Acquired(n, got, freed) ==
    /\ fields' = [fields EXCEPT ![n] = got]
    /\ live' = [live EXCEPT ![n] = got \ freed]

Started(n) ==
    /\ n \notin started
    /\ started' = started \cup {n}

init_node(n) ==
    /\ pc = "run"
    /\ Started(n)
    /\ Acquired(n, Before(Len(Calls) + 1), {})
    /\ id' = id \cup {n}
    /\ UNCHANGED <<arguments, pc, i, ret, release>>

\* The event loop ends; a client may start more nodes while it disconnects, a
\* server forgets the cm_id of the node.  ibv_req_notify_cq fails like
\* rdma_create_qp, with what was acquired before.
init_node_fails(n, k) ==
    /\ pc = "run"
    /\ Started(n)
    /\ \E failed \in (SUBSET Calls[k]) \ {{}} :
         /\ \A call \in failed : CallFails(call)
         /\ Acquired(n, Before(k) \cup (Calls[k] \ failed) \cup SetOnError(Calls[k]),
                     FreedOnError(Calls[k]))
    /\ id' = IF is_client THEN id ELSE id \ {n}
    /\ pc' = IF is_client THEN "run" ELSE "destroy"
    /\ UNCHANGED <<arguments, i, ret, release>>

\* After init_node a server cannot post its first receive or accept.  (A client
\* that cannot post or connect keeps its node: run_ends.)
connect_handler_fails(n) ==
    /\ pc = "run" /\ ~is_client /\ MayFail("accept")
    /\ Started(n)
    /\ Acquired(n, Before(Len(Calls) + 1), {})
    /\ id' = id \ {n}
    /\ pc' = "destroy"
    /\ UNCHANGED <<arguments, i, ret, release>>

\* The benchmark is over.
run_ends ==
    /\ pc = "run"
    /\ pc' = "destroy"
    /\ UNCHANGED <<arguments, i, ret, id, started, fields, live, release>>

----------------------------------------------------------------------------
(* destroy_node.  Each release is made if a field, not always the one that *)
(* is released, is not NULL.                                               *)

If(field, what) == [field |-> field, what |-> what]

FreeMem == IF use_pmem THEN <<>> ELSE <<If("mem", "mem")>>

\* Bugs: the buffer is freed before its region is deregistered; the protection
\* domain is deallocated first of all.
BugFreeFirst ==
    <<If("qp", "qp"), If("send_cq", "send_cq"), If("recv_cq", "recv_cq")>>
    \o FreeMem
    \o <<If("mem", "mr"),
         If("src_mem", "src_mem_mr"), If("src_mem", "src_mem"),
         If("metadata", "metadata_mr"), If("metadata", "metadata"),
         If("stats", "stats"), If("pd", "pd")>>

BugPdFirst ==
    <<If("pd", "pd"), If("qp", "qp"), If("send_cq", "send_cq"), If("recv_cq", "recv_cq"),
      If("mem", "mr")>>
    \o FreeMem
    \o <<If("src_mem", "src_mem_mr"), If("src_mem", "src_mem"),
         If("metadata", "metadata_mr"), If("metadata", "metadata"),
         If("stats", "stats")>>

Releases ==
    <<If("qp", "qp"), If("send_cq", "send_cq"), If("recv_cq", "recv_cq"),
      If("mem", "mr")>>
    \o FreeMem
    \o <<If("src_mem", "src_mem_mr"), If("src_mem", "src_mem"),
         If("metadata", "metadata_mr"), If("metadata", "metadata"),
         If("stats", "stats"), If("pd", "pd")>>

\* Bug: the loop does not stop.
BugNextNode ==
    /\ pc = "destroy" /\ release = <<>>
    /\ IF i \in id
       THEN release' = Releases /\ UNCHANGED i
       ELSE i' = i + 1 /\ UNCHANGED release
    /\ UNCHANGED <<arguments, pc, ret, id, started, fields, live>>

\* destroy_nodes: the next node, if it has a cm_id.
next_node ==
    /\ pc = "destroy" /\ release = <<>> /\ i <= Connections
    /\ IF i \in id
       THEN release' = Releases /\ UNCHANGED i
       ELSE i' = i + 1 /\ UNCHANGED release
    /\ UNCHANGED <<arguments, pc, ret, id, started, fields, live>>

\* What must be gone before the device lets go of an object.
Blocks(what) ==
    CASE what = "pd" -> Device \ {"pd", "comp_channel", "send_cq", "recv_cq"}
      [] what \in {"send_cq", "recv_cq"} -> {"qp"}
      [] OTHER -> {}

\* One release.  A call that the device refuses has no effect; releasing what
\* is not there (a NULL region, a pointer freed before) is undefined.
destroy_node ==
    /\ pc = "destroy" /\ release # <<>>
    /\ LET this == Head(release) IN
         IF this.field \notin fields[i] THEN UNCHANGED <<live, pc>>
         ELSE IF this.what \notin live[i] THEN pc' = "crashed" /\ UNCHANGED live
         ELSE /\ live' = [live EXCEPT ![i] = IF Blocks(this.what) \cap @ = {} THEN @ \ {this.what} ELSE @]
              /\ UNCHANGED pc
    /\ release' = Tail(release)
    /\ IF Len(release) = 1 THEN i' = i + 1 /\ id' = id \ {i} ELSE UNCHANGED <<i, id>>
    /\ UNCHANGED <<arguments, ret, started, fields>>

free_nodes ==
    /\ pc = "destroy" /\ release = <<>> /\ i > Connections
    /\ pc' = "exit"
    /\ UNCHANGED <<arguments, i, ret, id, started, fields, live, release>>

Stopped == pc \in {"exit", "crashed"} /\ UNCHANGED vars

Next ==
    \/ create_id
    \/ map_pmem
    \/ unwind
    \/ \E n \in Nodes : init_node(n)
    \/ \E n \in Nodes, k \in 1 .. Len(Calls) : init_node_fails(n, k)
    \/ \E n \in Nodes : connect_handler_fails(n)
    \/ run_ends
    \/ next_node
    \/ destroy_node
    \/ free_nodes
    \/ Stopped

Spec == Init /\ [][Next]_vars

----------------------------------------------------------------------------
(* Properties.                                                             *)

\* "Destroy the RDMA ID after all device resources": when destroy_node lets go
\* of a node's cm_id the device holds nothing of that node any more.  That is so
\* of the programs without flush buffers, which destroy_node knows nothing of.
IdAfterDevice ==
    [][\A n \in id \ id' :
         pc = "destroy" /\ program = "one_sided" => live'[n] \cap Device = {}]_vars

Backing == [metadata_mr |-> "metadata", flush_request_mr |-> "flush_request",
            flush_notification_mr |-> "flush_notification",
            mr |-> "mem", src_mem_mr |-> "src_mem"]

\* The regions whose registration init_node has tried, or with a file that is not
\* persistent refused to try, and not got.
Unregistered(n) == {region \in DOMAIN Backing :
                        Backing[region] \in fields[n] /\ region \notin fields[n]}

\* The region whose memory the error path of another region frees with its own.
FreedWith == [flush_request_mr |-> "flush_notification_mr", mr |-> "src_mem_mr"]

\* Whichever calls fail, the adapter has a region registered over freed memory
\* only where an error path of init_node has freed memory that an earlier call
\* had registered: flush_request when flush_notification, and mem when src_mem,
\* cannot be registered.  destroy_node never frees memory before its region.
RegistrationsBacked ==
    \A n \in Nodes, region \in DOMAIN Backing :
        region \in live[n] =>
            \/ Backing[region] \in live[n]
            \/ region \in DOMAIN FreedWith /\ FreedWith[region] \in Unregistered(n)

\* node->mem of a node with --pmem: pmem + message_size*node->id, ids from 0.
Region(n) == Product(n - 1) .. Product(n - 1) + message_size - 1

\* As long as message_size*connections does not overflow, what the nodes write
\* and persist lies in the mapped file, each node's bytes apart from another's.
RegionsInside ==
    LET mapped == {n \in Nodes : use_pmem /\ "mr" \in live[n]} IN
    message_size * Connections < 2 ^ Width =>
        \A n \in mapped :
            /\ Region(n) \subseteq 0 .. pmem_mapped_len - 1
            /\ \A m \in mapped \ {n} : Region(n) \cap Region(m) = {}

\* What destroy_node knows nothing of, or cannot release because of that.
Leaked(n) ==
    {"comp_channel", "flush_request", "flush_request_mr",
     "flush_notification", "flush_notification_mr"}
    \cup (IF use_pmem THEN {"mem"} ELSE {})
    \cup (IF {"flush_request_mr", "flush_notification_mr"} \cap live[n] # {} THEN {"pd"} ELSE {})

\* What becomes of a process one of whose calls fails, whichever it is.
\* destroy_node releases what is not there, a region that is NULL or memory freed
\* before, of no node but one without a region for its metadata, mem or src_mem;
\* of such a node it always does; and of every other node it releases
\* everything it knows of.  alloc_nodes' unwinding destroys no cm_id that is not
\* there, and sends main on with freed nodes, only if the file was the trouble.
CleanupOutcome ==
    [][LET bad(n) == Unregistered(n) \cap {"metadata_mr", "mr", "src_mem_mr"} # {} IN
       /\ pc = "destroy" /\ pc' = "crashed" => bad(i)
       /\ pc = "destroy" /\ pc' = "destroy" =>
            \A n \in id \ id' : ~bad(n) /\ live'[n] \subseteq Leaked(n)
       /\ pc = "unwind" /\ pc' = "crashed" => use_pmem /\ ret # "error"]_vars
=============================================================================
