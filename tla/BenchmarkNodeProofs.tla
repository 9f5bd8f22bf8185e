-------------------------- MODULE BenchmarkNodeProofs --------------------------
(***************************************************************************)
(* Proofs about a benchmark's nodes.  The first part is about what they    *)
(* own, NodeResources, for any number of nodes, any arguments of the       *)
(* programs, and whichever of their calls may fail.  The second part is    *)
(* about what they measure, Stats, for any number of workers, any length   *)
(* of the run and any failures of workers.                                 *)
(***************************************************************************)
EXTENDS NodeResources, Stats, Integers, FiniteSetTheorems, SequenceTheorems, TLAPS

Regions == DOMAIN Backing

----------------------------------------------------------------------------
(* The calls of init_node and the releases of destroy_node.                *)

LEMMA CallsListed ==
    /\ program = "ws" =>
         /\ Len(Calls) = 15
         /\ Calls[1] = {"stats"} /\ Calls[2] = {"pd"} /\ Calls[3] = {"comp_channel"}
         /\ Calls[4] = {"send_cq", "recv_cq"} /\ Calls[5] = {"qp"}
         /\ Calls[6] = {"metadata"} /\ Calls[7] = {"metadata_mr"}
         /\ Calls[8] = {"flush_request"} /\ Calls[9] = {"flush_request_mr"}
         /\ Calls[10] = {"flush_notification"} /\ Calls[11] = {"flush_notification_mr"}
         /\ Calls[12] = {"mem"} /\ Calls[13] = {"mr"}
         /\ Calls[14] = {"src_mem"} /\ Calls[15] = {"src_mem_mr"}
    /\ program = "wi" =>
         /\ Len(Calls) = 12
         /\ Calls[1] = {"stats"} /\ Calls[2] = {"pd"}
         /\ Calls[3] = {"send_cq", "recv_cq"} /\ Calls[4] = {"qp"}
         /\ Calls[5] = {"metadata"} /\ Calls[6] = {"metadata_mr"}
         /\ Calls[7] = {"flush_notification"} /\ Calls[8] = {"flush_notification_mr"}
         /\ Calls[9] = {"mem"} /\ Calls[10] = {"mr"}
         /\ Calls[11] = {"src_mem"} /\ Calls[12] = {"src_mem_mr"}
    /\ program = "one_sided" =>
         /\ Len(Calls) = 10
         /\ Calls[1] = {"stats"} /\ Calls[2] = {"pd"}
         /\ Calls[3] = {"send_cq", "recv_cq"} /\ Calls[4] = {"qp"}
         /\ Calls[5] = {"metadata"} /\ Calls[6] = {"metadata_mr"}
         /\ Calls[7] = {"mem"} /\ Calls[8] = {"mr"}
         /\ Calls[9] = {"src_mem"} /\ Calls[10] = {"src_mem_mr"}
<1>1. CASE program = "ws"
  BY <1>1 DEF Calls, create_comp_channel, create_metadata, create_flush_buffers, create_message
<1>2. CASE program = "wi"
  BY <1>2 DEF Calls, create_comp_channel, create_metadata, create_flush_buffers, create_message
<1>3. CASE program = "one_sided"
  BY <1>3 DEF Calls, create_comp_channel, create_metadata, create_flush_buffers, create_message
<1>. QED
  BY <1>1, <1>2, <1>3

LEMMA ReleasesListed ==
    LET n == IF use_pmem THEN 0 ELSE 1 IN
    /\ Len(Releases) = 10 + n
    /\ Releases[1] = If("qp", "qp") /\ Releases[2] = If("send_cq", "send_cq")
    /\ Releases[3] = If("recv_cq", "recv_cq") /\ Releases[4] = If("mem", "mr")
    /\ ~use_pmem => Releases[5] = If("mem", "mem")
    /\ Releases[5 + n] = If("src_mem", "src_mem_mr") /\ Releases[6 + n] = If("src_mem", "src_mem")
    /\ Releases[7 + n] = If("metadata", "metadata_mr") /\ Releases[8 + n] = If("metadata", "metadata")
    /\ Releases[9 + n] = If("stats", "stats") /\ Releases[10 + n] = If("pd", "pd")
<1>1. CASE use_pmem
  BY <1>1 DEF Releases, FreeMem
<1>2. CASE ~use_pmem
  BY <1>2 DEF Releases, FreeMem
<1>. QED
  BY <1>1, <1>2

\* What init_node may acquire is acquired by one of its calls only; a region is
\* registered by the call after the one that allocated the memory; nodes of the
\* one-sided programs have neither channel nor flush buffers.
LEMMA CallsFacts ==
    ASSUME program \in {"ws", "wi", "one_sided"},
           NEW k \in 1 .. Len(Calls)
    PROVE  /\ Calls[k] \subseteq Device \cup Heap
           /\ Calls[k] = {"send_cq", "recv_cq"} \/ \A x, y \in Calls[k] : x = y
           /\ \A j \in 1 .. k - 1 : Calls[j] \cap Calls[k] = {}
           /\ \A r \in Regions : r \in Calls[k] =>
                Calls[k] = {r} /\ k > 1 /\ Calls[k - 1] = {Backing[r]}
           /\ \A r \in Regions : Backing[r] \in Calls[k] =>
                Calls[k] = {Backing[r]} /\ k < Len(Calls) /\ Calls[k + 1] = {r}
           /\ program = "one_sided" =>
                Calls[k] \cap {"comp_channel", "flush_request_mr", "flush_notification_mr"} = {}
<1>1. CASE program = "ws"
  <2>0. k \in 1 .. 15 /\ Len(Calls) = 15
    BY <1>1, CallsListed
  <2>1. Calls[k] \subseteq Device \cup Heap
    BY <1>1, <2>0, CallsListed DEF Device, Heap, Regions, Backing
  <2>2. Calls[k] = {"send_cq", "recv_cq"} \/ \A x, y \in Calls[k] : x = y
    BY <1>1, <2>0, CallsListed DEF Device, Heap, Regions, Backing
  <2>3. \A j \in 1 .. k - 1 : Calls[j] \cap Calls[k] = {}
    BY <1>1, <2>0, CallsListed DEF Device, Heap, Regions, Backing
  <2>4. \A r \in Regions : r \in Calls[k] => Calls[k] = {r} /\ k > 1 /\ Calls[k - 1] = {Backing[r]}
    BY <1>1, <2>0, CallsListed DEF Device, Heap, Regions, Backing
  <2>5. \A r \in Regions : Backing[r] \in Calls[k] => Calls[k] = {Backing[r]} /\ k < Len(Calls) /\ Calls[k + 1] = {r}
    BY <1>1, <2>0, CallsListed DEF Device, Heap, Regions, Backing
  <2>6. program = "one_sided" => Calls[k] \cap {"comp_channel", "flush_request_mr", "flush_notification_mr"} = {}
    BY <1>1, <2>0, CallsListed DEF Device, Heap, Regions, Backing
  <2>. QED
    BY <2>1, <2>2, <2>3, <2>4, <2>5, <2>6
<1>2. CASE program = "wi"
  <2>0. k \in 1 .. 12 /\ Len(Calls) = 12
    BY <1>2, CallsListed
  <2>1. Calls[k] \subseteq Device \cup Heap
    BY <1>2, <2>0, CallsListed DEF Device, Heap, Regions, Backing
  <2>2. Calls[k] = {"send_cq", "recv_cq"} \/ \A x, y \in Calls[k] : x = y
    BY <1>2, <2>0, CallsListed DEF Device, Heap, Regions, Backing
  <2>3. \A j \in 1 .. k - 1 : Calls[j] \cap Calls[k] = {}
    BY <1>2, <2>0, CallsListed DEF Device, Heap, Regions, Backing
  <2>4. \A r \in Regions : r \in Calls[k] => Calls[k] = {r} /\ k > 1 /\ Calls[k - 1] = {Backing[r]}
    BY <1>2, <2>0, CallsListed DEF Device, Heap, Regions, Backing
  <2>5. \A r \in Regions : Backing[r] \in Calls[k] => Calls[k] = {Backing[r]} /\ k < Len(Calls) /\ Calls[k + 1] = {r}
    BY <1>2, <2>0, CallsListed DEF Device, Heap, Regions, Backing
  <2>6. program = "one_sided" => Calls[k] \cap {"comp_channel", "flush_request_mr", "flush_notification_mr"} = {}
    BY <1>2, <2>0, CallsListed DEF Device, Heap, Regions, Backing
  <2>. QED
    BY <2>1, <2>2, <2>3, <2>4, <2>5, <2>6
<1>3. CASE program = "one_sided"
  <2>0. k \in 1 .. 10 /\ Len(Calls) = 10
    BY <1>3, CallsListed
  <2>1. Calls[k] \subseteq Device \cup Heap
    BY <1>3, <2>0, CallsListed DEF Device, Heap, Regions, Backing
  <2>2. Calls[k] = {"send_cq", "recv_cq"} \/ \A x, y \in Calls[k] : x = y
    BY <1>3, <2>0, CallsListed DEF Device, Heap, Regions, Backing
  <2>3. \A j \in 1 .. k - 1 : Calls[j] \cap Calls[k] = {}
    BY <1>3, <2>0, CallsListed DEF Device, Heap, Regions, Backing
  <2>4. \A r \in Regions : r \in Calls[k] => Calls[k] = {r} /\ k > 1 /\ Calls[k - 1] = {Backing[r]}
    BY <1>3, <2>0, CallsListed DEF Device, Heap, Regions, Backing
  <2>5. \A r \in Regions : Backing[r] \in Calls[k] => Calls[k] = {Backing[r]} /\ k < Len(Calls) /\ Calls[k + 1] = {r}
    BY <1>3, <2>0, CallsListed DEF Device, Heap, Regions, Backing
  <2>6. program = "one_sided" => Calls[k] \cap {"comp_channel", "flush_request_mr", "flush_notification_mr"} = {}
    BY <1>3, <2>0, CallsListed DEF Device, Heap, Regions, Backing
  <2>. QED
    BY <2>1, <2>2, <2>3, <2>4, <2>5, <2>6
<1>. QED
  BY <1>1, <1>2, <1>3

\* What destroy_node releases: each thing once, if a field is set, its own or, of
\* a region, that of the memory; memory right after its region.
LEMMA ReleasesFacts ==
    ASSUME use_pmem \in BOOLEAN, NEW k \in 1 .. Len(Releases)
    PROVE  /\ Releases[k].field \in {"qp", "send_cq", "recv_cq", "mem", "src_mem", "metadata", "stats", "pd"}
           /\ Releases[k].what \in Device \cup Heap
           /\ \/ Releases[k].what = Releases[k].field
              \/ Releases[k].what = "mr" /\ Releases[k].field = "mem"
              \/ Releases[k].what = "src_mem_mr" /\ Releases[k].field = "src_mem"
              \/ Releases[k].what = "metadata_mr" /\ Releases[k].field = "metadata" 
           /\ \A j \in 1 .. k - 1 : Releases[j].what # Releases[k].what
           /\ \A r \in Regions : Releases[k].what = Backing[r] =>
                /\ Releases[k].field = Backing[r]
                /\ k > 1 /\ Releases[k - 1].what = r /\ Releases[k - 1].field = Backing[r]
           /\ Releases[k].what \in {"send_cq", "recv_cq"} =>
                k > 1 /\ Releases[1].what = "qp" /\ Releases[1].field = "qp"
<1>1. CASE use_pmem
  <2>0. k \in 1 .. 10 /\ Len(Releases) = 10
    BY <1>1, ReleasesListed
  <2>1. Releases[k].field \in {"qp", "send_cq", "recv_cq", "mem", "src_mem", "metadata", "stats", "pd"}
    BY <1>1, <2>0, ReleasesListed DEF If, Device, Heap, Regions, Backing
  <2>2. Releases[k].what \in Device \cup Heap
    BY <1>1, <2>0, ReleasesListed DEF If, Device, Heap, Regions, Backing
  <2>3. \/ Releases[k].what = Releases[k].field
        \/ Releases[k].what = "mr" /\ Releases[k].field = "mem"
        \/ Releases[k].what = "src_mem_mr" /\ Releases[k].field = "src_mem"
        \/ Releases[k].what = "metadata_mr" /\ Releases[k].field = "metadata" 
    <3>1. \/ Releases[k] = If("mem", "mr") \/ Releases[k] = If("src_mem", "src_mem_mr")
          \/ Releases[k] = If("metadata", "metadata_mr") \/ \E x \in Device \cup Heap : Releases[k] = If(x, x)
      BY <1>1, <2>0, ReleasesListed DEF Device, Heap
    <3>2. ASSUME NEW x, Releases[k] = If(x, x)
          PROVE  Releases[k].what = Releases[k].field
      BY <3>2 DEF If
    <3>3. Releases[k] = If("mem", "mr") => Releases[k].what = "mr" /\ Releases[k].field = "mem"
      BY DEF If
    <3>4. Releases[k] = If("src_mem", "src_mem_mr")
            => Releases[k].what = "src_mem_mr" /\ Releases[k].field = "src_mem"
      BY DEF If
    <3>5. Releases[k] = If("metadata", "metadata_mr")
            => Releases[k].what = "metadata_mr" /\ Releases[k].field = "metadata"
      BY DEF If
    <3>. QED
      BY <3>1, <3>2, <3>3, <3>4, <3>5
  <2>4. \A j \in 1 .. k - 1 : Releases[j].what # Releases[k].what
    BY <1>1, <2>0, ReleasesListed DEF If, Device, Heap, Regions, Backing
  <2>5. \A r \in Regions : Releases[k].what = Backing[r] =>
          /\ Releases[k].field = Backing[r]
          /\ k > 1 /\ Releases[k - 1].what = r /\ Releases[k - 1].field = Backing[r]
    BY <1>1, <2>0, ReleasesListed DEF If, Device, Heap, Regions, Backing
  <2>6. Releases[k].what \in {"send_cq", "recv_cq"} =>
          k > 1 /\ Releases[1].what = "qp" /\ Releases[1].field = "qp"
    BY <1>1, <2>0, ReleasesListed DEF If, Device, Heap, Regions, Backing
  <2>. QED
    BY <2>1, <2>2, <2>3, <2>4, <2>5, <2>6
<1>2. CASE ~use_pmem
  <2>0. k \in 1 .. 11 /\ Len(Releases) = 11
    BY <1>2, ReleasesListed
  <2>1. Releases[k].field \in {"qp", "send_cq", "recv_cq", "mem", "src_mem", "metadata", "stats", "pd"}
    BY <1>2, <2>0, ReleasesListed DEF If, Device, Heap, Regions, Backing
  <2>2. Releases[k].what \in Device \cup Heap
    BY <1>2, <2>0, ReleasesListed DEF If, Device, Heap, Regions, Backing
  <2>3. \/ Releases[k].what = Releases[k].field
        \/ Releases[k].what = "mr" /\ Releases[k].field = "mem"
        \/ Releases[k].what = "src_mem_mr" /\ Releases[k].field = "src_mem"
        \/ Releases[k].what = "metadata_mr" /\ Releases[k].field = "metadata" 
    <3>1. \/ Releases[k] = If("mem", "mr") \/ Releases[k] = If("src_mem", "src_mem_mr")
          \/ Releases[k] = If("metadata", "metadata_mr") \/ \E x \in Device \cup Heap : Releases[k] = If(x, x)
      BY <1>2, <2>0, ReleasesListed DEF Device, Heap
    <3>2. ASSUME NEW x, Releases[k] = If(x, x)
          PROVE  Releases[k].what = Releases[k].field
      BY <3>2 DEF If
    <3>3. Releases[k] = If("mem", "mr") => Releases[k].what = "mr" /\ Releases[k].field = "mem"
      BY DEF If
    <3>4. Releases[k] = If("src_mem", "src_mem_mr")
            => Releases[k].what = "src_mem_mr" /\ Releases[k].field = "src_mem"
      BY DEF If
    <3>5. Releases[k] = If("metadata", "metadata_mr")
            => Releases[k].what = "metadata_mr" /\ Releases[k].field = "metadata"
      BY DEF If
    <3>. QED
      BY <3>1, <3>2, <3>3, <3>4, <3>5
  <2>4. \A j \in 1 .. k - 1 : Releases[j].what # Releases[k].what
    BY <1>2, <2>0, ReleasesListed DEF If, Device, Heap, Regions, Backing
  <2>5. \A r \in Regions : Releases[k].what = Backing[r] =>
          /\ Releases[k].field = Backing[r]
          /\ k > 1 /\ Releases[k - 1].what = r /\ Releases[k - 1].field = Backing[r]
    BY <1>2, <2>0, ReleasesListed DEF If, Device, Heap, Regions, Backing
  <2>6. Releases[k].what \in {"send_cq", "recv_cq"} =>
          k > 1 /\ Releases[1].what = "qp" /\ Releases[1].field = "qp"
    BY <1>2, <2>0, ReleasesListed DEF If, Device, Heap, Regions, Backing
  <2>. QED
    BY <2>1, <2>2, <2>3, <2>4, <2>5, <2>6
<1>. QED
  BY <1>1, <1>2

\* The protection domain is last; before it goes everything on the device but
\* what destroy_node knows nothing of.
LEMMA PdLast ==
    ASSUME use_pmem \in BOOLEAN
    PROVE  /\ Len(Releases) \in Nat /\ Len(Releases) > 1
           /\ Releases \in Seq([field : Device \cup Heap, what : Device \cup Heap])
           /\ Releases[Len(Releases)].field = "pd" /\ Releases[Len(Releases)].what = "pd"
           /\ \A x \in {"qp", "send_cq", "recv_cq"} :
                \E k \in 1 .. Len(Releases) - 1 : Releases[k].what = x /\ Releases[k].field = x
           /\ \A x \in {"mr", "src_mem_mr", "metadata_mr"} :
                \E k \in 1 .. Len(Releases) - 1 :
                  Releases[k].what = x /\ Releases[k].field = Backing[x]
           /\ \A x \in {"src_mem", "metadata", "stats"} \cup (IF use_pmem THEN {} ELSE {"mem"}) :
                \E k \in 1 .. Len(Releases) - 1 : Releases[k].what = x /\ Releases[k].field = x
<1>1. CASE use_pmem
  <2>1. Len(Releases) = 10
    BY <1>1, ReleasesListed
  <2>2. Releases \in Seq([field : Device \cup Heap, what : Device \cup Heap])
    BY <1>1 DEF Releases, FreeMem, If, Device, Heap
  <2>3. Releases[10].field = "pd" /\ Releases[10].what = "pd"
    BY <1>1, <2>1, ReleasesListed DEF If, Backing
  <2>4. \A x \in {"qp", "send_cq", "recv_cq"} : \E k \in 1 .. 3 : Releases[k].what = x /\ Releases[k].field = x
    <3>1. /\ Releases[1].what = "qp" /\ Releases[1].field = "qp"
          /\ Releases[2].what = "send_cq" /\ Releases[2].field = "send_cq"
          /\ Releases[3].what = "recv_cq" /\ Releases[3].field = "recv_cq"
      BY <1>1, <2>1, ReleasesListed DEF If, Backing
    <3>. QED
      BY <3>1
  <2>5. \A x \in {"mr", "src_mem_mr", "metadata_mr"} :
          \E k \in 1 .. 8 : Releases[k].what = x /\ Releases[k].field = Backing[x]
    <3>1. /\ Releases[4].what = "mr" /\ Releases[4].field = "mem"
          /\ Releases[5].what = "src_mem_mr" /\ Releases[5].field = "src_mem"
          /\ Releases[7].what = "metadata_mr" /\ Releases[7].field = "metadata"
      BY <1>1, <2>1, ReleasesListed DEF If, Backing
    <3>. QED
      BY <3>1 DEF Backing
  <2>6. \A x \in {"src_mem", "metadata", "stats"} :
          \E k \in 1 .. 9 : Releases[k].what = x /\ Releases[k].field = x
    <3>1. /\ Releases[6].what = "src_mem" /\ Releases[6].field = "src_mem"
          /\ Releases[8].what = "metadata" /\ Releases[8].field = "metadata"
          /\ Releases[9].what = "stats" /\ Releases[9].field = "stats"
      BY <1>1, <2>1, ReleasesListed DEF If
    <3>. QED
      BY <3>1
  <2>. QED
    BY <1>1, <2>1, <2>2, <2>3, <2>4, <2>5, <2>6, SMTT(30)
<1>2. CASE ~use_pmem
  <2>1. Len(Releases) = 11
    BY <1>2, ReleasesListed
  <2>2. Releases \in Seq([field : Device \cup Heap, what : Device \cup Heap])
    BY <1>2 DEF Releases, FreeMem, If, Device, Heap
  <2>3. Releases[11].field = "pd" /\ Releases[11].what = "pd"
    BY <1>2, <2>1, ReleasesListed DEF If, Backing
  <2>4. \A x \in {"qp", "send_cq", "recv_cq"} : \E k \in 1 .. 3 : Releases[k].what = x /\ Releases[k].field = x
    <3>1. /\ Releases[1].what = "qp" /\ Releases[1].field = "qp"
          /\ Releases[2].what = "send_cq" /\ Releases[2].field = "send_cq"
          /\ Releases[3].what = "recv_cq" /\ Releases[3].field = "recv_cq"
      BY <1>2, <2>1, ReleasesListed DEF If, Backing
    <3>. QED
      BY <3>1
  <2>5. \A x \in {"mr", "src_mem_mr", "metadata_mr"} :
          \E k \in 1 .. 9 : Releases[k].what = x /\ Releases[k].field = Backing[x]
    <3>1. /\ Releases[4].what = "mr" /\ Releases[4].field = "mem"
          /\ Releases[6].what = "src_mem_mr" /\ Releases[6].field = "src_mem"
          /\ Releases[8].what = "metadata_mr" /\ Releases[8].field = "metadata"
      BY <1>2, <2>1, ReleasesListed DEF If, Backing
    <3>. QED
      BY <3>1 DEF Backing
  <2>6. \A x \in {"src_mem", "metadata", "stats", "mem"} :
          \E k \in 1 .. 10 : Releases[k].what = x /\ Releases[k].field = x
    <3>1. /\ Releases[5].what = "mem" /\ Releases[5].field = "mem"
          /\ Releases[7].what = "src_mem" /\ Releases[7].field = "src_mem"
          /\ Releases[9].what = "metadata" /\ Releases[9].field = "metadata"
          /\ Releases[10].what = "stats" /\ Releases[10].field = "stats"
      BY <1>2, <2>1, ReleasesListed DEF If
    <3>. QED
      BY <3>1
  <2>7. \A x \in {"src_mem", "metadata", "stats"} \cup (IF use_pmem THEN {} ELSE {"mem"}) :
          \E k \in 1 .. Len(Releases) - 1 : Releases[k].what = x /\ Releases[k].field = x
    <3>1. {"src_mem", "metadata", "stats"} \cup (IF use_pmem THEN {} ELSE {"mem"})
            = {"src_mem", "metadata", "stats", "mem"}
      BY <1>2
    <3>2. Len(Releases) - 1 = 10
      BY <2>1
    <3>. QED
      BY <2>6, <3>1, <3>2
  <2>. QED
    BY <2>1, <2>2, <2>3, <2>4, <2>5, <2>7
<1>. QED
  BY <1>1, <1>2

----------------------------------------------------------------------------
(* The invariant.                                                          *)

\* alloc_nodes counts i up and down again, destroy_nodes counts it up, and a
\* node being destroyed is a node.
Control ==
    /\ pc = "alloc" => i >= 1
    /\ pc = "unwind" => i <= Connections
    /\ pc = "run" => i = 1
    /\ pc = "destroy" => i >= 1
    /\ pc = "destroy" /\ release # <<>> => i \in Nodes
    /\ pc \in {"alloc", "unwind", "run"} => release = <<>>

\* Nodes acquire nothing if the file is too short.
NothingUnmapped ==
    use_pmem /\ ~Fits =>
        /\ pc \notin {"run", "destroy"}
        /\ \A n \in Nodes : live[n] = {}

\* What a node has is in its fields; and a field set for a region has one set
\* for the memory, as the calls come in that order.
Owned(n) ==
    /\ live[n] \subseteq fields[n]
    /\ \A r \in Regions : r \in fields[n] => Backing[r] \in fields[n]
    /\ program = "one_sided" =>
         fields[n] \cap {"comp_channel", "flush_request_mr", "flush_notification_mr"} = {}

\* How many releases of node i destroy_node has been through.
Done == Len(Releases) - Len(release)

\* What destroy_node has been through is gone, so far as its field was set.
Releasing ==
    pc = "destroy" /\ release # <<>> =>
        /\ Done >= 0
        /\ \A k \in 1 .. Len(release) : release[k] = Releases[Done + k]
        /\ \A k \in 1 .. Done : Releases[k].field \in fields[i] => Releases[k].what \notin live[i]

IInv ==
    /\ TypeOK
    /\ Control
    /\ NothingUnmapped
    /\ \A n \in Nodes : Owned(n)
    /\ Releasing

LEMMA Same ==
    ASSUME UNCHANGED arguments
    PROVE  /\ Releases' = Releases /\ Calls' = Calls /\ Fits' = Fits
           /\ program' = program /\ use_pmem' = use_pmem /\ is_client' = is_client
           /\ message_size' = message_size /\ pmem_mapped_len' = pmem_mapped_len
<1>1. Releases' = Releases
  BY DEF arguments, Releases, FreeMem, If
<1>2. Calls' = Calls
  BY DEF arguments, Calls, create_comp_channel, create_metadata, create_flush_buffers, create_message
<1>3. Fits' = Fits
  BY DEF arguments, Fits, Product
<1>. QED
  BY <1>1, <1>2, <1>3 DEF arguments

LEMMA CallsCounted ==
    ASSUME program \in {"ws", "wi", "one_sided"}
    PROVE  Len(Calls) \in Nat /\ Len(Calls) > 0
BY CallsListed

LEMMA InBefore ==
    ASSUME NEW k, NEW x
    PROVE  x \in Before(k) <=> \E j \in 1 .. k - 1 : x \in Calls[j]
BY DEF Before

\* What init_node has in its fields before, or without a failure of, its k-th
\* call: memory for each region, and of the device or the heap.
LEMMA BeforeBacked ==
    ASSUME program \in {"ws", "wi", "one_sided"}, NEW k \in 1 .. Len(Calls) + 1
    PROVE  /\ Before(k) \subseteq Device \cup Heap
           /\ \A r \in Regions : r \in Before(k) => Backing[r] \in Before(k)
           /\ program = "one_sided" =>
                Before(k) \cap {"comp_channel", "flush_request_mr", "flush_notification_mr"} = {}
<1>1. \A j \in 1 .. k - 1 : j \in 1 .. Len(Calls)
  BY CallsCounted
<1>2. Before(k) \subseteq Device \cup Heap
  BY <1>1, InBefore, CallsFacts
<1>3. ASSUME NEW r \in Regions, r \in Before(k)
      PROVE  Backing[r] \in Before(k)
  <2>1. PICK j \in 1 .. k - 1 : r \in Calls[j]
    BY <1>3, InBefore
  <2>2. j > 1 /\ Calls[j - 1] = {Backing[r]}
    BY <1>1, <2>1, CallsFacts
  <2>3. j - 1 \in 1 .. k - 1 /\ Backing[r] \in Calls[j - 1]
    BY <2>2
  <2>. QED
    BY <2>3, InBefore
<1>4. program = "one_sided" =>
        Before(k) \cap {"comp_channel", "flush_request_mr", "flush_notification_mr"} = {}
  BY <1>1, InBefore, CallsFacts
<1>. QED
  BY <1>2, <1>3, <1>4

\* What a node has after init_node has failed in call k.
Got(k, failed) == Before(k) \cup (Calls[k] \ failed) \cup SetOnError(Calls[k])

LEMMA GotBacked ==
    ASSUME program \in {"ws", "wi", "one_sided"},
           NEW k \in 1 .. Len(Calls), NEW failed \in (SUBSET Calls[k]) \ {{}}
    PROVE  /\ Got(k, failed) \subseteq Device \cup Heap
           /\ \A r \in Regions : r \in Got(k, failed) =>
                r \in Before(k) /\ Backing[r] \in Before(k)
           /\ program = "one_sided" =>
                Got(k, failed) \cap {"comp_channel", "flush_request_mr", "flush_notification_mr"} = {}
<1>0. k \in 1 .. Len(Calls) + 1
  BY CallsCounted
<1>1. SetOnError(Calls[k]) \subseteq {"mem"}
  BY DEF SetOnError
<1>2. Calls[k] \subseteq Device \cup Heap
  BY CallsFacts
<1>3. Got(k, failed) \subseteq Device \cup Heap
  BY <1>0, <1>1, <1>2, BeforeBacked DEF Got, Heap
<1>4. ASSUME NEW r \in Regions, r \in Got(k, failed)
      PROVE  r \in Before(k) /\ Backing[r] \in Before(k)
  <2>1. r # "mem"
    BY DEF Regions, Backing
  <2>2. r \notin Calls[k] \ failed
    BY CallsFacts
  <2>3. r \in Before(k)
    BY <1>1, <1>4, <2>1, <2>2 DEF Got
  <2>. QED
    BY <1>0, <2>3, BeforeBacked
<1>5. program = "one_sided" =>
        Got(k, failed) \cap {"comp_channel", "flush_request_mr", "flush_notification_mr"} = {}
  BY <1>0, <1>1, BeforeBacked, CallsFacts DEF Got
<1>. QED
  BY <1>3, <1>4, <1>5

----------------------------------------------------------------------------
(* Each action preserves the invariant.                                    *)

Quiet == UNCHANGED <<arguments, fields, live>>

\* A step that leaves the nodes as they are leaves them owned.
LEMMA QuietOwned ==
    ASSUME \A n \in Nodes : Owned(n), Quiet
    PROVE  \A n \in Nodes : Owned(n)'
<1>. SUFFICES ASSUME NEW n \in Nodes
              PROVE  Owned(n)'
  OBVIOUS
<1>1. Owned(n)
  OBVIOUS
<1>2. fields' = fields /\ live' = live /\ program' = program
  BY DEF Quiet, arguments
<1>. QED
  BY <1>1, <1>2 DEF Owned

\* The part of TypeOK that says what the arguments are.
LEMMA ArgumentsTyped ==
    ASSUME TypeOK, UNCHANGED arguments
    PROVE  /\ (program \in Programs)' /\ (is_client \in BOOLEAN)' /\ (use_pmem \in BOOLEAN)'
           /\ (message_size \in Sizes)' /\ (pmem_mapped_len \in MappedLens)'
BY Zenon DEF TypeOK, arguments

LEMMA InitIInv == Init => IInv
<1>. SUFFICES ASSUME Init
              PROVE  IInv
  OBVIOUS
<1>0. use_pmem \in BOOLEAN /\ is_client \in BOOLEAN
  BY Zenon DEF Init
<1>1. TypeOK
  BY <1>0, NodeResourcesAssumption DEF Init, TypeOK, Nodes
<1>2. Control
  BY DEF Init, Control
<1>3. NothingUnmapped
  BY DEF Init, NothingUnmapped
<1>4. \A n \in Nodes : Owned(n)
  BY DEF Init, Owned
<1>5. Releasing
  BY DEF Init, Releasing
<1>. QED
  BY <1>1, <1>2, <1>3, <1>4, <1>5 DEF IInv

\* The steps of alloc_nodes, and the ones between the phases.
LEMMA AllocStep ==
    ASSUME IInv,
           create_id \/ map_pmem \/ unwind \/ run_ends \/ free_nodes
    PROVE  IInv'
<1>. USE NodeResourcesAssumption
<1>0. Quiet /\ UNCHANGED <<release, started>>
  BY DEF create_id, map_pmem, unwind, run_ends, free_nodes, Quiet
<1>1. UNCHANGED arguments
  BY <1>0 DEF Quiet
<1>2. /\ i \in 0 .. Connections + 1 /\ pc \in {"alloc", "unwind", "run", "destroy", "exit", "crashed"}
      /\ id \subseteq Nodes /\ ret \in {"unset", "ok", "error"}
  BY DEF IInv, TypeOK
<1>3. Control
  BY DEF IInv
<1>4. /\ i' \in 0 .. Connections + 1 /\ pc' \in {"alloc", "unwind", "run", "destroy", "exit", "crashed"}
      /\ id' \subseteq Nodes /\ ret' \in {"unset", "ok", "error"}
      /\ Control'
  <2>1. CASE create_id
    <3>1. i' \in 0 .. Connections + 1 /\ id' \subseteq Nodes
      <4>1. i \in 0 .. Connections /\ id' \subseteq id \cup {i}
        BY <1>2, <2>1 DEF create_id
      <4>2. i' \in 0 .. Connections + 1
        BY <1>2, <1>3, <2>1 DEF create_id, Control
      <4>. QED
        BY <1>2, <1>3, <2>1, <4>1, <4>2 DEF create_id, Control, Nodes
    <3>2. /\ pc' \in {"alloc", "unwind", "run", "destroy", "exit", "crashed"}
          /\ ret' \in {"unset", "ok", "error"}
      BY <1>2, <2>1 DEF create_id
    <3>3. Control'
      BY <1>0, <1>2, <1>3, <2>1 DEF create_id, Control
    <3>. QED
      BY <3>1, <3>2, <3>3
  <2>2. CASE map_pmem
    BY <1>0, <1>2, <1>3, <2>2 DEF map_pmem, Control, Nodes
  <2>3. CASE unwind
    <3>1. i' \in 0 .. Connections + 1 /\ id' \subseteq Nodes
      <4>1. id' \subseteq id
        BY <1>2, <2>3 DEF unwind
      <4>2. i' \in 0 .. Connections + 1
        BY <1>2, <1>3, <2>3 DEF unwind, Control
      <4>. QED
        BY <1>2, <1>3, <2>3, <4>1, <4>2 DEF unwind, Control, Nodes
    <3>2. /\ pc' \in {"alloc", "unwind", "run", "destroy", "exit", "crashed"}
          /\ ret' \in {"unset", "ok", "error"}
      BY <1>2, <2>3 DEF unwind
    <3>3. Control'
      BY <1>0, <1>2, <1>3, <2>3 DEF unwind, Control
    <3>. QED
      BY <3>1, <3>2, <3>3
  <2>4. CASE run_ends
    BY <1>0, <1>2, <1>3, <2>4 DEF run_ends, Control, Nodes
  <2>5. CASE free_nodes
    BY <1>0, <1>2, <1>3, <2>5 DEF free_nodes, Control, Nodes
  <2>. QED
    BY <2>1, <2>2, <2>3, <2>4, <2>5
<1>5. TypeOK'
  <2>1. /\ (fields \in [Nodes -> SUBSET (Device \cup Heap)])'
        /\ (live \in [Nodes -> SUBSET (Device \cup Heap)])'
        /\ (release \in Seq([field : Device \cup Heap, what : Device \cup Heap]))'
        /\ (started \subseteq Nodes)'
    BY <1>0 DEF IInv, TypeOK, Quiet
  <2>. QED
    BY <1>1, <1>4, <2>1, ArgumentsTyped, Zenon DEF IInv, TypeOK
<1>6. NothingUnmapped'
  <2>1. NothingUnmapped /\ Fits' = Fits /\ use_pmem' = use_pmem
    BY <1>1, Same DEF IInv
  <2>2. use_pmem /\ ~Fits => pc' \notin {"run", "destroy"}
    BY <1>2, <2>1 DEF create_id, map_pmem, unwind, run_ends, free_nodes, NothingUnmapped
  <2>. QED
    BY <1>0, <2>1, <2>2 DEF NothingUnmapped, Quiet
<1>7. \A n \in Nodes : Owned(n)'
  BY <1>0, QuietOwned DEF IInv
<1>8. Releasing'
  <2>1. pc' = "destroy" => release' = <<>>
    BY <1>0, <1>3 DEF create_id, map_pmem, unwind, run_ends, free_nodes, Control
  <2>. QED
    BY <2>1 DEF Releasing
<1>. QED
  BY <1>4, <1>5, <1>6, <1>7, <1>8 DEF IInv

\* What init_node does when none of its calls fails, whatever connect_handler
\* does next.
LEMMA InitNodeEffect ==
    ASSUME NEW n \in Nodes, init_node(n) \/ connect_handler_fails(n)
    PROVE  /\ UNCHANGED <<arguments, i, ret, release>> /\ pc = "run" /\ pc' \in {"run", "destroy"}
           /\ started' = started \cup {n} /\ id' \subseteq id \cup {n}
           /\ fields' = [fields EXCEPT ![n] = Before(Len(Calls) + 1)]
           /\ live' = [live EXCEPT ![n] = Before(Len(Calls) + 1)]
<1>1. /\ UNCHANGED <<arguments, i, ret, release>> /\ pc = "run" /\ pc' \in {"run", "destroy"}
      /\ started' = started \cup {n} /\ id' \subseteq id \cup {n}
      /\ Acquired(n, Before(Len(Calls) + 1), {})
  BY DEF init_node, connect_handler_fails, Started
<1>. QED
  BY <1>1 DEF Acquired

LEMMA InitNodeStep ==
    ASSUME IInv, NEW n \in Nodes, init_node(n) \/ connect_handler_fails(n)
    PROVE  IInv'
<1>. DEFINE got == Before(Len(Calls) + 1)
<1>1. /\ UNCHANGED <<arguments, i, ret, release>> /\ pc = "run" /\ pc' \in {"run", "destroy"}
      /\ started' = started \cup {n} /\ id' \subseteq id \cup {n}
      /\ fields' = [fields EXCEPT ![n] = got]
      /\ live' = [live EXCEPT ![n] = got]
  BY InitNodeEffect
<1>2. /\ fields \in [Nodes -> SUBSET (Device \cup Heap)]
      /\ live \in [Nodes -> SUBSET (Device \cup Heap)]
      /\ program \in {"ws", "wi", "one_sided"}
  BY NodeResourcesAssumption DEF IInv, TypeOK
<1>3. /\ got \subseteq Device \cup Heap
      /\ \A r \in Regions : r \in got => Backing[r] \in got
      /\ program = "one_sided" =>
           got \cap {"comp_channel", "flush_request_mr", "flush_notification_mr"} = {}
  <2>1. Len(Calls) + 1 \in 1 .. Len(Calls) + 1
    BY <1>2, CallsCounted
  <2>. QED
    BY <1>2, <2>1, BeforeBacked
<1>. HIDE DEF got
<1>4. TypeOK'
  <2>1. /\ (fields \in [Nodes -> SUBSET (Device \cup Heap)])'
        /\ (live \in [Nodes -> SUBSET (Device \cup Heap)])'
    BY <1>1, <1>2, <1>3
  <2>2. /\ (started \subseteq Nodes)' /\ (id \subseteq Nodes)'
        /\ (pc \in {"alloc", "unwind", "run", "destroy", "exit", "crashed"})'
        /\ (i \in 0 .. Connections + 1)' /\ (ret \in {"unset", "ok", "error"})'
        /\ (release \in Seq([field : Device \cup Heap, what : Device \cup Heap]))'
    BY <1>1 DEF IInv, TypeOK, Nodes
  <2>. QED
    BY <1>1, <2>1, <2>2, ArgumentsTyped, Zenon DEF IInv, TypeOK
<1>5. Control'
  BY <1>1 DEF IInv, Control, Nodes
<1>6. NothingUnmapped'
  BY <1>1, Same DEF IInv, NothingUnmapped
<1>7. ASSUME NEW m \in Nodes
      PROVE  Owned(m)'
  <2>1. CASE m = n
    BY <1>1, <1>2, <1>3, <2>1, Same DEF Owned
  <2>2. CASE m # n
    BY <1>1, <1>2, <2>2, Same DEF IInv, Owned
  <2>. QED
    BY <2>1, <2>2
<1>8. Releasing'
  BY <1>1 DEF IInv, Control, Releasing
<1>. QED
  BY <1>4, <1>5, <1>6, <1>7, <1>8 DEF IInv

\* What a failing init_node does to the state.
LEMMA FailureEffect ==
    ASSUME NEW n \in Nodes, NEW k \in 1 .. Len(Calls), init_node_fails(n, k)
    PROVE  /\ UNCHANGED <<arguments, i, ret, release>> /\ pc = "run" /\ pc' \in {"run", "destroy"}
           /\ n \notin started
           /\ started' = started \cup {n} /\ id' \subseteq id
           /\ \E failed \in (SUBSET Calls[k]) \ {{}} :
                /\ \A call \in failed : CallFails(call)
                /\ fields' = [fields EXCEPT ![n] = Got(k, failed)]
                /\ live' = [live EXCEPT ![n] = Got(k, failed) \ FreedOnError(Calls[k])]
BY DEF init_node_fails, Started, Acquired, Got

LEMMA InitNodeFailsStep ==
    ASSUME IInv, NEW n \in Nodes, NEW k \in 1 .. Len(Calls), init_node_fails(n, k)
    PROVE  IInv'
<1>1. /\ UNCHANGED <<arguments, i, ret, release>> /\ pc = "run" /\ pc' \in {"run", "destroy"}
      /\ started' = started \cup {n} /\ id' \subseteq id
  BY FailureEffect
<1>2. /\ fields \in [Nodes -> SUBSET (Device \cup Heap)]
      /\ live \in [Nodes -> SUBSET (Device \cup Heap)]
      /\ program \in {"ws", "wi", "one_sided"}
  BY NodeResourcesAssumption DEF IInv, TypeOK
<1>3. PICK failed \in (SUBSET Calls[k]) \ {{}} :
        /\ fields' = [fields EXCEPT ![n] = Got(k, failed)]
        /\ live' = [live EXCEPT ![n] = Got(k, failed) \ FreedOnError(Calls[k])]
  BY FailureEffect
<1>. DEFINE got == Got(k, failed)
            kept == got \ FreedOnError(Calls[k])
<1>4. /\ got \subseteq Device \cup Heap /\ kept \subseteq got
      /\ \A r \in Regions : r \in got => Backing[r] \in got
      /\ program = "one_sided" =>
           got \cap {"comp_channel", "flush_request_mr", "flush_notification_mr"} = {}
  BY <1>2, GotBacked DEF Got
<1>5. fields' = [fields EXCEPT ![n] = got] /\ live' = [live EXCEPT ![n] = kept]
  BY <1>3
<1>. HIDE DEF got, kept
<1>6. TypeOK'
  <2>1. /\ (fields \in [Nodes -> SUBSET (Device \cup Heap)])'
        /\ (live \in [Nodes -> SUBSET (Device \cup Heap)])'
    BY <1>2, <1>4, <1>5
  <2>2. /\ (started \subseteq Nodes)' /\ (id \subseteq Nodes)'
        /\ (pc \in {"alloc", "unwind", "run", "destroy", "exit", "crashed"})'
        /\ (i \in 0 .. Connections + 1)' /\ (ret \in {"unset", "ok", "error"})'
        /\ (release \in Seq([field : Device \cup Heap, what : Device \cup Heap]))'
    BY <1>1 DEF IInv, TypeOK, Nodes
  <2>. QED
    BY <1>1, <2>1, <2>2, ArgumentsTyped, Zenon DEF IInv, TypeOK
<1>7. Control'
  BY <1>1 DEF IInv, Control, Nodes
<1>8. NothingUnmapped'
  BY <1>1, Same DEF IInv, NothingUnmapped
<1>9. ASSUME NEW m \in Nodes
      PROVE  Owned(m)'
  <2>1. CASE m = n
    BY <1>1, <1>2, <1>4, <1>5, <2>1, Same DEF Owned
  <2>2. CASE m # n
    BY <1>1, <1>2, <1>5, <2>2, Same DEF IInv, Owned
  <2>. QED
    BY <2>1, <2>2
<1>10. Releasing'
  BY <1>1 DEF IInv, Control, Releasing
<1>. QED
  BY <1>6, <1>7, <1>8, <1>9, <1>10 DEF IInv

LEMMA NextNodeStep ==
    ASSUME IInv, next_node
    PROVE  IInv'
<1>. USE NodeResourcesAssumption
<1>1. /\ pc = "destroy" /\ pc' = pc /\ release = <<>> /\ i <= Connections /\ Quiet
      /\ UNCHANGED <<ret, id, started>>
      /\ \/ release' = Releases /\ i' = i
         \/ release' = release /\ i' = i + 1
  BY DEF next_node, Quiet
<1>2. UNCHANGED arguments
  BY <1>1 DEF Quiet
<1>3. i \in 1 .. Connections /\ use_pmem \in BOOLEAN
  BY <1>1 DEF IInv, TypeOK, Control
<1>4. /\ Len(Releases) \in Nat
      /\ Releases \in Seq([field : Device \cup Heap, what : Device \cup Heap])
  BY <1>3, PdLast
<1>5. TypeOK'
  <2>1. /\ (fields \in [Nodes -> SUBSET (Device \cup Heap)])'
        /\ (live \in [Nodes -> SUBSET (Device \cup Heap)])'
        /\ (id \subseteq Nodes)' /\ (started \subseteq Nodes)'
        /\ (pc \in {"alloc", "unwind", "run", "destroy", "exit", "crashed"})'
        /\ (ret \in {"unset", "ok", "error"})'
    BY <1>1 DEF IInv, TypeOK, Quiet, Nodes
  <2>2. (i \in 0 .. Connections + 1)'
    BY <1>1, <1>3
  <2>3. (release \in Seq([field : Device \cup Heap, what : Device \cup Heap]))'
    BY <1>1, <1>4 DEF IInv, TypeOK
  <2>. QED
    BY <1>2, <2>1, <2>2, <2>3, ArgumentsTyped, Zenon DEF IInv, TypeOK
<1>6. Control'
  BY <1>1, <1>3 DEF Control, Nodes
<1>7. NothingUnmapped'
  BY <1>1, <1>2, Same DEF IInv, NothingUnmapped, Quiet
<1>8. \A n \in Nodes : Owned(n)'
  BY <1>1, QuietOwned DEF IInv
<1>9. Releasing'
  <2>1. CASE release' = Releases
    <3>1. Releases' = Releases /\ Done' = 0
      BY <1>2, <1>4, <2>1, Same DEF Done
    <3>2. \A k \in 1 .. Len(release') : release'[k] = Releases'[0 + k]
      BY <2>1, <3>1, <1>4
    <3>. QED
      BY <3>1, <3>2 DEF Releasing
  <2>2. CASE release' = release
    BY <1>1, <2>2 DEF Releasing
  <2>. QED
    BY <1>1, <2>1, <2>2
<1>. QED
  BY <1>5, <1>6, <1>7, <1>8, <1>9 DEF IInv

\* Releases[Done + 1] is the release destroy_node makes.
LEMMA ReleaseEffect ==
    ASSUME IInv, destroy_node
    PROVE  /\ i \in Nodes /\ pc = "destroy" /\ pc' \in {"destroy", "crashed"}
           /\ use_pmem \in BOOLEAN
           /\ UNCHANGED <<arguments, ret, started, fields>>
           /\ Len(release) \in Nat \ {0} /\ Len(Releases) \in Nat
           /\ Done \in Nat /\ Done + 1 \in 1 .. Len(Releases)
           /\ Len(release') = Len(release) - 1
           /\ release' \in Seq([field : Device \cup Heap, what : Device \cup Heap])
           /\ \A k \in 1 .. Len(release') : release'[k] = Releases[Done + 1 + k]
           /\ \A k \in 1 .. Done :
                Releases[k].field \in fields[i] => Releases[k].what \notin live[i]
           /\ IF Len(release) = 1 THEN i' = i + 1 /\ id' = id \ {i} ELSE i' = i /\ id' = id
           /\ \/ /\ Releases[Done + 1].field \notin fields[i]
                 /\ live' = live /\ pc' = pc
              \/ /\ Releases[Done + 1].field \in fields[i] /\ Releases[Done + 1].what \notin live[i]
                 /\ live' = live /\ pc' = "crashed"
              \/ /\ Releases[Done + 1].field \in fields[i] /\ Releases[Done + 1].what \in live[i]
                 /\ live' = [live EXCEPT ![i] = live[i] \ {Releases[Done + 1].what}]
                 /\ Blocks(Releases[Done + 1].what) \cap live[i] = {}
                 /\ pc' = pc
              \/ /\ Releases[Done + 1].field \in fields[i] /\ Releases[Done + 1].what \in live[i]
                 /\ live' = live
                 /\ Blocks(Releases[Done + 1].what) \cap live[i] # {}
                 /\ pc' = pc
<1>1. /\ pc = "destroy" /\ release # <<>>
      /\ UNCHANGED <<arguments, ret, started, fields>>
      /\ release' = Tail(release)
      /\ IF Len(release) = 1 THEN i' = i + 1 /\ id' = id \ {i} ELSE i' = i /\ id' = id
  BY DEF destroy_node
<1>2. /\ release \in Seq([field : Device \cup Heap, what : Device \cup Heap])
      /\ live \in [Nodes -> SUBSET (Device \cup Heap)]
      /\ use_pmem \in BOOLEAN
  BY DEF IInv, TypeOK
<1>3. /\ i \in Nodes
      /\ Done >= 0
      /\ \A k \in 1 .. Len(release) : release[k] = Releases[Done + k]
      /\ \A k \in 1 .. Done : Releases[k].field \in fields[i] => Releases[k].what \notin live[i]
  BY <1>1 DEF IInv, Control, Releasing
<1>4. /\ Len(release) \in Nat \ {0}
      /\ Head(release) = release[1]
      /\ Len(release') = Len(release) - 1
      /\ release' \in Seq([field : Device \cup Heap, what : Device \cup Heap])
      /\ \A k \in 1 .. Len(release') : release'[k] = release[1 + k]
  BY <1>1, <1>2
<1>5. Len(Releases) \in Nat
  BY <1>2, PdLast
<1>6. Done = Len(Releases) - Len(release)
  BY DEF Done
<1>7. Done \in Nat /\ Done + 1 \in 1 .. Len(Releases)
  BY <1>3, <1>4, <1>5, <1>6
<1>8. Head(release) = Releases[Done + 1]
  BY <1>3, <1>4
<1>9. \A k \in 1 .. Len(release') : release'[k] = Releases[Done + 1 + k]
  <2>. SUFFICES ASSUME NEW k \in 1 .. Len(release')
                PROVE  release'[k] = Releases[Done + 1 + k]
    OBVIOUS
  <2>1. 1 + k \in 1 .. Len(release) /\ Done + (1 + k) = Done + 1 + k
    BY <1>4, <1>7
  <2>. QED
    BY <1>3, <1>4, <2>1
<1>10. \/ /\ Releases[Done + 1].field \notin fields[i]
          /\ live' = live /\ pc' = pc
       \/ /\ Releases[Done + 1].field \in fields[i] /\ Releases[Done + 1].what \notin live[i]
          /\ live' = live /\ pc' = "crashed"
       \/ /\ Releases[Done + 1].field \in fields[i] /\ Releases[Done + 1].what \in live[i]
          /\ live' = [live EXCEPT ![i] = live[i] \ {Releases[Done + 1].what}]
          /\ Blocks(Releases[Done + 1].what) \cap live[i] = {}
          /\ pc' = pc
       \/ /\ Releases[Done + 1].field \in fields[i] /\ Releases[Done + 1].what \in live[i]
          /\ live' = live
          /\ Blocks(Releases[Done + 1].what) \cap live[i] # {}
          /\ pc' = pc
  <2>. DEFINE this == Releases[Done + 1]
  <2>1. IF this.field \notin fields[i] THEN live' = live /\ pc' = pc
        ELSE IF this.what \notin live[i] THEN pc' = "crashed" /\ live' = live
        ELSE /\ live' = [live EXCEPT ![i] = IF Blocks(this.what) \cap live[i] = {}
                                            THEN live[i] \ {this.what} ELSE live[i]]
             /\ pc' = pc
    BY <1>8, Zenon DEF destroy_node
  <2>. HIDE DEF this
  <2>2. live = [live EXCEPT ![i] = live[i]]
    BY <1>2
  <2>. QED
    BY <2>1, <2>2 DEF this
<1>11. pc' \in {"destroy", "crashed"}
  BY <1>1, <1>10
<1>. QED
  BY <1>1, <1>2, <1>3, <1>4, <1>5, <1>7, <1>9, <1>10, <1>11

\* What destroy_node releases is gone, unless it is the protection domain.
LEMMA ReleasedIsGone ==
    ASSUME IInv, destroy_node, pc' = "destroy", Len(release) > 1,
           Releases[Done + 1].field \in fields[i]
    PROVE  Releases[Done + 1].what \notin live'[i]
<1>. DEFINE k == Done + 1
            what == Releases[k].what
<1>1. /\ i \in Nodes /\ k \in 1 .. Len(Releases) /\ use_pmem \in BOOLEAN /\ Done \in Nat
      /\ Len(Releases) \in Nat
      /\ \A j \in 1 .. Done : Releases[j].field \in fields[i] => Releases[j].what \notin live[i]
      /\ live \in [Nodes -> SUBSET (Device \cup Heap)]
  BY ReleaseEffect DEF IInv, TypeOK
<1>2. k < Len(Releases)
  BY <1>1, ReleaseEffect DEF Done
<1>3. what # "pd"
  <2>1. Len(Releases) \in 1 .. Len(Releases) /\ k \in 1 .. Len(Releases) - 1
    BY <1>1, <1>2
  <2>2. Releases[k].what # Releases[Len(Releases)].what
    BY <1>1, <2>1, ReleasesFacts
  <2>. QED
    BY <1>1, <2>2, PdLast
<1>4. Blocks(what) \cap live[i] = {}
  <2>1. CASE what \in {"send_cq", "recv_cq"}
    <3>1. k > 1 /\ Releases[1].what = "qp" /\ Releases[1].field = "qp"
      BY <1>1, <2>1, ReleasesFacts
    <3>2. 1 \in 1 .. Done
      BY <1>1, <3>1
    <3>3. "qp" \in fields[i] => "qp" \notin live[i]
      BY <1>1, <3>1, <3>2
    <3>4. "qp" \notin live[i]
      BY <1>1, <3>3 DEF IInv, Owned
    <3>. QED
      BY <1>3, <2>1, <3>4 DEF Blocks
  <2>2. CASE what \notin {"send_cq", "recv_cq"}
    BY <1>3, <2>2 DEF Blocks
  <2>. QED
    BY <2>1, <2>2
<1>. QED
  BY <1>1, <1>4, ReleaseEffect

LEMMA DestroyNodeStep ==
    ASSUME IInv, destroy_node
    PROVE  IInv'
<1>. USE NodeResourcesAssumption
<1>1. /\ i \in Nodes /\ pc = "destroy" /\ pc' \in {"destroy", "crashed"}
      /\ UNCHANGED <<arguments, ret, started, fields>>
      /\ Len(release) \in Nat \ {0} /\ Len(Releases) \in Nat /\ Done \in Nat
      /\ Len(release') = Len(release) - 1
      /\ release' \in Seq([field : Device \cup Heap, what : Device \cup Heap])
      /\ \A k \in 1 .. Len(release') : release'[k] = Releases[Done + 1 + k]
      /\ \A k \in 1 .. Done : Releases[k].field \in fields[i] => Releases[k].what \notin live[i]
      /\ IF Len(release) = 1 THEN i' = i + 1 /\ id' = id \ {i} ELSE i' = i /\ id' = id
  BY ReleaseEffect
<1>2. UNCHANGED arguments
  BY <1>1
<1>3. /\ live \in [Nodes -> SUBSET (Device \cup Heap)] /\ id \subseteq Nodes
      /\ i \in 1 .. Connections
  BY <1>1 DEF IInv, TypeOK, Nodes
<1>4. /\ live' \in [Nodes -> SUBSET (Device \cup Heap)]
      /\ \A n \in Nodes : live'[n] \subseteq live[n]
  <2>1. live' = live \/ live' = [live EXCEPT ![i] = live[i] \ {Releases[Done + 1].what}]
    BY ReleaseEffect
  <2>. QED
    BY <1>1, <1>3, <2>1
<1>5. TypeOK'
  <2>1. /\ (fields \in [Nodes -> SUBSET (Device \cup Heap)])'
        /\ (started \subseteq Nodes)'
        /\ (pc \in {"alloc", "unwind", "run", "destroy", "exit", "crashed"})'
        /\ (ret \in {"unset", "ok", "error"})'
    BY <1>1 DEF IInv, TypeOK, Nodes
  <2>2. (i \in 0 .. Connections + 1)'
    BY <1>1, <1>3
  <2>3. (id \subseteq Nodes)'
    BY <1>1, <1>3
  <2>. QED
    BY <1>1, <1>2, <1>4, <2>1, <2>2, <2>3, ArgumentsTyped, Zenon DEF IInv, TypeOK
<1>6. release' # <<>> => Len(release) > 1 /\ i' = i
  BY <1>1
<1>7. Control'
  BY <1>1, <1>3, <1>6 DEF Control
<1>8. NothingUnmapped'
  BY <1>1, <1>2, Same DEF IInv, NothingUnmapped
<1>9. ASSUME NEW n \in Nodes
      PROVE  Owned(n)'
  BY <1>1, <1>2, <1>4, Same DEF IInv, Owned
<1>10. Releasing'
  <2>. SUFFICES ASSUME pc' = "destroy", release' # <<>>
                PROVE  /\ Done' >= 0
                       /\ \A k \in 1 .. Len(release') : release'[k] = Releases'[Done' + k]
                       /\ \A k \in 1 .. Done' :
                            Releases'[k].field \in fields'[i'] => Releases'[k].what \notin live'[i']
    BY DEF Releasing
  <2>1. Done' = Done + 1 /\ Releases' = Releases /\ i' = i /\ fields' = fields
    BY <1>1, <1>2, <1>6, Same DEF Done
  <2>2. \A k \in 1 .. Done :
          Releases[k].field \in fields[i] => Releases[k].what \notin live'[i]
    BY <1>1, <1>4
  <2>3. Releases[Done + 1].field \in fields[i] => Releases[Done + 1].what \notin live'[i]
    BY <1>6, ReleasedIsGone
  <2>4. \A k \in 1 .. Done + 1 : k \in 1 .. Done \/ k = Done + 1
    BY <1>1
  <2>5. \A k \in 1 .. Done + 1 :
          Releases[k].field \in fields[i] => Releases[k].what \notin live'[i]
    BY <2>2, <2>3, <2>4
  <2>6. \A k \in 1 .. Len(release') : release'[k] = Releases[Done + 1 + k]
    BY <1>1
  <2>7. Done + 1 >= 0
    BY <1>1
  <2>. QED
    BY <2>1, <2>5, <2>6, <2>7
<1>. QED
  BY <1>5, <1>7, <1>8, <1>9, <1>10 DEF IInv

LEMMA StutterStep ==
    ASSUME IInv, UNCHANGED vars
    PROVE  IInv'
<1>1. UNCHANGED <<arguments, pc, i, ret, id, started, fields, live, release>>
  BY DEF vars
<1>2. TypeOK'
  BY <1>1, ArgumentsTyped, Zenon DEF IInv, TypeOK
<1>3. \A n \in Nodes : Owned(n)'
  BY <1>1, QuietOwned DEF IInv, Quiet
<1>4. Control' /\ NothingUnmapped'
  BY <1>1, Same DEF IInv, Control, NothingUnmapped
<1>5. Releasing'
  <2>1. Done' = Done /\ Releases' = Releases
    BY <1>1, Same DEF Done
  <2>. QED
    BY <1>1, <2>1 DEF IInv, Releasing
<1>. QED
  BY <1>2, <1>3, <1>4, <1>5 DEF IInv

LEMMA NextIInv == IInv /\ [Next]_vars => IInv'
<1>. SUFFICES ASSUME IInv, [Next]_vars
              PROVE  IInv'
  OBVIOUS
<1>1. CASE create_id \/ map_pmem \/ unwind \/ run_ends \/ free_nodes
  BY <1>1, AllocStep
<1>2. CASE \E n \in Nodes : init_node(n) \/ connect_handler_fails(n)
  BY <1>2, InitNodeStep
<1>3. CASE \E n \in Nodes, k \in 1 .. Len(Calls) : init_node_fails(n, k)
  BY <1>3, InitNodeFailsStep
<1>4. CASE next_node
  BY <1>4, NextNodeStep
<1>5. CASE destroy_node
  BY <1>5, DestroyNodeStep
<1>6. CASE UNCHANGED vars
  BY <1>6, StutterStep
<1>. QED
  BY <1>1, <1>2, <1>3, <1>4, <1>5, <1>6 DEF Next, Stopped

----------------------------------------------------------------------------
(* The theorems.                                                           *)

\* Whatever calls fail, the invariant holds in every reachable state.
THEOREM Invariance == Spec => []IInv
BY InitIInv, NextIInv, PTL DEF Spec

\* The loops of alloc_nodes and destroy_nodes keep their index in bounds, and the
\* nodes' fields and releases are the ones of their structure.
THEOREM TypeCorrect == Spec => []TypeOK
<1>1. IInv => TypeOK
  BY DEF IInv
<1>. QED
  BY <1>1, Invariance, PTL

\* When destroy_node of a one-sided program lets go of a cm_id, the device holds
\* nothing of the node, whichever of init_node's calls failed.
THEOREM IdsOutliveDevices == Spec => IdAfterDevice
<1>. DEFINE A == \A n \in id \ id' :
                   pc = "destroy" /\ program = "one_sided" => live'[n] \cap Device = {}
<1>1. ASSUME IInv, Next
      PROVE  A
  <2>. SUFFICES ASSUME NEW n \in id \ id', pc = "destroy", program = "one_sided"
                PROVE  live'[n] \cap Device = {}
    OBVIOUS
  <2>1. destroy_node
    <3>1. pc # "alloc" /\ pc # "unwind" /\ pc # "run" /\ id' # id
      OBVIOUS
    <3>. QED
      BY <1>1, <3>1 DEF Next, Stopped, vars, create_id, map_pmem, unwind, init_node,
           init_node_fails, connect_handler_fails, run_ends, next_node, free_nodes
  <2>2. /\ Len(release) = 1 /\ n = i /\ i \in Nodes /\ Done \in Nat /\ use_pmem \in BOOLEAN
        /\ Len(Releases) \in Nat
        /\ \A k \in 1 .. Done : Releases[k].field \in fields[i] => Releases[k].what \notin live[i]
    BY <1>1, <2>1, ReleaseEffect
  <2>3. Done = Len(Releases) - 1
    BY <2>2 DEF Done
  <2>4. /\ live \in [Nodes -> SUBSET (Device \cup Heap)]
        /\ live[i] \subseteq fields[i]
        /\ \A r \in Regions : r \in fields[i] => Backing[r] \in fields[i]
        /\ fields[i] \cap {"comp_channel", "flush_request_mr", "flush_notification_mr"} = {}
    BY <1>1, <2>2 DEF IInv, Owned, TypeOK
  <2>5. live[i] \cap {"qp", "send_cq", "recv_cq"} = {}
    <3>. SUFFICES ASSUME NEW x \in {"qp", "send_cq", "recv_cq"}, x \in live[i]
                  PROVE  FALSE
      OBVIOUS
    <3>1. PICK k \in 1 .. Done : Releases[k].what = x /\ Releases[k].field = x
      BY <2>2, <2>3, PdLast
    <3>. QED
      BY <2>2, <2>4, <3>1
  <2>6. live[i] \cap {"mr", "src_mem_mr", "metadata_mr"} = {}
    <3>. SUFFICES ASSUME NEW x \in {"mr", "src_mem_mr", "metadata_mr"}, x \in live[i]
                  PROVE  FALSE
      OBVIOUS
    <3>1. PICK k \in 1 .. Done : Releases[k].what = x /\ Releases[k].field = Backing[x]
      BY <2>2, <2>3, PdLast
    <3>2. x \in Regions
      BY DEF Regions, Backing
    <3>. QED
      BY <2>2, <2>4, <3>1, <3>2
  <2>7. live[i] \cap Device \subseteq {"pd"}
    BY <2>4, <2>5, <2>6 DEF Device
  <2>8. Releases[Done + 1].field = "pd" /\ Releases[Done + 1].what = "pd"
    BY <2>2, <2>3, PdLast
  <2>9. Blocks("pd") \cap live[i] = {}
    BY <2>7 DEF Blocks
  <2>10. \/ "pd" \notin live[i] /\ live' = live
         \/ live' = [live EXCEPT ![i] = live[i] \ {"pd"}]
    BY <1>1, <2>1, <2>4, <2>8, <2>9, ReleaseEffect
  <2>. QED
    BY <2>2, <2>4, <2>7, <2>10
<1>2. IInv /\ [Next]_vars => [A]_vars
  BY <1>1
<1>. QED
  BY <1>2, Invariance, PTL DEF Spec, IdAfterDevice

LEMMA ProductsGrow ==
    ASSUME NEW m \in Nat, NEW a \in Nat, NEW b \in Nat, a < b
    PROVE  m * a \in Nat /\ m * b \in Nat /\ m * a + m <= m * b
<1>1. PICK d \in Nat : b = a + 1 + d
  <2>1. b - a - 1 \in Nat /\ b = a + 1 + (b - a - 1)
    OBVIOUS
  <2>. QED
    BY <2>1
<1>2. m * (a + 1 + d) = m * a + m + m * d
  OBVIOUS
<1>3. m * a \in Nat /\ m * b \in Nat /\ m * d \in Nat
  OBVIOUS
<1>. QED
  BY <1>1, <1>2, <1>3

\* A product that does not overflow is the product of the integers.
LEMMA ProductExact ==
    ASSUME TypeOK, message_size * Connections < 2 ^ Width, NEW n \in 0 .. Connections
    PROVE  Product(n) = message_size * n
<1>1. message_size \in Nat /\ Connections \in Nat /\ Width \in Nat
  BY NodeResourcesAssumption DEF TypeOK
<1>2. 2 ^ Width \in Nat
  <2>1. 2 ^ Width \in Int
    BY <1>1
  <2>2. message_size * Connections \in Nat
    BY <1>1
  <2>. QED
    BY <2>1, <2>2
<1>3. message_size * n \in Nat /\ message_size * n <= message_size * Connections
  <2>1. CASE n = Connections
    BY <1>1, <2>1
  <2>2. CASE n # Connections
    BY <1>1, <2>2, ProductsGrow
  <2>. QED
    BY <2>1, <2>2
<1>4. message_size * Connections \in Nat
  BY <1>1
<1>. DEFINE u == 2 ^ Width
            p == message_size * n
            q == message_size * Connections
<1>5. p \in Nat /\ u \in Nat /\ p < u
  <2>1. p \in Nat /\ q \in Nat /\ u \in Nat /\ p <= q /\ q < u
    BY <1>2, <1>3, <1>4
  <2>. HIDE DEF p, q, u
  <2>. QED
    BY <2>1
<1>6. p % u = p
  <2>. HIDE DEF p, u
  <2>. QED
    BY <1>5
<1>. QED
  BY <1>6 DEF Product

LEMMA InsideStep == IInv => RegionsInside
<1>. DEFINE mapped == {n \in Nodes : use_pmem /\ "mr" \in live[n]}
<1>. SUFFICES ASSUME IInv, message_size * Connections < 2 ^ Width, NEW n \in mapped
              PROVE  /\ Region(n) \subseteq 0 .. pmem_mapped_len - 1
                     /\ \A m \in mapped \ {n} : Region(n) \cap Region(m) = {}
  BY Zenon DEF RegionsInside
<1>1. /\ message_size \in Nat \ {0} /\ pmem_mapped_len \in Nat /\ Connections \in Nat \ {0}
      /\ use_pmem \in BOOLEAN /\ TypeOK
  BY NodeResourcesAssumption DEF IInv, TypeOK
<1>2. \A m \in Nodes : /\ m \in 1 .. Connections /\ m - 1 \in 0 .. Connections
                       /\ Product(m - 1) = message_size * (m - 1)
  BY <1>1, ProductExact DEF Nodes
<1>3. pmem_mapped_len >= message_size * Connections
  <2>1. Fits
    BY DEF IInv, NothingUnmapped
  <2>2. Product(Connections) = message_size * Connections
    BY <1>1, ProductExact
  <2>. QED
    BY <2>1, <2>2 DEF Fits
<1>4. Region(n) \subseteq 0 .. pmem_mapped_len - 1
  <2>1. /\ message_size * (n - 1) \in Nat /\ message_size * Connections \in Nat
        /\ message_size * (n - 1) + message_size <= message_size * Connections
    BY <1>1, <1>2, ProductsGrow
  <2>2. Region(n) = message_size * (n - 1) .. message_size * (n - 1) + message_size - 1
    BY <1>2 DEF Region
  <2>. QED
    BY <1>1, <1>3, <2>1, <2>2
<1>5. ASSUME NEW a \in Nodes, NEW b \in Nodes, a < b
      PROVE  Region(a) \cap Region(b) = {}
  <2>1. /\ message_size * (a - 1) \in Nat /\ message_size * (b - 1) \in Nat
        /\ message_size * (a - 1) + message_size <= message_size * (b - 1)
    BY <1>1, <1>2, <1>5, ProductsGrow
  <2>2. /\ Region(a) = message_size * (a - 1) .. message_size * (a - 1) + message_size - 1
        /\ Region(b) = message_size * (b - 1) .. message_size * (b - 1) + message_size - 1
    BY <1>2 DEF Region
  <2>. QED
    BY <1>1, <2>1, <2>2
<1>6. ASSUME NEW m \in mapped \ {n}
      PROVE  Region(n) \cap Region(m) = {}
  <2>1. n < m \/ m < n
    BY <1>1 DEF Nodes
  <2>. QED
    BY <1>5, <2>1
<1>. QED
  BY <1>4, <1>6

\* However many nodes there are and whatever has failed: if the product does not
\* overflow, the nodes' regions lie in the mapped file and apart.
THEOREM MappedInside == Spec => []RegionsInside
BY InsideStep, Invariance, PTL

----------------------------------------------------------------------------
(* What is left after a failure of any call.                               *)

\* A region whose call fails is one init_node has memory for and did not get.
LEMMA GotUnregistered ==
    ASSUME program \in {"ws", "wi", "one_sided"}, NEW k \in 1 .. Len(Calls),
           NEW r \in Regions, Calls[k] = {r}, NEW failed \in (SUBSET Calls[k]) \ {{}}
    PROVE  Backing[r] \in Got(k, failed) /\ r \notin Got(k, failed)
<1>1. k > 1 /\ Calls[k - 1] = {Backing[r]}
  BY CallsFacts
<1>2. k - 1 \in 1 .. k - 1
  BY <1>1
<1>3. Backing[r] \in Before(k)
  BY <1>1, <1>2, InBefore
<1>4. r \notin Before(k)
  BY InBefore, CallsFacts
<1>5. r \notin SetOnError(Calls[k])
  BY DEF SetOnError, Regions, Backing
<1>. QED
  BY <1>3, <1>4, <1>5 DEF Got

LEMMA InitBacked == Init => RegistrationsBacked
BY DEF Init, RegistrationsBacked

\* A region with its memory, or one that a failed call for another region has
\* left over freed memory.
Backed(n, r) ==
    \/ Backing[r] \in live[n]
    \/ r \in DOMAIN FreedWith /\ FreedWith[r] \in Unregistered(n)

LEMMA BackedStep ==
    ASSUME IInv, RegistrationsBacked, [Next]_vars
    PROVE  RegistrationsBacked'
<1>0. /\ live \in [Nodes -> SUBSET (Device \cup Heap)]
      /\ fields \in [Nodes -> SUBSET (Device \cup Heap)]
      /\ program \in {"ws", "wi", "one_sided"}
  BY NodeResourcesAssumption DEF IInv, TypeOK
<1>. SUFFICES ASSUME NEW m \in Nodes, NEW r \in Regions, r \in live'[m]
              PROVE  Backed(m, r)'
  BY DEF RegistrationsBacked, Backed, Regions
<1>a. r \in live[m] => Backed(m, r)
  BY DEF RegistrationsBacked, Backed, Regions
<1>1. ASSUME live'[m] = live[m], fields'[m] = fields[m]
      PROVE  Backed(m, r)'
  <2>1. Unregistered(m)' = Unregistered(m)
    BY <1>1 DEF Unregistered
  <2>. QED
    BY <1>1, <1>a, <2>1 DEF Backed
<1>2. ASSUME NEW n \in Nodes, init_node(n) \/ connect_handler_fails(n)
      PROVE  Backed(m, r)'
  <2>. DEFINE got == Before(Len(Calls) + 1)
  <2>1. /\ live' = [live EXCEPT ![n] = got] /\ fields' = [fields EXCEPT ![n] = got]
    BY <1>2, InitNodeEffect
  <2>2. \A q \in Regions : q \in got => Backing[q] \in got
    <3>1. Len(Calls) + 1 \in 1 .. Len(Calls) + 1
      BY <1>0, CallsCounted
    <3>. QED
      BY <1>0, <3>1, BeforeBacked
  <2>. HIDE DEF got
  <2>3. CASE m = n
    BY <1>0, <2>1, <2>2, <2>3 DEF Backed
  <2>4. CASE m # n
    BY <1>0, <1>1, <2>1, <2>4
  <2>. QED
    BY <2>3, <2>4
<1>3. ASSUME NEW n \in Nodes, NEW k \in 1 .. Len(Calls), init_node_fails(n, k)
      PROVE  Backed(m, r)'
  <2>1. PICK failed \in (SUBSET Calls[k]) \ {{}} :
          /\ fields' = [fields EXCEPT ![n] = Got(k, failed)]
          /\ live' = [live EXCEPT ![n] = Got(k, failed) \ FreedOnError(Calls[k])]
    BY <1>3, FailureEffect
  <2>2. CASE m # n
    <3>1. live'[m] = live[m] /\ fields'[m] = fields[m]
      BY <1>0, <2>1, <2>2
    <3>. QED
      BY <1>1, <3>1
  <2>3. CASE m = n
    <3>1. live'[m] = Got(k, failed) \ FreedOnError(Calls[k]) /\ fields'[m] = Got(k, failed)
      BY <1>0, <2>1, <2>3
    <3>2. r \in Before(k) /\ Backing[r] \in Got(k, failed)
      <4>1. r \in Got(k, failed)
        BY <3>1
      <4>. QED
        BY <1>0, <4>1, GotBacked DEF Got
    <3>3. Calls[k] # {r}
      <4>1. PICK j \in 1 .. k - 1 : r \in Calls[j]
        BY <3>2, InBefore
      <4>2. Calls[j] \cap Calls[k] = {}
        BY <1>0, CallsFacts
      <4>. QED
        BY <4>1, <4>2
    <3>4. ASSUME NEW q \in Regions, Calls[k] = {q}
          PROVE  q \in Unregistered(m)'
      <4>1. Backing[q] \in fields'[m] /\ q \notin fields'[m]
        BY <1>0, <3>1, <3>4, GotUnregistered
      <4>. QED
        BY <4>1 DEF Unregistered, Regions
    <3>5. CASE Backing[r] \notin FreedOnError(Calls[k])
      BY <3>1, <3>2, <3>5 DEF Backed
    <3>6. CASE Backing[r] \in FreedOnError(Calls[k])
      <4>1. CASE Calls[k] = {"flush_notification_mr"}
        <5>1. Backing[r] \in {"flush_request", "flush_notification"}
          BY <3>6, <4>1 DEF FreedOnError
        <5>2. r = "flush_request_mr"
          BY <3>3, <4>1, <5>1 DEF Regions, Backing
        <5>3. "flush_notification_mr" \in Regions
          BY DEF Regions, Backing
        <5>. QED
          BY <3>4, <4>1, <5>2, <5>3 DEF Backed, FreedWith
      <4>2. CASE Calls[k] = {"src_mem_mr"}
        <5>1. Backing[r] = "mem"
          BY <3>6, <4>2 DEF FreedOnError
        <5>2. r = "mr"
          BY <5>1 DEF Regions, Backing
        <5>3. "src_mem_mr" \in Regions
          BY DEF Regions, Backing
        <5>. QED
          BY <3>4, <4>2, <5>2, <5>3 DEF Backed, FreedWith
      <4>3. CASE Calls[k] = {"metadata_mr"}
        <5>1. Backing[r] = "metadata"
          BY <3>6, <4>3 DEF FreedOnError
        <5>2. r = "metadata_mr"
          BY <5>1 DEF Regions, Backing
        <5>. QED
          BY <3>3, <4>3, <5>2
      <4>4. CASE Calls[k] = {"flush_request_mr"}
        <5>1. Backing[r] = "flush_request"
          BY <3>6, <4>4 DEF FreedOnError
        <5>2. r = "flush_request_mr"
          BY <5>1 DEF Regions, Backing
        <5>. QED
          BY <3>3, <4>4, <5>2
      <4>5. CASE Calls[k] = {"mr"}
        <5>1. Backing[r] = "mem"
          BY <3>6, <4>5 DEF FreedOnError
        <5>2. r = "mr"
          BY <5>1 DEF Regions, Backing
        <5>. QED
          BY <3>3, <4>5, <5>2
      <4>6. CASE Calls[k] \notin {{"metadata_mr"}, {"flush_request_mr"}, {"flush_notification_mr"},
                                  {"mr"}, {"src_mem_mr"}}
        BY <3>6, <4>6 DEF FreedOnError
      <4>. QED
        BY <4>1, <4>2, <4>3, <4>4, <4>5, <4>6
    <3>. QED
      BY <3>5, <3>6
  <2>. QED
    BY <2>2, <2>3
<1>4. CASE destroy_node
  <2>1. i \in Nodes /\ use_pmem \in BOOLEAN /\ Done \in Nat /\ Done + 1 \in 1 .. Len(Releases)
        /\ fields' = fields
        /\ \A k \in 1 .. Done : Releases[k].field \in fields[i] => Releases[k].what \notin live[i]
    BY <1>4, ReleaseEffect
  <2>2. CASE live' = live
    BY <1>1, <2>1, <2>2
  <2>3. CASE live' # live
    <3>. DEFINE what == Releases[Done + 1].what
    <3>1. /\ Releases[Done + 1].field \in fields[i]
          /\ live' = [live EXCEPT ![i] = live[i] \ {what}]
      BY <1>4, <2>3, ReleaseEffect
    <3>2. ASSUME what = Backing[r]
          PROVE  r \notin live[i]
      <4>1. /\ Releases[Done + 1].field = Backing[r]
            /\ Done + 1 > 1 /\ Releases[Done].what = r /\ Releases[Done].field = Backing[r]
        BY <2>1, <3>1, <3>2, ReleasesFacts
      <4>2. Done \in 1 .. Done
        BY <2>1, <4>1
      <4>. QED
        BY <2>1, <3>1, <4>1, <4>2
    <3>. HIDE DEF what
    <3>3. CASE m # i
      BY <1>0, <1>1, <2>1, <3>1, <3>3
    <3>4. CASE m = i
      <4>1. r \in live[i] /\ live'[m] = live[m] \ {what}
        BY <1>0, <3>1, <3>4
      <4>2. Backed(m, r) /\ what # Backing[r]
        BY <1>a, <3>2, <3>4, <4>1
      <4>3. Unregistered(m)' = Unregistered(m)
        BY <2>1 DEF Unregistered
      <4>. QED
        BY <4>1, <4>2, <4>3 DEF Backed
    <3>. QED
      BY <3>3, <3>4
  <2>. QED
    BY <2>2, <2>3
<1>5. CASE live' = live /\ fields' = fields
  BY <1>1, <1>5
<1>6. \/ live' = live /\ fields' = fields
      \/ \E n \in Nodes : init_node(n) \/ connect_handler_fails(n)
      \/ \E n \in Nodes, k \in 1 .. Len(Calls) : init_node_fails(n, k)
      \/ destroy_node
  BY DEF Next, Stopped, vars, create_id, map_pmem, unwind, run_ends, next_node, free_nodes
<1>. QED
  BY <1>2, <1>3, <1>4, <1>5, <1>6

\* Whichever calls fail, the adapter has a region registered over freed memory
\* only where an error path of init_node has put it there: init_node registers
\* memory it has, and destroy_node frees it after its region.
THEOREM RegionsBacked == Spec => []RegistrationsBacked
<1>1. IInv /\ RegistrationsBacked /\ [Next]_vars => RegistrationsBacked'
  BY BackedStep
<1>. QED
  BY <1>1, InitBacked, Invariance, PTL DEF Spec

\* destroy_node would release a region of node n that init_node did not get.
Bad(n) == Unregistered(n) \cap {"metadata_mr", "mr", "src_mem_mr"} # {}

\* The k-th release of node n, if it is made, finds what it releases.
Finds(n, k) == Releases[k].field \in fields[n] => Releases[k].what \in live[n]

\* Every release still to come finds what it releases, at the nodes that have
\* every region they have memory for.
Ready ==
    \A n \in Nodes, k \in 1 .. Len(Releases) : ~Bad(n) =>
        /\ pc \in {"alloc", "unwind", "run"} => Finds(n, k)
        /\ pc = "destroy" /\ (n > i \/ (n = i /\ (release = <<>> \/ k > Done))) => Finds(n, k)

\* init_node has registered the region by the time it is past the memory's call.
LEMMA RegionFollows ==
    ASSUME program \in {"ws", "wi", "one_sided"}, NEW k \in 1 .. Len(Calls) + 1,
           NEW r \in Regions, Backing[r] \in Before(k)
    PROVE  r \in Before(k) \/ (k <= Len(Calls) /\ Calls[k] = {r})
<1>1. PICK j \in 1 .. k - 1 : Backing[r] \in Calls[j]
  BY InBefore
<1>2. j \in 1 .. Len(Calls) /\ Len(Calls) \in Nat
  BY CallsCounted
<1>3. j < Len(Calls) /\ Calls[j + 1] = {r}
  BY <1>1, <1>2, CallsFacts
<1>4. CASE j + 1 \in 1 .. k - 1
  <2>1. r \in Calls[j + 1]
    BY <1>3
  <2>2. r \in Before(k)
    BY <1>4, <2>1, InBefore
  <2>. QED
    BY <2>2
<1>5. CASE j + 1 \notin 1 .. k - 1
  <2>1. k = j + 1
    BY <1>2, <1>5
  <2>. QED
    BY <1>2, <1>3, <2>1
<1>. QED
  BY <1>4, <1>5

LEMMA SuccessFinds ==
    ASSUME program \in {"ws", "wi", "one_sided"}, use_pmem \in BOOLEAN,
           NEW k \in 1 .. Len(Releases), Releases[k].field \in Before(Len(Calls) + 1)
    PROVE  Releases[k].what \in Before(Len(Calls) + 1)
<1>1. CASE Releases[k].what = Releases[k].field
  BY <1>1
<1>2. CASE Releases[k].what # Releases[k].field
  <2>1. Releases[k].what \in Regions /\ Backing[Releases[k].what] = Releases[k].field
    BY <1>2, ReleasesFacts DEF Regions, Backing
  <2>2. Len(Calls) + 1 \in 1 .. Len(Calls) + 1 /\ ~(Len(Calls) + 1 <= Len(Calls))
    BY CallsCounted
  <2>. QED
    BY <2>1, <2>2, RegionFollows
<1>. QED
  BY <1>1, <1>2

LEMMA FailureFinds ==
    ASSUME program \in {"ws", "wi", "one_sided"}, use_pmem \in BOOLEAN,
           NEW c \in 1 .. Len(Calls), NEW failed \in (SUBSET Calls[c]) \ {{}},
           \A r \in {"metadata_mr", "mr", "src_mem_mr"} :
             Backing[r] \in Got(c, failed) => r \in Got(c, failed),
           NEW k \in 1 .. Len(Releases), Releases[k].field \in Got(c, failed)
    PROVE  Releases[k].what \in Got(c, failed) \ FreedOnError(Calls[c])
<1>0. c \in 1 .. Len(Calls) + 1
  BY CallsCounted
<1>. DEFINE field == Releases[k].field
            what == Releases[k].what
<1>1. \A call \in {"metadata_mr", "mr", "src_mem_mr"} : Calls[c] # {call}
  <2>. SUFFICES ASSUME NEW call \in {"metadata_mr", "mr", "src_mem_mr"}, Calls[c] = {call}
                PROVE  FALSE
    OBVIOUS
  <2>1. call \in Regions
    BY DEF Regions, Backing
  <2>. QED
    BY <2>1, GotUnregistered
<1>2. SetOnError(Calls[c]) = {}
  <2>. SUFFICES ASSUME Calls[c] = {"mem"}, use_pmem
                PROVE  FALSE
    BY DEF SetOnError
  <2>1. "mem" \in Got(c, failed)
    BY DEF Got, SetOnError
  <2>2. "mr" \in Got(c, failed) /\ "mr" \in Regions /\ Backing["mr"] = "mem"
    BY <2>1 DEF Regions, Backing
  <2>3. "mem" \in Before(c)
    BY <2>2, GotBacked
  <2>. QED
    BY <2>3, InBefore, CallsFacts
<1>3. FreedOnError(Calls[c]) \subseteq {"flush_request", "flush_notification"}
  <2>1. CASE Calls[c] = {"flush_request_mr"}
    BY <2>1 DEF FreedOnError
  <2>2. CASE Calls[c] = {"flush_notification_mr"}
    BY <2>2 DEF FreedOnError
  <2>3. CASE Calls[c] # {"flush_request_mr"} /\ Calls[c] # {"flush_notification_mr"}
    BY <1>1, <2>3 DEF FreedOnError
  <2>. QED
    BY <2>1, <2>2, <2>3
<1>4. /\ field \in {"qp", "send_cq", "recv_cq", "mem", "src_mem", "metadata", "stats", "pd"}
      /\ \/ what = field
         \/ what = "mr" /\ field = "mem"
         \/ what = "src_mem_mr" /\ field = "src_mem"
         \/ what = "metadata_mr" /\ field = "metadata"
  BY ReleasesFacts
<1>5. what \notin FreedOnError(Calls[c])
  BY <1>3, <1>4
<1>6. CASE what = field
  BY <1>5, <1>6
<1>7. CASE what # field
  <2>1. /\ what \in Regions /\ Backing[what] = field /\ what \in {"metadata_mr", "mr", "src_mem_mr"}
    BY <1>4, <1>7 DEF Regions, Backing
  <2>2. field \in Before(c)
    <3>1. field \in Before(c) \/ field \in Calls[c] \ failed
      BY <1>2 DEF Got
    <3>2. field \in Calls[c] => Calls[c] = {field}
      BY <2>1, CallsFacts
    <3>. QED
      BY <3>1, <3>2
  <2>3. what \in Before(c)
    BY <1>0, <1>1, <2>1, <2>2, RegionFollows
  <2>. QED
    BY <1>5, <2>3 DEF Got
<1>. QED
  BY <1>6, <1>7

\* What destroy_node has still to release is not what it releases now.
LEMMA RestIsDistinct ==
    ASSUME use_pmem \in BOOLEAN, Len(Releases) \in Nat, Done \in Nat,
           Done + 1 \in 1 .. Len(Releases), NEW k \in 1 .. Len(Releases), k > Done + 1
    PROVE  Releases[k].what # Releases[Done + 1].what
<1>1. Done + 1 \in 1 .. k - 1
  OBVIOUS
<1>. QED
  BY <1>1, ReleasesFacts

LEMMA ReadyStep ==
    ASSUME IInv, Ready, [Next]_vars
    PROVE  Ready'
<1>0. /\ live \in [Nodes -> SUBSET (Device \cup Heap)]
      /\ fields \in [Nodes -> SUBSET (Device \cup Heap)]
      /\ program \in {"ws", "wi", "one_sided"} /\ use_pmem \in BOOLEAN
      /\ Control /\ i \in 0 .. Connections + 1 /\ Connections \in Nat
      /\ pc \in {"alloc", "unwind", "run", "destroy", "exit", "crashed"}
  BY NodeResourcesAssumption DEF IInv, TypeOK
<1>a. UNCHANGED arguments /\ Len(Releases) \in Nat
  BY <1>0, PdLast DEF Next, Stopped, vars, create_id, map_pmem, unwind, init_node,
        init_node_fails, connect_handler_fails, run_ends, next_node, destroy_node, free_nodes
<1>b. Releases' = Releases /\ use_pmem' = use_pmem
  BY <1>a, Same
\* A step that leaves the nodes as they are, and releases no less.
<1>1. ASSUME UNCHANGED <<fields, live>>,
             \A n \in Nodes, k \in 1 .. Len(Releases) :
               /\ pc' \in {"alloc", "unwind", "run"} => pc \in {"alloc", "unwind", "run"}
               /\ pc' = "destroy" /\ (n > i' \/ (n = i' /\ (release' = <<>> \/ k > Done'))) =>
                    \/ pc \in {"alloc", "unwind", "run"}
                    \/ pc = "destroy" /\ (n > i \/ (n = i /\ (release = <<>> \/ k > Done)))
      PROVE  Ready'
  <2>. SUFFICES ASSUME NEW n \in Nodes, NEW k \in 1 .. Len(Releases), ~Bad(n)',
                       \/ pc' \in {"alloc", "unwind", "run"}
                       \/ pc' = "destroy" /\ (n > i' \/ (n = i' /\ (release' = <<>> \/ k > Done')))
                PROVE  Finds(n, k)'
    BY <1>b DEF Ready
  <2>1. ~Bad(n)
    BY <1>1 DEF Bad, Unregistered
  <2>2. Finds(n, k)
    BY <1>1, <2>1 DEF Ready
  <2>. QED
    BY <1>b, <1>1, <2>2 DEF Finds
<1>2. CASE create_id \/ map_pmem \/ unwind \/ free_nodes \/ run_ends
  <2>1. UNCHANGED <<fields, live>> /\ pc' \in {"alloc", "unwind", "run", "exit", "crashed", "destroy"}
        /\ (pc' \in {"alloc", "unwind", "run", "destroy"} => pc \in {"alloc", "unwind", "run"})
    BY <1>2 DEF create_id, map_pmem, unwind, free_nodes, run_ends
  <2>. QED
    BY <1>1, <2>1
<1>3. CASE UNCHANGED vars
  <2>1. UNCHANGED <<fields, live, pc, i, release>> /\ Done' = Done
    BY <1>3, <1>b DEF vars, Done
  <2>. QED
    BY <1>1, <2>1
<1>4. CASE next_node
  <2>1. /\ pc = "destroy" /\ pc' = pc /\ release = <<>> /\ UNCHANGED <<fields, live>>
        /\ i' = i \/ i' = i + 1
    BY <1>4 DEF next_node
  <2>2. \A n \in Nodes : n >= i' => n >= i
    BY <1>0, <2>1 DEF Nodes
  <2>3. \A n \in Nodes : n > i' \/ n = i' => n > i \/ n = i
    BY <1>0, <2>1 DEF Nodes
  <2>. QED
    BY <1>1, <2>1, <2>3
<1>5. CASE destroy_node
  <2>1. /\ i \in Nodes /\ pc = "destroy" /\ release # <<>> /\ UNCHANGED fields
        /\ Len(release) \in Nat \ {0} /\ Done \in Nat /\ Done + 1 \in 1 .. Len(Releases)
        /\ Len(release') = Len(release) - 1
        /\ IF Len(release) = 1 THEN i' = i + 1 ELSE i' = i
        /\ live' = live \/ live' = [live EXCEPT ![i] = live[i] \ {Releases[Done + 1].what}]
    <3>1. release # <<>>
      BY <1>5 DEF destroy_node
    <3>. QED
      BY <1>5, <3>1, ReleaseEffect
  <2>. SUFFICES ASSUME NEW n \in Nodes, NEW k \in 1 .. Len(Releases), ~Bad(n)',
                       pc' = "destroy", n > i' \/ (n = i' /\ (release' = <<>> \/ k > Done'))
                PROVE  Finds(n, k)'
    <3>1. pc' \notin {"alloc", "unwind", "run"}
      BY <1>5, ReleaseEffect
    <3>. QED
      BY <1>b, <3>1 DEF Ready
  <2>a. ~Bad(n)
    BY <2>1 DEF Bad, Unregistered
  <2>2. CASE n > i
    <3>1. Finds(n, k)
      BY <2>1, <2>2, <2>a DEF Ready
    <3>2. live'[n] = live[n]
      BY <1>0, <2>1, <2>2 DEF Nodes
    <3>. QED
      BY <1>b, <2>1, <3>1, <3>2 DEF Finds
  <2>3. CASE ~(n > i)
    <3>1. n = i /\ i' = i /\ Len(release) # 1
      BY <2>1, <2>3 DEF Nodes
    <3>2. release' # <<>> /\ Done' = Done + 1
      BY <1>a, <1>b, <2>1, <3>1 DEF Done
    <3>3. k > Done + 1
      BY <2>1, <3>1, <3>2 DEF Nodes
    <3>4. Finds(n, k)
      BY <2>1, <2>a, <3>1, <3>3 DEF Ready
    <3>5. Releases[k].what # Releases[Done + 1].what
      BY <1>0, <1>a, <2>1, <3>3, RestIsDistinct
    <3>6. Releases[k].what \in live[n] => Releases[k].what \in live'[n]
      BY <1>0, <2>1, <3>1, <3>5
    <3>. QED
      BY <1>b, <2>1, <3>4, <3>6 DEF Finds
  <2>. QED
    BY <2>2, <2>3
<1>6. ASSUME NEW n \in Nodes, NEW got, NEW kept, pc = "run",
             fields' = [fields EXCEPT ![n] = got], live' = [live EXCEPT ![n] = kept],
             (\A r \in {"metadata_mr", "mr", "src_mem_mr"} : Backing[r] \in got => r \in got)
               => \A k \in 1 .. Len(Releases) : Releases[k].field \in got => Releases[k].what \in kept
      PROVE  Ready'
  <2>. SUFFICES ASSUME NEW m \in Nodes, NEW k \in 1 .. Len(Releases), ~Bad(m)'
                PROVE  Finds(m, k)'
    BY <1>b DEF Ready
  <2>2. CASE m = n
    <3>1. fields'[m] = got /\ live'[m] = kept
      BY <1>0, <1>6, <2>2
    <3>2. ASSUME NEW r \in {"metadata_mr", "mr", "src_mem_mr"}, Backing[r] \in got
          PROVE  r \in got
      <4>1. r \notin Unregistered(m)'
        BY DEF Bad
      <4>2. r \in DOMAIN Backing
        BY DEF Backing
      <4>. QED
        BY <3>1, <3>2, <4>1, <4>2 DEF Unregistered
    <3>3. Releases[k].field \in got => Releases[k].what \in kept
      BY <1>6, <3>2
    <3>. QED
      BY <1>b, <3>1, <3>3 DEF Finds
  <2>3. CASE m # n
    <3>1. fields'[m] = fields[m] /\ live'[m] = live[m]
      BY <1>0, <1>6, <2>3
    <3>2. ~Bad(m)
      BY <3>1 DEF Bad, Unregistered
    <3>3. Finds(m, k)
      BY <1>6, <3>2 DEF Ready
    <3>. QED
      BY <1>b, <3>1, <3>3 DEF Finds
  <2>. QED
    BY <2>2, <2>3
<1>7. ASSUME NEW n \in Nodes, init_node(n) \/ connect_handler_fails(n)
      PROVE  Ready'
  <2>. DEFINE got == Before(Len(Calls) + 1)
  <2>1. /\ pc = "run" /\ fields' = [fields EXCEPT ![n] = got]
        /\ live' = [live EXCEPT ![n] = got]
    BY <1>7, InitNodeEffect
  <2>2. \A k \in 1 .. Len(Releases) : Releases[k].field \in got => Releases[k].what \in got
    BY <1>0, SuccessFinds
  <2>. HIDE DEF got
  <2>. QED
    BY <1>6, <2>1, <2>2
<1>8. ASSUME NEW n \in Nodes, NEW c \in 1 .. Len(Calls), init_node_fails(n, c)
      PROVE  Ready'
  <2>1. PICK failed \in (SUBSET Calls[c]) \ {{}} :
          /\ fields' = [fields EXCEPT ![n] = Got(c, failed)]
          /\ live' = [live EXCEPT ![n] = Got(c, failed) \ FreedOnError(Calls[c])]
    BY <1>8, FailureEffect
  <2>2. pc = "run"
    BY <1>8 DEF init_node_fails
  <2>. DEFINE got == Got(c, failed)
              kept == got \ FreedOnError(Calls[c])
  <2>3. (\A r \in {"metadata_mr", "mr", "src_mem_mr"} : Backing[r] \in got => r \in got)
          => \A k \in 1 .. Len(Releases) : Releases[k].field \in got => Releases[k].what \in kept
    BY <1>0, FailureFinds
  <2>4. fields' = [fields EXCEPT ![n] = got] /\ live' = [live EXCEPT ![n] = kept]
    BY <2>1
  <2>. HIDE DEF got, kept
  <2>. QED
    BY <1>6, <2>2, <2>3, <2>4
<1>. QED
  BY <1>2, <1>3, <1>4, <1>5, <1>7, <1>8 DEF Next, Stopped

LEMMA InitReady == Init => Ready
BY DEF Init, Ready, Finds

\* destroy_node has not come past a release of what init_node did not get.
Passed ==
    pc = "destroy" /\ release # <<>> =>
        \A k \in 1 .. Done : Releases[k].field \in fields[i] => Releases[k].what \in fields[i]

LEMMA PassedStep ==
    ASSUME IInv, Passed, [Next]_vars
    PROVE  Passed'
<1>0. use_pmem \in BOOLEAN /\ Control
  BY DEF IInv, TypeOK
<1>a. UNCHANGED arguments /\ Len(Releases) \in Nat
  BY <1>0, PdLast DEF Next, Stopped, vars, create_id, map_pmem, unwind, init_node,
        init_node_fails, connect_handler_fails, run_ends, next_node, destroy_node, free_nodes
<1>b. Releases' = Releases
  BY <1>a, Same
<1>1. CASE next_node
  <2>1. release' = <<>> \/ release' = Releases
    BY <1>1 DEF next_node
  <2>2. CASE release' = <<>>
    BY <2>2 DEF Passed
  <2>3. CASE release' = Releases
    <3>1. Done' = 0
      BY <1>a, <1>b, <2>3 DEF Done
    <3>. QED
      BY <3>1 DEF Passed
  <2>. QED
    BY <2>1, <2>2, <2>3
<1>2. CASE destroy_node
  <2>. SUFFICES ASSUME pc' = "destroy", release' # <<>>, NEW k \in 1 .. Done',
                       Releases[k].field \in fields[i']
                PROVE  Releases[k].what \in fields[i']
    BY <1>2, <1>b DEF Passed, destroy_node
  <2>1. /\ i \in Nodes /\ pc = "destroy" /\ Done \in Nat
        /\ Len(release) \in Nat \ {0} /\ Len(release') = Len(release) - 1
        /\ release' \in Seq([field : Device \cup Heap, what : Device \cup Heap])
        /\ Len(release) # 1 => i' = i
        /\ Releases[Done + 1].field \in fields[i] => Releases[Done + 1].what \in live[i]
    BY <1>2, ReleaseEffect
  <2>2. release # <<>> /\ Len(release) # 1 /\ i' = i
    BY <1>2, <2>1 DEF destroy_node
  <2>3. Done' = Done + 1
    BY <1>a, <1>b, <2>1 DEF Done
  <2>4. live[i] \subseteq fields[i]
    BY <2>1 DEF IInv, Owned
  <2>5. CASE k \in 1 .. Done
    BY <2>1, <2>2, <2>5 DEF Passed
  <2>6. CASE k = Done + 1
    BY <2>1, <2>2, <2>4, <2>6
  <2>. QED
    BY <2>1, <2>3, <2>5, <2>6
<1>3. CASE UNCHANGED vars
  <2>1. UNCHANGED <<pc, release, fields, i>> /\ Done' = Done
    BY <1>3, <1>b DEF vars, Done
  <2>. QED
    BY <1>b, <2>1 DEF Passed
<1>4. CASE release = <<>> /\ release' = release
  BY <1>4 DEF Passed
<1>5. CASE free_nodes
  <2>1. release' = <<>>
    BY <1>5 DEF free_nodes
  <2>. QED
    BY <2>1 DEF Passed
<1>6. CASE /\ pc \in {"alloc", "unwind", "run"} /\ release' = release
  BY <1>0, <1>4, <1>6 DEF Control
<1>. QED
  BY <1>1, <1>2, <1>3, <1>5, <1>6 DEF Next, Stopped, create_id, map_pmem, unwind, init_node,
     init_node_fails, connect_handler_fails, run_ends

\* While it unwinds after a failed rdma_create_id, alloc_nodes has a cm_id for
\* every node still to go.
Unwound ==
    /\ pc = "alloc" => ret # "error" /\ (is_client => 1 .. i - 1 \subseteq id)
    /\ pc = "unwind" => use_pmem \/ ret = "error"
    /\ pc = "unwind" /\ ret = "error" => 1 .. i \subseteq id

LEMMA UnwoundStep ==
    ASSUME IInv, Unwound, [Next]_vars
    PROVE  Unwound'
<1>0. i \in 0 .. Connections + 1 /\ Connections \in Nat
  BY NodeResourcesAssumption DEF IInv, TypeOK
<1>1. CASE create_id
  <2>1. /\ pc = "alloc" /\ UNCHANGED <<is_client, use_pmem>>
        /\ \/ /\ pc' = pc /\ i' = i + 1 /\ ret' \in {"ok", ret}
              /\ (is_client => id' = id \cup {i})
           \/ /\ pc' = "unwind" /\ ret' = "error" /\ i' = i - 1 /\ id' = id /\ is_client
    BY <1>1 DEF create_id, arguments
  <2>2. \A j \in 1 .. i' - 1 : i' = i + 1 => j \in 1 .. i - 1 \/ j = i
    BY <1>0
  <2>3. i' = i - 1 => 1 .. i' \subseteq 1 .. i - 1
    BY <1>0
  <2>. QED
    BY <2>1, <2>2, <2>3 DEF Unwound
<1>2. CASE map_pmem
  BY <1>2 DEF map_pmem, arguments, Unwound
<1>3. CASE unwind
  <2>1. /\ pc = "unwind" /\ UNCHANGED <<ret, use_pmem>> /\ pc' \in {"unwind", "exit", "crashed"}
        /\ pc' = "unwind" => i > 0 /\ i' = i - 1 /\ id' = id \ {i}
    BY <1>3 DEF unwind, arguments
  <2>2. i' = i - 1 => 1 .. i' \subseteq (1 .. i) \ {i}
    BY <1>0
  <2>. QED
    BY <2>1, <2>2 DEF Unwound
<1>4. CASE UNCHANGED vars
  BY <1>4 DEF vars, arguments, Unwound
<1>5. CASE pc \in {"run", "destroy"} /\ pc' \in {"run", "destroy", "exit", "crashed"}
  BY <1>5 DEF Unwound
<1>6. destroy_node => pc = "destroy" /\ pc' \in {"destroy", "crashed"}
  BY ReleaseEffect
<1>. QED
  BY <1>1, <1>2, <1>3, <1>4, <1>5, <1>6 DEF Next, Stopped, init_node, init_node_fails,
     connect_handler_fails, run_ends, next_node, free_nodes

\* The last release of a node whose destruction ends leaves what destroy_node
\* knows nothing of, and ends no node it cannot finish.
LEMMA LastRelease ==
    ASSUME IInv, Passed, destroy_node, Len(release) = 1
    PROVE  /\ ~Bad(i)
           /\ live'[i] \subseteq Leaked(i)
<1>1. /\ i \in Nodes /\ Done \in Nat /\ use_pmem \in BOOLEAN /\ Len(Releases) \in Nat
      /\ release # <<>> /\ pc = "destroy" /\ use_pmem' = use_pmem
      /\ \A k \in 1 .. Done : Releases[k].field \in fields[i] => Releases[k].what \notin live[i]
  BY ReleaseEffect DEF destroy_node, arguments
<1>2. Done = Len(Releases) - 1
  BY <1>1 DEF Done
<1>3. \A k \in 1 .. Done : Releases[k].field \in fields[i] => Releases[k].what \in fields[i]
  BY <1>1 DEF Passed
<1>4. /\ live \in [Nodes -> SUBSET (Device \cup Heap)]
      /\ live[i] \subseteq fields[i] /\ live[i] \subseteq Device \cup Heap
      /\ \A r \in Regions : r \in fields[i] => Backing[r] \in fields[i]
  BY <1>1 DEF IInv, Owned, TypeOK
<1>5. ~Bad(i)
  <2>. SUFFICES ASSUME NEW r \in {"metadata_mr", "mr", "src_mem_mr"}, r \in Unregistered(i)
                PROVE  FALSE
    BY DEF Bad
  <2>1. PICK k \in 1 .. Done : Releases[k].what = r /\ Releases[k].field = Backing[r]
    BY <1>1, <1>2, PdLast
  <2>. QED
    BY <1>3, <2>1 DEF Unregistered
<1>6. \A x \in {"qp", "send_cq", "recv_cq", "src_mem", "metadata", "stats"}
               \cup (IF use_pmem THEN {} ELSE {"mem"}) : x \notin live[i]
  <2>. SUFFICES ASSUME NEW x \in {"qp", "send_cq", "recv_cq", "src_mem", "metadata", "stats"}
                                 \cup (IF use_pmem THEN {} ELSE {"mem"}), x \in live[i]
                PROVE  FALSE
    OBVIOUS
  <2>1. PICK k \in 1 .. Done : Releases[k].what = x /\ Releases[k].field = x
    <3>1. CASE x \in {"qp", "send_cq", "recv_cq"}
      BY <1>1, <1>2, <3>1, PdLast
    <3>2. CASE x \in {"src_mem", "metadata", "stats"} \cup (IF use_pmem THEN {} ELSE {"mem"})
      BY <1>1, <1>2, <3>2, PdLast
    <3>. QED
      BY <3>1, <3>2
  <2>. QED
    BY <1>1, <1>4, <2>1
<1>7. \A x \in {"mr", "src_mem_mr", "metadata_mr"} : x \notin live[i]
  <2>. SUFFICES ASSUME NEW x \in {"mr", "src_mem_mr", "metadata_mr"}, x \in live[i]
                PROVE  FALSE
    OBVIOUS
  <2>1. PICK k \in 1 .. Done : Releases[k].what = x /\ Releases[k].field = Backing[x]
    BY <1>1, <1>2, PdLast
  <2>2. x \in Regions
    BY DEF Regions, Backing
  <2>. QED
    BY <1>1, <1>4, <2>1, <2>2
<1>8. live[i] \subseteq {"comp_channel", "flush_request", "flush_request_mr", "flush_notification",
                         "flush_notification_mr", "pd"} \cup (IF use_pmem THEN {"mem"} ELSE {})
  BY <1>4, <1>6, <1>7 DEF Device, Heap
<1>9. Releases[Done + 1].field = "pd" /\ Releases[Done + 1].what = "pd"
  BY <1>1, <1>2, PdLast
<1>10. CASE {"flush_request_mr", "flush_notification_mr"} \cap live[i] # {}
  <2>1. Blocks("pd") \cap live[i] # {}
    BY <1>10 DEF Blocks, Device
  <2>2. live' = live
    BY <1>9, <2>1, ReleaseEffect
  <2>. QED
    BY <1>1, <1>5, <1>8, <1>10, <2>2 DEF Leaked
<1>11. CASE {"flush_request_mr", "flush_notification_mr"} \cap live[i] = {}
  <2>1. Blocks("pd") \cap live[i] = {}
    BY <1>6, <1>7, <1>11 DEF Blocks, Device
  <2>2. live'[i] = live[i] \ {"pd"}
    <3>1. \/ "pd" \notin live[i] /\ live' = live
          \/ live' = [live EXCEPT ![i] = live[i] \ {"pd"}]
      BY <1>4, <1>9, <2>1, ReleaseEffect
    <3>. QED
      BY <1>1, <1>4, <3>1
  <2>. QED
    BY <1>1, <1>5, <1>8, <1>11, <2>2 DEF Leaked
<1>. QED
  BY <1>10, <1>11

\* Whichever calls fail: destroy_node meets what is not there only at a node whose
\* metadata, mem or src_mem has no region, and there always; it leaves nothing
\* behind that it knows of; and alloc_nodes' unwinding goes wrong only with --pmem.
THEOREM CleanupDecided == Spec => CleanupOutcome
<1>. DEFINE A == LET bad(n) == Unregistered(n) \cap {"metadata_mr", "mr", "src_mem_mr"} # {} IN
                 /\ pc = "destroy" /\ pc' = "crashed" => bad(i)
                 /\ pc = "destroy" /\ pc' = "destroy" =>
                      \A n \in id \ id' : ~bad(n) /\ live'[n] \subseteq Leaked(n)
                 /\ pc = "unwind" /\ pc' = "crashed" => use_pmem /\ ret # "error"
<1>1. ASSUME IInv, Ready, Passed, Unwound, Next
      PROVE  A
  <2>0. pc = "destroy" => destroy_node \/ next_node \/ free_nodes
    BY <1>1 DEF Next, Stopped, create_id, map_pmem, unwind, init_node,
         init_node_fails, connect_handler_fails, run_ends
  <2>1. ASSUME pc = "destroy", pc' = "crashed"
        PROVE  Bad(i)
    <3>1. destroy_node
      BY <2>0, <2>1 DEF next_node, free_nodes
    <3>2. /\ i \in Nodes /\ Done + 1 \in 1 .. Len(Releases) /\ Done \in Nat
          /\ Releases[Done + 1].field \in fields[i] /\ Releases[Done + 1].what \notin live[i]
      BY <1>1, <2>1, <3>1, ReleaseEffect
    <3>3. ~Bad(i) => Finds(i, Done + 1)
      BY <1>1, <2>1, <3>2 DEF Ready
    <3>. QED
      BY <3>2, <3>3 DEF Finds
  <2>2. ASSUME pc = "destroy", NEW n \in id \ id'
        PROVE  ~Bad(n) /\ live'[n] \subseteq Leaked(n)
    <3>1. destroy_node
      BY <2>0, <2>2 DEF next_node, free_nodes
    <3>2. Len(release) = 1 /\ n = i
      BY <1>1, <3>1, ReleaseEffect
    <3>. QED
      BY <1>1, <3>1, <3>2, LastRelease
  <2>3. ASSUME pc = "unwind", pc' = "crashed"
        PROVE  use_pmem /\ ret # "error"
    <3>1. unwind
      BY <1>1, <2>3 DEF Next, Stopped, vars, create_id, map_pmem, init_node, init_node_fails,
           connect_handler_fails, run_ends, next_node, destroy_node, free_nodes
    <3>2. (i > 0 /\ i \notin id) \/ ret # "error"
      BY <2>3, <3>1 DEF unwind
    <3>3. i \in 0 .. Connections + 1 /\ Connections \in Nat
      BY <1>1, NodeResourcesAssumption DEF IInv, TypeOK
    <3>. QED
      BY <1>1, <2>3, <3>2, <3>3 DEF Unwound
  <2>. QED
    BY <2>1, <2>2, <2>3 DEF Bad
<1>2. IInv /\ Ready /\ Passed /\ Unwound /\ [Next]_vars => [A]_vars
  BY <1>1
<1>3. IInv /\ Ready /\ [Next]_vars => Ready'
  BY ReadyStep
<1>4. IInv /\ Passed /\ [Next]_vars => Passed'
  BY PassedStep
<1>5. IInv /\ Unwound /\ [Next]_vars => Unwound'
  BY UnwoundStep
<1>6. Init => Passed /\ Unwound
  BY DEF Init, Passed, Unwound
<1>. QED
  BY <1>2, <1>3, <1>4, <1>5, <1>6, InitReady, Invariance, PTL DEF Spec, CleanupOutcome

----------------------------------------------------------------------------
(* Sums over a finite set.  A statement about all subsets is proved by its *)
(* smallest counterexample.                                                *)

\* Among given subsets of a finite set there is a smallest one, which contains no
\* other of them.
LEMMA SmallestSubset ==
    ASSUME NEW S, IsFiniteSet(S), NEW D \in SUBSET (SUBSET S), D # {}
    PROVE  \E x \in D : \A y \in D : y \subseteq x => y = x
<1>1. IsWellFoundedOn(StrictSubsetOrdering(S), SUBSET S)
  BY FS_StrictSubsetOrderingWellFounded, FS_FiniteSubsetsOfFinite
<1>2. PICK x \in D : \A y \in D : ~ (<<y, x>> \in StrictSubsetOrdering(S))
  BY <1>1, WFMin
<1>3. \A y \in D : y \subseteq x => y = x
  BY <1>2 DEF StrictSubsetOrdering
<1>. QED
  BY <1>3

\* An order in which to take the elements of S: the next one to take of each
\* subset.
Picks(pick, S) == \A s \in SUBSET S : s # {} => pick[s] \in s

\* g holds, for each subset of S, the numbers f of its elements added up in the
\* order of pick.
Sums(g, S, f, pick) ==
    g = [s \in SUBSET S |-> IF s = {} THEN 0 ELSE f[pick[s]] + g[s \ {pick[s]}]]

\* Sums over two sets agree on the subsets both have.
LEMMA SumsAgree ==
    ASSUME NEW S, IsFiniteSet(S), NEW f, NEW pick, Picks(pick, S),
           NEW A \in SUBSET S, NEW B \in SUBSET S, NEW g, NEW h,
           Sums(g, A, f, pick), Sums(h, B, f, pick)
    PROVE  \A s \in SUBSET (A \cap B) : g[s] = h[s]
<1>. DEFINE D == {s \in SUBSET (A \cap B) : g[s] # h[s]}
<1>. SUFFICES ASSUME D # {} PROVE FALSE
  OBVIOUS
<1>0. D \in SUBSET (SUBSET S)
  OBVIOUS
<1>1. PICK x \in D : \A y \in D : y \subseteq x => y = x
  <2>. HIDE DEF D
  <2>. QED
    BY <1>0, SmallestSubset
<1>2. x \in SUBSET A /\ x \in SUBSET B /\ x \in SUBSET S
  OBVIOUS
<1>3. CASE x = {}
  <2>1. g[x] = 0 /\ h[x] = 0
    BY <1>2, <1>3 DEF Sums
  <2>. QED
    BY <2>1
<1>4. CASE x # {}
  <2>. DEFINE y == x \ {pick[x]}
  <2>1. pick[x] \in x
    BY <1>2, <1>4 DEF Picks
  <2>2. y \in SUBSET (A \cap B) /\ y \notin D
    BY <1>1, <2>1
  <2>3. g[y] = h[y]
    BY <2>2
  <2>4. g[x] = f[pick[x]] + g[y] /\ h[x] = f[pick[x]] + h[y]
    BY <1>2, <1>4 DEF Sums
  <2>. QED
    BY <2>3, <2>4
<1>. QED
  BY <1>3, <1>4

\* The sums exist.
LEMMA SumsExist ==
    ASSUME NEW S, IsFiniteSet(S), NEW f, NEW pick, Picks(pick, S)
    PROVE  \E g : Sums(g, S, f, pick)
<1>. DEFINE D == {s \in SUBSET S : ~ \E g : Sums(g, s, f, pick)}
            Of(s) == CHOOSE g : Sums(g, s, f, pick)
<1>. SUFFICES ASSUME D # {} PROVE FALSE
  OBVIOUS
<1>0. D \in SUBSET (SUBSET S)
  OBVIOUS
<1>1. PICK x \in D : \A y \in D : y \subseteq x => y = x
  <2>. HIDE DEF D
  <2>. QED
    BY <1>0, SmallestSubset
<1>2. \A y \in SUBSET x : y # x => Sums(Of(y), y, f, pick)
  <2>1. \A y \in SUBSET x : y # x => \E g : Sums(g, y, f, pick)
    BY <1>1
  <2>. QED
    BY <2>1
<1>. HIDE DEF Of
<1>. DEFINE v(s) == IF s = {} THEN 0 ELSE f[pick[s]] + Of(s \ {pick[s]})[s \ {pick[s]}]
            g == [s \in SUBSET x |-> v(s)]
<1>3. ASSUME NEW s \in SUBSET x, s # x
      PROVE  Of(s)[s] = v(s)
  <2>1. s \in SUBSET S
    OBVIOUS
  <2>2. Sums(Of(s), s, f, pick)
    BY <1>2, <1>3
  <2>3. CASE s = {}
    BY <2>2, <2>3 DEF Sums
  <2>4. CASE s # {}
    <3>. DEFINE y == s \ {pick[s]}
    <3>1. pick[s] \in s
      BY <2>1, <2>4 DEF Picks
    <3>2. y \in SUBSET x /\ y # x /\ y \in SUBSET S /\ y \in SUBSET (s \cap y)
      BY <3>1
    <3>3. Sums(Of(y), y, f, pick)
      BY <1>2, <3>2
    <3>4. Of(s)[y] = Of(y)[y]
      <4>. HIDE DEF y
      <4>. QED
        BY <2>1, <2>2, <3>2, <3>3, SumsAgree
    <3>5. Of(s)[s] = f[pick[s]] + Of(s)[y]
      BY <2>2, <2>4 DEF Sums
    <3>. QED
      BY <3>4, <3>5, <2>4
  <2>. QED
    BY <2>3, <2>4
<1>4. ASSUME NEW s \in SUBSET x, s # {}
      PROVE  g[s] = f[pick[s]] + g[s \ {pick[s]}]
  <2>1. pick[s] \in s
    BY <1>4 DEF Picks
  <2>. DEFINE y == s \ {pick[s]}
  <2>2. y \in SUBSET x /\ y # x
    BY <2>1
  <2>3. g[y] = Of(y)[y]
    BY <1>3, <2>2
  <2>. QED
    BY <1>4, <2>3
<1>5. g[{}] = 0
  OBVIOUS
<1>6. g = [s \in SUBSET x |-> g[s]]
  OBVIOUS
<1>. HIDE DEF g
<1>7. Sums(g, x, f, pick)
  BY <1>4, <1>5, <1>6 DEF Sums
<1>. QED
  BY <1>7

\* Nothing adds up to 0, and a sum is its next element's number and the rest's.
LEMMA SumsRecur ==
    ASSUME NEW S, NEW f, NEW pick, NEW g, Sums(g, S, f, pick)
    PROVE  /\ g[{}] = 0
           /\ \A s \in SUBSET S : s # {} => g[s] = f[pick[s]] + g[s \ {pick[s]}]
<1>1. g[{}] = 0
  BY DEF Sums
<1>2. \A s \in SUBSET S : s # {} => g[s] = f[pick[s]] + g[s \ {pick[s]}]
  BY DEF Sums
<1>. QED
  BY <1>1, <1>2

\* Sums of numbers are numbers.
LEMMA SumsTyped ==
    ASSUME NEW S, IsFiniteSet(S), NEW f \in [S -> Nat], NEW pick, Picks(pick, S),
           NEW g, Sums(g, S, f, pick)
    PROVE  \A s \in SUBSET S : g[s] \in Nat
<1>. DEFINE D == {s \in SUBSET S : g[s] \notin Nat}
<1>. SUFFICES ASSUME D # {} PROVE FALSE
  OBVIOUS
<1>0. D \in SUBSET (SUBSET S)
  OBVIOUS
<1>1. PICK x \in D : \A y \in D : y \subseteq x => y = x
  <2>. HIDE DEF D
  <2>. QED
    BY <1>0, SmallestSubset
<1>2. x # {}
  <2>1. g[{}] = 0
    BY SumsRecur
  <2>. QED
    BY <2>1
<1>3. pick[x] \in x /\ pick[x] \in S
  BY <1>2 DEF Picks
<1>4. g[x \ {pick[x]}] \in Nat
  BY <1>1, <1>3
<1>5. g[x] = f[pick[x]] + g[x \ {pick[x]}]
  BY <1>2, SumsRecur
<1>. QED
  BY <1>3, <1>4, <1>5

\* Sums keep the order of what is added: bounds on each element bound the sums.
LEMMA SumsOrdered ==
    ASSUME NEW S, IsFiniteSet(S), NEW e \in [S -> Nat], NEW f \in [S -> Nat],
           NEW n \in Nat, \A u \in S : e[u] <= n * f[u],
           NEW pick, Picks(pick, S),
           NEW g, Sums(g, S, e, pick), NEW h, Sums(h, S, f, pick)
    PROVE  \A s \in SUBSET S : g[s] <= n * h[s]
<1>. DEFINE D == {s \in SUBSET S : ~ (g[s] <= n * h[s])}
<1>. SUFFICES ASSUME D # {} PROVE FALSE
  OBVIOUS
<1>0. D \in SUBSET (SUBSET S)
  OBVIOUS
<1>1. PICK x \in D : \A y \in D : y \subseteq x => y = x
  <2>. HIDE DEF D
  <2>. QED
    BY <1>0, SmallestSubset
<1>2. x # {}
  <2>1. g[{}] = 0 /\ h[{}] = 0
    BY SumsRecur
  <2>. QED
    BY <2>1
<1>. DEFINE p == pick[x]
            y == x \ {p}
<1>3. p \in x /\ p \in S
  BY <1>2 DEF Picks
<1>4. y \in SUBSET S /\ g[y] <= n * h[y]
  BY <1>1, <1>3
<1>5. g[x] = e[p] + g[y] /\ h[x] = f[p] + h[y]
  BY <1>2, SumsRecur
<1>6. e[p] \in Nat /\ f[p] \in Nat /\ g[y] \in Nat /\ h[y] \in Nat
  BY <1>3, <1>4, SumsTyped
<1>7. e[p] <= n * f[p]
  BY <1>3
<1>8. ~ (g[x] <= n * h[x])
  OBVIOUS
<1>. HIDE DEF p, y
<1>9. n * (f[p] + h[y]) = n * f[p] + n * h[y]
  BY <1>6
<1>10. n * f[p] \in Nat /\ n * h[y] \in Nat
  BY <1>6
<1>. QED
  BY <1>4, <1>5, <1>6, <1>7, <1>8, <1>9, <1>10

----------------------------------------------------------------------------
(* Stats: the totals of run_client.                                        *)
\* The order in which Total takes the workers.
Chosen == [s \in SUBSET Workers |-> CHOOSE w \in s : TRUE]

LEMMA ChosenPicks == Picks(Chosen, Workers)
BY DEF Picks, Chosen

\* Total is such a sum.
LEMMA TotalSums ==
    ASSUME NEW m, DOMAIN m = Workers
    PROVE  \E g : Sums(g, Workers, m, Chosen) /\ Total(m) = g[Workers]
<1>. DEFINE Body(g) == [s \in SUBSET Workers |->
                IF s = {} THEN 0
                ELSE m[CHOOSE w \in s : TRUE] + g[s \ {CHOOSE w \in s : TRUE}]]
            g == CHOOSE g : g = Body(g)
<1>1. Total(m) = g[Workers]
  BY DEF Total, FoldFunction, FoldFunctionOnSet, MapThenFoldSet
<1>2. \E h : Sums(h, Workers, m, Chosen)
  BY ChosenPicks, SumsExist, StatsAssumption
<1>3. \A h : Sums(h, Workers, m, Chosen) <=> h = Body(h)
  <2>. TAKE h
  <2>1. \A s \in SUBSET Workers : Chosen[s] = CHOOSE w \in s : TRUE
    BY DEF Chosen
  <2>. QED
    BY <2>1 DEF Sums
<1>4. g = Body(g)
  <2>. HIDE DEF Body
  <2>1. \E h : h = Body(h)
    BY <1>2, <1>3
  <2>. QED
    BY <2>1
<1>. HIDE DEF g
<1>. QED
  BY <1>1, <1>3, <1>4

\* The total of numbers is a number.
LEMMA TotalTyped ==
    ASSUME NEW m \in [Workers -> Nat]
    PROVE  Total(m) \in Nat
<1>1. PICK g : Sums(g, Workers, m, Chosen) /\ Total(m) = g[Workers]
  BY TotalSums
<1>. QED
  BY <1>1, SumsTyped, ChosenPicks, StatsAssumption

\* Where each number is at most n times another, so is their total.
LEMMA TotalOrdered ==
    ASSUME NEW e \in [Workers -> Nat], NEW m \in [Workers -> Nat], NEW n \in Nat,
           \A w \in Workers : e[w] <= n * m[w]
    PROVE  Total(e) <= n * Total(m)
<1>1. PICK g : Sums(g, Workers, e, Chosen) /\ Total(e) = g[Workers]
  BY TotalSums
<1>2. PICK h : Sums(h, Workers, m, Chosen) /\ Total(m) = h[Workers]
  BY TotalSums
<1>. QED
  BY <1>1, <1>2, SumsOrdered, ChosenPicks, StatsAssumption

----------------------------------------------------------------------------
(* Stats: the sums of what a worker has measured.                          *)
\* A set of numbers up to n has a largest one.
LEMMA LargestNumber ==
    ASSUME NEW n \in Nat, NEW s \in SUBSET (1 .. n), s # {}
    PROVE  /\ Max(s) \in s
           /\ \A k \in s : k <= Max(s)
<1>. DEFINE D == {k \in Nat : \A u \in s : u <= k}
<1>1. PICK k \in D : \A l \in D : ~ (<<l, k>> \in OpToRel(<, Nat))
  <2>1. D \subseteq Nat /\ D # {}
    <3>1. n \in D
      OBVIOUS
    <3>. QED
      BY <3>1
  <2>. HIDE DEF D
  <2>. QED
    BY <2>1, NatLessThanWellFounded, WFMin
<1>2. ASSUME NEW l \in D PROVE k <= l
  <2>1. <<l, k>> \notin OpToRel(<, Nat)
    BY <1>1
  <2>3. l \in Nat /\ k \in Nat
    OBVIOUS
  <2>. HIDE DEF D
  <2>2. ~ (l < k)
    BY <2>1, <2>3 DEF OpToRel
  <2>. QED
    BY <2>2, <2>3
<1>3. k \in s
  <2>. SUFFICES ASSUME k \notin s PROVE FALSE
    OBVIOUS
  <2>1. k # 0
    <3>1. PICK u \in s : TRUE
      OBVIOUS
    <3>2. u \in 1 .. n /\ u <= k /\ k \in Nat
      OBVIOUS
    <3>. QED
      BY <3>2
  <2>2. k - 1 \in D
    BY <2>1
  <2>. QED
    BY <1>2, <2>2
<1>4. \E u \in s : \A j \in s : u >= j
  BY <1>3
<1>. QED
  BY <1>4 DEF Max

\* The order in which Sum takes a sequence, from its end.
Latest(n) == [s \in SUBSET (1 .. n) |-> Max(s)]

LEMMA LatestPicks ==
    ASSUME NEW n \in Nat
    PROVE  /\ IsFiniteSet(1 .. n)
           /\ Picks(Latest(n), 1 .. n)
<1>1. IsFiniteSet(1 .. n)
  BY FS_Interval
<1>2. \A s \in SUBSET (1 .. n) : Latest(n)[s] = Max(s)
  BY DEF Latest
<1>3. Picks(Latest(n), 1 .. n)
  BY <1>2, LargestNumber DEF Picks
<1>. QED
  BY <1>1, <1>3

\* The sum of a sequence is a sum over its positions.
LEMMA SequenceSums ==
    ASSUME NEW m \in Seq(Nat)
    PROVE  \E g : Sums(g, 1 .. Len(m), m, Latest(Len(m))) /\ Sum(m) = g[1 .. Len(m)]
<1>. DEFINE n == Len(m)
            S == 1 .. n
            Body(g) == [s \in SUBSET S |->
                IF s = {} THEN 0 ELSE g[s \ {Max(s)}] + m[Max(s)]]
            g == CHOOSE g : g = Body(g)
<1>1. Sum(m) = g[S]
  <2>1. DOMAIN m = S
    OBVIOUS
  <2>. QED
    BY <2>1 DEF Sum, FoldLeft, MapThenFoldSet
<1>2. n \in Nat /\ m \in [S -> Nat]
  OBVIOUS
<1>. HIDE DEF n
<1>a. IsFiniteSet(S) /\ Picks(Latest(n), S)
  BY <1>2, LatestPicks
<1>b. \A s \in SUBSET S : Latest(n)[s] = Max(s)
  BY DEF Latest
<1>c. \A s \in SUBSET S : s # {} => Max(s) \in s /\ m[Max(s)] \in Nat
  BY <1>2, LargestNumber
<1>. HIDE DEF S
<1>3. PICK h : Sums(h, S, m, Latest(n))
  BY <1>a, SumsExist
<1>4. h = Body(h)
  <2>. DEFINE p == Latest(n)
  <2>0. \A s \in SUBSET S : s # {} => h[s] = m[p[s]] + h[s \ {p[s]}]
    <3>1. Sums(h, S, m, p)
      BY <1>3
    <3>. HIDE DEF p, g
    <3>. QED
      BY <3>1 DEF Sums
  <2>1. \A s \in SUBSET S : s # {} => h[s] = m[Max(s)] + h[s \ {Max(s)}]
    BY <1>b, <2>0
  <2>2. h[{}] = 0
    BY <1>3, SumsRecur
  <2>3. \A s \in SUBSET S : h[s] \in Nat
    BY <1>2, <1>3, <1>a, SumsTyped
  <2>5. \A s \in SUBSET S : s # {} => h[s] = h[s \ {Max(s)}] + m[Max(s)]
    <3>. TAKE s \in SUBSET S
    <3>. HAVE s # {}
    <3>1. h[s \ {Max(s)}] \in Nat
      <4>1. s \ {Max(s)} \in SUBSET S
        OBVIOUS
      <4>. QED
        BY <2>3, <4>1
    <3>2. m[Max(s)] \in Nat /\ h[s] = m[Max(s)] + h[s \ {Max(s)}]
      BY <1>c, <2>1
    <3>. QED
      BY <3>1, <3>2
  <2>6. h = [s \in SUBSET S |-> h[s]]
    BY <1>3 DEF Sums
  <2>. QED
    BY <2>2, <2>5, <2>6
<1>. HIDE DEF Body
<1>5. g = Body(g)
  BY <1>4
<1>. HIDE DEF g
<1>. USE DEF Body
<1>6. ASSUME NEW s \in SUBSET S
      PROVE  g[s] = h[s]
  <2>. DEFINE D == {t \in SUBSET S : g[t] # h[t]}
  <2>. SUFFICES ASSUME D # {} PROVE FALSE
    OBVIOUS
  <2>0. D \in SUBSET (SUBSET S)
    OBVIOUS
  <2>1. PICK x \in D : \A y \in D : y \subseteq x => y = x
    <3>. HIDE DEF D
    <3>. QED
      BY <2>0, <1>a, SmallestSubset
  <2>2. g[{}] = 0 /\ h[{}] = 0
    BY <1>4, <1>5
  <2>3. x # {}
    BY <2>2
  <2>4. Max(x) \in x
    BY <1>c, <2>3
  <2>5. g[x \ {Max(x)}] = h[x \ {Max(x)}]
    BY <2>1, <2>4
  <2>6. g[x] = g[x \ {Max(x)}] + m[Max(x)] /\ h[x] = h[x \ {Max(x)}] + m[Max(x)]
    BY <1>4, <1>5, <2>3
  <2>. QED
    BY <2>5, <2>6
<1>7. Sum(m) = h[S]
  BY <1>1, <1>6
<1>. QED
  BY <1>3, <1>7 DEF n, S

\* What the sum of a sequence is, and what one more number does to it.
LEMMA SumEmpty == Sum(<<>>) = 0
<1>. DEFINE m == <<>>
<1>1. m \in Seq(Nat) /\ Len(m) = 0
  OBVIOUS
<1>. HIDE DEF m
<1>2. PICK g : Sums(g, 1 .. Len(m), m, Latest(Len(m))) /\ Sum(m) = g[1 .. Len(m)]
  BY <1>1, SequenceSums
<1>3. 1 .. Len(m) = {}
  BY <1>1
<1>4. g[{}] = 0
  <2>. DEFINE S == 1 .. Len(m)
              p == Latest(Len(m))
  <2>1. Sums(g, S, m, p)
    BY <1>2
  <2>. HIDE DEF S, p
  <2>. QED
    BY <2>1, SumsRecur
<1>5. Sum(m) = 0
  BY <1>2, <1>3, <1>4
<1>. QED
  BY <1>5 DEF m

LEMMA SumTyped ==
    ASSUME NEW m \in Seq(Nat)
    PROVE  Sum(m) \in Nat
<1>1. PICK g : Sums(g, 1 .. Len(m), m, Latest(Len(m))) /\ Sum(m) = g[1 .. Len(m)]
  BY SequenceSums
<1>. DEFINE S == 1 .. Len(m)
            p == Latest(Len(m))
<1>2. IsFiniteSet(S) /\ Picks(p, S) /\ m \in [S -> Nat]
  BY LatestPicks
<1>3. Sums(g, S, m, p) /\ Sum(m) = g[S]
  BY <1>1
<1>. HIDE DEF S, p
<1>. QED
  BY <1>2, <1>3, SumsTyped

LEMMA SumAppend ==
    ASSUME NEW m \in Seq(Nat), NEW x \in Nat
    PROVE  Sum(Append(m, x)) = Sum(m) + x
<1>. DEFINE n == Len(m)
            M == Append(m, x)
            A == 1 .. n
            S == 1 .. n + 1
            p == Latest(n)
            P == Latest(n + 1)
<1>1. /\ M \in Seq(Nat) /\ Len(M) = n + 1 /\ n \in Nat /\ M[n + 1] = x
      /\ \A u \in A : M[u] = m[u]
  OBVIOUS
<1>2. PICK g : Sums(g, A, m, p) /\ Sum(m) = g[A]
  BY SequenceSums
<1>3. PICK h : Sums(h, S, M, P) /\ Sum(M) = h[S]
  <2>. HIDE DEF M
  <2>. QED
    BY <1>1, SequenceSums
<1>4. IsFiniteSet(S) /\ Picks(P, S) /\ Picks(p, A)
  BY <1>1, LatestPicks
<1>5. A \in SUBSET S /\ S \in SUBSET S /\ A \in SUBSET (A \cap S)
  BY <1>1
<1>6. \A s \in SUBSET A : s # {} => P[s] = p[s] /\ p[s] \in A
  <2>1. \A s \in SUBSET A : P[s] = p[s]
    BY <1>5 DEF Latest
  <2>. QED
    BY <1>4, <2>1 DEF Picks
<1>7. Sums(g, A, M, P)
  <2>1. \A s \in SUBSET A : s # {} => M[P[s]] = m[p[s]] /\ P[s] = p[s]
    BY <1>1, <1>6
  <2>. HIDE DEF A, p, P, M
  <2>. QED
    BY <1>2, <2>1 DEF Sums
<1>8. g[A] = h[A]
  <2>. HIDE DEF A, S, P, M
  <2>. QED
    BY <1>3, <1>4, <1>5, <1>7, SumsAgree
<1>9. P[S] = n + 1 /\ S # {} /\ S \ {n + 1} = A
  <2>1. P[S] = Max(S)
    BY DEF Latest
  <2>2. n + 1 \in S /\ n + 1 \in Nat
    BY <1>1
  <2>3. Max(S) \in S /\ \A k \in S : k <= Max(S)
    <3>. DEFINE k == n + 1
    <3>1. k \in Nat /\ S \in SUBSET (1 .. k) /\ S # {}
      BY <2>2
    <3>. HIDE DEF S, k
    <3>. QED
      BY <3>1, LargestNumber
  <2>. QED
    BY <1>1, <2>1, <2>2, <2>3
<1>10. h[S] = M[n + 1] + h[A]
  <2>1. h[S] = M[P[S]] + h[S \ {P[S]}]
    <3>. HIDE DEF A, S, P, M
    <3>. QED
      BY <1>3, <1>5, <1>9 DEF Sums
  <2>. HIDE DEF A, S, P, M
  <2>. QED
    BY <1>9, <2>1
<1>11. Sum(m) \in Nat
  BY SumTyped
<1>. HIDE DEF M, A, S
<1>12. Sum(M) = x + Sum(m)
  BY <1>1, <1>2, <1>3, <1>8, <1>10
<1>13. Sum(M) = Sum(m) + x
  BY <1>11, <1>12
<1>. QED
  BY <1>13 DEF M

\* The distances between consecutive numbers, and what one more does to them.
LEMMA DistanceTyped ==
    ASSUME NEW a \in Nat, NEW b \in Nat
    PROVE  Distance(a, b) \in Nat /\ Distance(a, b) <= a + b
BY DEF Distance

LEMMA JumpsTyped ==
    ASSUME NEW m \in Seq(Nat)
    PROVE  Jumps(m) \in Seq(Nat)
<1>1. CASE Len(m) = 0
  <2>1. Jumps(m) = <<>>
    BY <1>1 DEF Jumps
  <2>. QED
    BY <2>1
<1>2. CASE Len(m) # 0
  <2>1. Len(m) - 1 \in Nat
    BY <1>2
  <2>2. \A k \in 1 .. Len(m) - 1 : Distance(m[k], m[k + 1]) \in Nat
    <3>. TAKE k \in 1 .. Len(m) - 1
    <3>1. m[k] \in Nat /\ m[k + 1] \in Nat
      OBVIOUS
    <3>. QED
      BY <3>1, DistanceTyped
  <2>. QED
    BY <2>1, <2>2 DEF Jumps
<1>. QED
  BY <1>1, <1>2

LEMMA JumpsAppend ==
    ASSUME NEW m \in Seq(Nat), NEW x \in Nat
    PROVE  Jumps(Append(m, x)) =
             IF m = <<>> THEN <<>> ELSE Append(Jumps(m), Distance(m[Len(m)], x))
<1>1. CASE m = <<>>
  BY <1>1 DEF Jumps
<1>2. CASE m # <<>>
  <2>. DEFINE n == Len(m)
              M == Append(m, x)
              J == Append(Jumps(m), Distance(m[n], x))
  <2>1. n \in Nat /\ n - 1 \in Nat /\ Len(M) = n + 1 /\ M[n + 1] = x
        /\ \A k \in 1 .. n : M[k] = m[k]
    BY <1>2
  <2>2. Jumps(m) \in Seq(Nat) /\ Len(Jumps(m)) = n - 1
    <3>1. DOMAIN Jumps(m) = 1 .. n - 1
      BY DEF Jumps
    <3>. QED
      BY <2>1, <3>1, JumpsTyped
  <2>3. Distance(m[n], x) \in Nat
    <3>1. m[n] \in Nat
      BY <1>2
    <3>. QED
      BY <3>1, DistanceTyped
  <2>4. Len(J) = n /\ J = [k \in 1 .. n |-> J[k]]
    BY <2>1, <2>2, <2>3
  <2>5. Jumps(M) = [k \in 1 .. n |-> Distance(M[k], M[k + 1])]
    BY <2>1 DEF Jumps
  <2>6. ASSUME NEW k \in 1 .. n PROVE J[k] = Distance(M[k], M[k + 1])
    <3>1. CASE k = n
      BY <2>1, <2>2, <2>3, <3>1
    <3>2. CASE k # n
      <4>1. k \in 1 .. n - 1 /\ k + 1 \in 1 .. n
        BY <2>1, <3>2
      <4>2. J[k] = Jumps(m)[k]
        BY <2>2, <2>3, <4>1
      <4>3. Jumps(m)[k] = Distance(m[k], m[k + 1])
        BY <4>1 DEF Jumps
      <4>. QED
        BY <2>1, <4>1, <4>2, <4>3
    <3>. QED
      BY <3>1, <3>2
  <2>7. Jumps(M) = J
    <3>. HIDE DEF J, M
    <3>. QED
      BY <2>4, <2>5, <2>6
  <2>. QED
    BY <1>2, <2>7
<1>. QED
  BY <1>1, <1>2

----------------------------------------------------------------------------
(* Stats: the invariant.                                                   *)

\* What the statistics keep of the operations counted.
Exact(w, s) ==
    LET m == measured[w][s] IN
      /\ stats[w].ops = Len(m)
      /\ stats[w].sum[s] = Sum(m)
      /\ stats[w].jitter[s] = Sum(Jumps(m))
      /\ m = <<>> => stats[w].last[s] = 0
      /\ m # <<>> => stats[w].last[s] = m[Len(m)] /\ stats[w].last[s] > 0

\* The operations a worker has counted fit into the time since its beginning.
Timely(w) ==
    LET latencies == stats[w].sum["latency"]
        elapsed   == stats[w].elapsed_nanoseconds IN
      /\ wpc[w] = "wait_begin" => latencies = 0
      /\ wpc[w] = "check_stop" => elapsed + latencies <= clock
      /\ wpc[w] \in {"write", "send"} => /\ elapsed + latencies <= starts[w]["latency"]
                                         /\ starts[w]["latency"] <= clock
      /\ wpc[w] = "send" => /\ starts[w]["latency"] <= starts[w]["send_latency"]
                            /\ starts[w]["send_latency"] <= clock
      /\ wpc[w] = "finished" => latencies <= elapsed

\* The second series lies within the first, and the jitter up to the last
\* latency, with which the next distance begins, within twice the sum.
Within(w) ==
    /\ stats[w].sum["send_latency"] <= stats[w].sum["latency"]
    /\ \A s \in Series : stats[w].jitter[s] + stats[w].last[s] <= 2 * stats[w].sum[s]

\* Nothing is added up before each worker has come to its end.
StatsInv ==
    /\ StatsTypeOK
    /\ \A w \in Workers : (\A s \in Series : Exact(w, s)) /\ Timely(w) /\ Within(w)
    /\ main = "sum" => \A w \in Workers : wpc[w] \in {"finished", "failed"}
    /\ TotalsFit

----------------------------------------------------------------------------
(* Stats: each action preserves the invariant.                             *)

LEMMA NoTotal == NoStatistics \in Statistics
BY DEF NoStatistics, Statistics

\* It holds before the workers begin.
LEMMA StatsInitInv == StatsInit => StatsInv
<1> SUFFICES ASSUME StatsInit PROVE StatsInv
  OBVIOUS
<1>1. StatsTypeOK
  BY NoTotal, StatsAssumption DEF StatsInit, StatsTypeOK
<1>2. ASSUME NEW w \in Workers PROVE (\A s \in Series : Exact(w, s)) /\ Timely(w) /\ Within(w)
  <2>1. \A s \in Series : Exact(w, s)
    <3>. TAKE s \in Series
    <3>1. measured[w][s] = <<>> /\ stats[w] = NoStatistics
      BY DEF StatsInit
    <3>2. Jumps(<<>>) = <<>>
      BY DEF Jumps
    <3>. QED
      BY <3>1, <3>2, SumEmpty DEF Exact, NoStatistics
  <2>2. Timely(w) /\ Within(w)
    BY DEF StatsInit, Timely, Within, NoStatistics, Series
  <2>. QED
    BY <2>1, <2>2
<1>3. main = "prepare"
  BY DEF StatsInit
<1>. QED
  BY <1>1, <1>2, <1>3 DEF StatsInv, TotalsFit

\* The values a worker's record holds are numbers.
LEMMA WorkerNumbers ==
    ASSUME StatsTypeOK, NEW w \in Workers
    PROVE  /\ clock \in Nat
           /\ stats[w] \in Statistics
           /\ stats[w].ops \in Nat /\ stats[w].elapsed_nanoseconds \in Nat
           /\ \A s \in Series : /\ stats[w].sum[s] \in Nat /\ stats[w].last[s] \in Nat
                                /\ stats[w].jitter[s] \in Nat
                                /\ starts[w][s] \in Nat
                                /\ measured[w][s] \in Seq(Nat)
           /\ "latency" \in Series /\ "send_latency" \in Series
<1>1. stats[w] \in Statistics /\ clock \in Nat /\ "latency" \in Series /\ "send_latency" \in Series
  BY StatsAssumption DEF StatsTypeOK, Series
<1>2. /\ stats[w].ops \in Nat /\ stats[w].elapsed_nanoseconds \in Nat
      /\ \A s \in Series : /\ stats[w].sum[s] \in Nat /\ stats[w].last[s] \in Nat
                           /\ stats[w].jitter[s] \in Nat
  BY <1>1 DEF Statistics
<1>3. \A s \in Series : starts[w][s] \in Nat /\ measured[w][s] \in Seq(Nat)
  BY DEF StatsTypeOK
<1>. QED
  BY <1>1, <1>2, <1>3

\* What one worker keeps of its statistics as long as it does nothing.
LEMMA WorkerRests ==
    ASSUME StatsInv, NEW w \in Workers, clock' \in Nat, clock <= clock',
           wpc'[w] = wpc[w], starts'[w] = starts[w], stats'[w] = stats[w],
           measured'[w] = measured[w]
    PROVE  (\A s \in Series : Exact(w, s)') /\ Timely(w)' /\ Within(w)'
<1>1. \A s \in Series : Exact(w, s)'
  BY DEF StatsInv, Exact
<1>2. Within(w)'
  BY DEF StatsInv, Within
<1>3. Timely(w)'
  <2>1. /\ clock \in Nat /\ stats[w].sum["latency"] \in Nat
        /\ stats[w].elapsed_nanoseconds \in Nat
        /\ starts[w]["latency"] \in Nat /\ starts[w]["send_latency"] \in Nat
    BY WorkerNumbers DEF StatsInv
  <2>2. Timely(w)
    BY DEF StatsInv
  <2>. QED
    BY <2>1, <2>2 DEF Timely
<1>. QED
  BY <1>1, <1>2, <1>3

\* As time passes, what is counted still fits into it.
LEMMA tickStep == StatsInv /\ tick => StatsInv'
<1> SUFFICES ASSUME StatsInv, tick PROVE StatsInv'
  OBVIOUS
<1>1. StatsTypeOK'
  BY StatsAssumption DEF StatsInv, StatsTypeOK, tick
<1>2. clock \in Nat /\ clock' = clock + 1 /\ UNCHANGED <<main, wpc, starts, stats, total, measured>>
  BY DEF StatsInv, StatsTypeOK, tick
<1>3. \A w \in Workers : (\A s \in Series : Exact(w, s)') /\ Timely(w)' /\ Within(w)'
  BY <1>2, WorkerRests
<1>. QED
  BY <1>1, <1>2, <1>3 DEF StatsInv, TotalsFit

\* A worker's step changes what is kept of that worker alone.
LEMMA WorkerStep ==
    ASSUME StatsInv, NEW w \in Workers, StatsTypeOK', clock' = clock, total' = total,
           main' # "printed", main' = "sum" => main = "sum",
           \A v \in Workers \ {w} :
               /\ wpc'[v] = wpc[v] /\ starts'[v] = starts[v] /\ stats'[v] = stats[v]
               /\ measured'[v] = measured[v],
           main = "sum" => wpc'[w] \in {"finished", "failed"},
           \A s \in Series : Exact(w, s)', Timely(w)', Within(w)'
    PROVE  StatsInv'
<1>1. ASSUME NEW v \in Workers
      PROVE  (\A s \in Series : Exact(v, s)') /\ Timely(v)' /\ Within(v)'
  <2>1. CASE v = w
    BY <2>1
  <2>2. CASE v # w
    <3>1. wpc'[v] = wpc[v] /\ starts'[v] = starts[v] /\ stats'[v] = stats[v]
          /\ measured'[v] = measured[v]
      BY <2>2
    <3>2. clock' \in Nat /\ clock <= clock'
      BY DEF StatsInv, StatsTypeOK
    <3>. QED
      BY <3>1, <3>2, WorkerRests
  <2>. QED
    BY <2>1, <2>2
<1>2. main' = "sum" => \A v \in Workers : wpc'[v] \in {"finished", "failed"}
  BY DEF StatsInv, StatsTypeOK
<1>. QED
  BY <1>1, <1>2 DEF StatsInv, TotalsFit

\* Before the loop nothing is counted yet.
LEMMA beginStep ==
    ASSUME NEW w \in Workers, StatsInv, worker_begin(w)
    PROVE  StatsInv'
<1>1. wpc[w] = "wait_begin" /\ main' = main /\ main # "printed"
  BY DEF worker_begin, Running
<1>2. /\ wpc' = [wpc EXCEPT ![w] = "check_stop"]
      /\ stats' = [stats EXCEPT ![w] = [stats[w] EXCEPT !.elapsed_nanoseconds = clock]]
      /\ UNCHANGED <<clock, debug_log, starts, total, measured>>
  BY DEF worker_begin, Goto
<1>3. StatsTypeOK
  BY DEF StatsInv
<1>others. \A v \in Workers \ {w} :
               /\ wpc'[v] = wpc[v] /\ starts'[v] = starts[v] /\ stats'[v] = stats[v]
               /\ measured'[v] = measured[v]
  BY <1>2, <1>3 DEF StatsTypeOK
<1>4. /\ stats'[w] = [stats[w] EXCEPT !.elapsed_nanoseconds = clock]
      /\ wpc'[w] = "check_stop" /\ stats'[w] \in Statistics
  BY <1>2, <1>3, WorkerNumbers DEF StatsTypeOK, Statistics
<1>5. StatsTypeOK'
  BY <1>1, <1>2, <1>3, <1>4 DEF StatsTypeOK
<1>6. \A s \in Series : Exact(w, s)'
  <2>1. \A s \in Series : /\ stats'[w].ops = stats[w].ops /\ stats'[w].sum[s] = stats[w].sum[s]
                           /\ stats'[w].jitter[s] = stats[w].jitter[s]
                           /\ stats'[w].last[s] = stats[w].last[s]
                           /\ measured'[w][s] = measured[w][s]
    BY <1>2, <1>3, <1>4, WorkerNumbers DEF Statistics
  <2>. QED
    BY <2>1 DEF StatsInv, Exact
<1>7. Timely(w)'
  BY <1>1, <1>2, <1>3, <1>4, WorkerNumbers, SMTT(30) DEF StatsInv, Timely, Statistics
<1>8. Within(w)'
  BY <1>2, <1>3, <1>4, WorkerNumbers DEF StatsInv, Within, Statistics
<1>9. main # "sum"
  BY <1>1 DEF StatsInv
<1>. QED
  BY <1>1, <1>2, <1>3, <1>4, <1>5, <1>6, <1>7, <1>8, <1>9, <1>others, WorkerStep

\* The times taken during an operation lie after those of the operations before.
LEMMA startStep ==
    ASSUME NEW w \in Workers, StatsInv, worker_start(w)
    PROVE  StatsInv'
<1>1. wpc[w] = "check_stop" /\ main' = main /\ main = "sleep"
  BY DEF worker_start
<1>2. /\ wpc' = [wpc EXCEPT ![w] = "write"]
      /\ starts' = [starts EXCEPT ![w] = [starts[w] EXCEPT !["latency"] = clock]]
      /\ UNCHANGED <<clock, debug_log, stats, total, measured>>
  BY DEF worker_start, Goto
<1>3. StatsTypeOK
  BY DEF StatsInv
<1>others. \A v \in Workers \ {w} :
               /\ wpc'[v] = wpc[v] /\ starts'[v] = starts[v] /\ stats'[v] = stats[v]
               /\ measured'[v] = measured[v]
  BY <1>2, <1>3 DEF StatsTypeOK
<1>4. /\ starts'[w] = [starts[w] EXCEPT !["latency"] = clock]
      /\ starts'[w] \in [Series -> Nat] /\ starts'[w]["latency"] = clock
      /\ wpc'[w] = "write"
  BY <1>2, <1>3, WorkerNumbers DEF StatsTypeOK
<1>5. StatsTypeOK'
  BY <1>1, <1>2, <1>3, <1>4 DEF StatsTypeOK
<1>6. \A s \in Series : Exact(w, s)'
  BY <1>2 DEF StatsInv, Exact
<1>7. Timely(w)'
  BY <1>1, <1>2, <1>3, <1>4, WorkerNumbers DEF StatsInv, Timely
<1>8. Within(w)'
  BY <1>2 DEF StatsInv, Within
<1>. QED
  BY <1>1, <1>2, <1>3, <1>4, <1>5, <1>6, <1>7, <1>8, <1>others, WorkerStep

LEMMA sendStep ==
    ASSUME NEW w \in Workers, StatsInv, worker_send(w)
    PROVE  StatsInv'
<1>1. wpc[w] = "write" /\ main' = main /\ main # "printed"
  BY DEF worker_send, Running
<1>2. /\ wpc' = [wpc EXCEPT ![w] = "send"]
      /\ starts' = [starts EXCEPT ![w] = [starts[w] EXCEPT !["send_latency"] = clock]]
      /\ UNCHANGED <<clock, debug_log, stats, total, measured>>
  BY DEF worker_send, Goto
<1>3. StatsTypeOK
  BY DEF StatsInv
<1>others. \A v \in Workers \ {w} :
               /\ wpc'[v] = wpc[v] /\ starts'[v] = starts[v] /\ stats'[v] = stats[v]
               /\ measured'[v] = measured[v]
  BY <1>2, <1>3 DEF StatsTypeOK
<1>4. /\ starts'[w] = [starts[w] EXCEPT !["send_latency"] = clock]
      /\ starts'[w] \in [Series -> Nat] /\ starts'[w]["send_latency"] = clock
      /\ starts'[w]["latency"] = starts[w]["latency"]
      /\ wpc'[w] = "send"
  BY <1>2, <1>3, WorkerNumbers DEF StatsTypeOK
<1>5. StatsTypeOK'
  BY <1>1, <1>2, <1>3, <1>4 DEF StatsTypeOK
<1>6. \A s \in Series : Exact(w, s)'
  BY <1>2 DEF StatsInv, Exact
<1>7. Timely(w)'
  BY <1>1, <1>2, <1>3, <1>4, WorkerNumbers DEF StatsInv, Timely
<1>8. Within(w)'
  BY <1>2 DEF StatsInv, Within
<1>9. main # "sum"
  BY <1>1 DEF StatsInv
<1>. QED
  BY <1>1, <1>2, <1>3, <1>4, <1>5, <1>6, <1>7, <1>8, <1>9, <1>others, WorkerStep

\* The operation that fails is not counted.
LEMMA failsStep ==
    ASSUME NEW w \in Workers, StatsInv, worker_fails(w)
    PROVE  StatsInv'
<1>1. wpc[w] \in {"write", "send"} /\ main' = main /\ main # "printed"
  BY DEF worker_fails, Running
<1>2. /\ wpc' = [wpc EXCEPT ![w] = "failed"]
      /\ starts' = [starts EXCEPT ![w] = [s \in Series |-> 0]]
      /\ UNCHANGED <<clock, debug_log, stats, total, measured>>
  BY DEF worker_fails, Goto
<1>3. StatsTypeOK
  BY DEF StatsInv
<1>others. \A v \in Workers \ {w} :
               /\ wpc'[v] = wpc[v] /\ starts'[v] = starts[v] /\ stats'[v] = stats[v]
               /\ measured'[v] = measured[v]
  BY <1>2, <1>3 DEF StatsTypeOK
<1>4. starts'[w] = [s \in Series |-> 0] /\ wpc'[w] = "failed"
  BY <1>2, <1>3 DEF StatsTypeOK
<1>5. StatsTypeOK'
  BY <1>1, <1>2, <1>3 DEF StatsTypeOK
<1>6. \A s \in Series : Exact(w, s)'
  BY <1>2 DEF StatsInv, Exact
<1>7. Timely(w)'
  BY <1>4 DEF Timely
<1>8. Within(w)'
  BY <1>2 DEF StatsInv, Within
<1>. QED
  BY <1>1, <1>2, <1>3, <1>4, <1>5, <1>6, <1>7, <1>8, <1>others, WorkerStep

\* After the loop elapsed_nanoseconds is the time the loop has taken.
LEMMA finishStep ==
    ASSUME NEW w \in Workers, StatsInv, worker_finish(w)
    PROVE  StatsInv'
<1>1. wpc[w] = "check_stop" /\ main' \in {main, "trapped"} /\ main \in {"join", "sum"}
  BY DEF worker_finish
<1>2. /\ wpc' = [wpc EXCEPT ![w] = "finished"]
      /\ stats' = [stats EXCEPT ![w] =
                     [stats[w] EXCEPT !.elapsed_nanoseconds = clock - stats[w].elapsed_nanoseconds]]
      /\ UNCHANGED <<clock, debug_log, starts, total, measured>>
  BY DEF worker_finish, Goto
<1>3. StatsTypeOK
  BY DEF StatsInv
<1>others. \A v \in Workers \ {w} :
               /\ wpc'[v] = wpc[v] /\ starts'[v] = starts[v] /\ stats'[v] = stats[v]
               /\ measured'[v] = measured[v]
  BY <1>2, <1>3 DEF StatsTypeOK
<1>4. /\ stats[w].elapsed_nanoseconds \in Nat /\ clock \in Nat /\ stats[w].sum["latency"] \in Nat
      /\ stats[w].elapsed_nanoseconds + stats[w].sum["latency"] <= clock
  BY <1>1, <1>3, WorkerNumbers DEF StatsInv, Timely
<1>5. clock - stats[w].elapsed_nanoseconds \in Nat
  BY <1>4
<1>6. /\ stats'[w] = [stats[w] EXCEPT !.elapsed_nanoseconds = clock - stats[w].elapsed_nanoseconds]
      /\ wpc'[w] = "finished" /\ stats'[w] \in Statistics
  BY <1>2, <1>3, <1>5, WorkerNumbers DEF StatsTypeOK, Statistics
<1>7. StatsTypeOK'
  BY <1>1, <1>2, <1>3, <1>6 DEF StatsTypeOK
<1>8. \A s \in Series : Exact(w, s)'
  <2>1. \A s \in Series : /\ stats'[w].ops = stats[w].ops /\ stats'[w].sum[s] = stats[w].sum[s]
                           /\ stats'[w].jitter[s] = stats[w].jitter[s]
                           /\ stats'[w].last[s] = stats[w].last[s]
                           /\ measured'[w][s] = measured[w][s]
    BY <1>2, <1>3, <1>6, WorkerNumbers DEF Statistics
  <2>. QED
    BY <2>1 DEF StatsInv, Exact
<1>9. Timely(w)'
  <2>1. /\ stats'[w].sum = stats[w].sum
        /\ stats'[w].elapsed_nanoseconds = clock - stats[w].elapsed_nanoseconds
    BY <1>3, <1>6, WorkerNumbers DEF Statistics
  <2>. QED
    BY <1>4, <1>6, <2>1 DEF Timely
<1>10. Within(w)'
  BY <1>2, <1>3, <1>6, WorkerNumbers DEF StatsInv, Within, Statistics
<1>. QED
  BY <1>1, <1>2, <1>3, <1>6, <1>7, <1>8, <1>9, <1>10, <1>others, WorkerStep

\* One more operation is counted, at the end of both series.
LEMMA endStep ==
    ASSUME NEW w \in Workers, StatsInv, worker_end(w)
    PROVE  StatsInv'
<1>. DEFINE now == [s \in Series |-> clock - starts[w][s]]
<1>1. wpc[w] = "send" /\ main' = main /\ main # "printed" /\ clock > starts[w]["send_latency"]
  BY DEF worker_end, Running
<1>2. /\ wpc' = [wpc EXCEPT ![w] = "check_stop"]
      /\ starts' = [starts EXCEPT ![w] = [s \in Series |-> 0]]
      /\ stats' = [stats EXCEPT ![w] = Counted(stats[w], now)]
      /\ measured' = [measured EXCEPT ![w] = [s \in Series |-> Append(measured[w][s], now[s])]]
      /\ UNCHANGED <<clock, debug_log, total>>
  BY DEF worker_end, Goto
<1>3. StatsTypeOK
  BY DEF StatsInv
<1>others. \A v \in Workers \ {w} :
               /\ wpc'[v] = wpc[v] /\ starts'[v] = starts[v] /\ stats'[v] = stats[v]
               /\ measured'[v] = measured[v]
  BY <1>2, <1>3 DEF StatsTypeOK
<1>4. /\ clock \in Nat /\ starts[w]["latency"] \in Nat /\ starts[w]["send_latency"] \in Nat
      /\ starts[w]["latency"] <= starts[w]["send_latency"]
  BY <1>1, <1>3, WorkerNumbers DEF StatsInv, Timely
<1>5. \A s \in Series : now[s] \in Nat /\ now[s] > 0
  BY <1>1, <1>4 DEF Series
<1>6. now \in [Series -> Nat] /\ now["latency"] = clock - starts[w]["latency"]
      /\ now["send_latency"] <= now["latency"]
  BY <1>4, <1>5 DEF Series
<1>. HIDE DEF now
<1>7. stats'[w] = Counted(stats[w], now) /\ wpc'[w] = "check_stop"
  BY <1>2, <1>3 DEF StatsTypeOK
<1>8. /\ stats'[w].ops = stats[w].ops + 1
      /\ stats'[w].elapsed_nanoseconds = stats[w].elapsed_nanoseconds
      /\ stats'[w].last = now
      /\ \A s \in Series :
           /\ stats'[w].sum[s] = stats[w].sum[s] + now[s]
           /\ stats'[w].jitter[s] = IF stats[w].last[s] # 0
                THEN stats[w].jitter[s] + Distance(stats[w].last[s], now[s])
                ELSE stats[w].jitter[s]
  BY <1>7 DEF Counted
<1>9. \A s \in Series : /\ stats[w].sum[s] + now[s] \in Nat
                        /\ Distance(stats[w].last[s], now[s]) \in Nat
                        /\ Distance(stats[w].last[s], now[s]) <= stats[w].last[s] + now[s]
                        /\ stats[w].jitter[s] + Distance(stats[w].last[s], now[s]) \in Nat
  <2>. TAKE s \in Series
  <2>1. stats[w].sum[s] \in Nat /\ stats[w].last[s] \in Nat /\ stats[w].jitter[s] \in Nat
        /\ now[s] \in Nat
    BY <1>3, <1>5, WorkerNumbers
  <2>2. Distance(stats[w].last[s], now[s]) \in Nat
        /\ Distance(stats[w].last[s], now[s]) <= stats[w].last[s] + now[s]
    BY <2>1, DistanceTyped
  <2>. QED
    BY <2>1, <2>2
<1>10. stats'[w] \in Statistics
  <2>1. stats[w].ops + 1 \in Nat /\ stats[w].elapsed_nanoseconds \in Nat
    BY <1>3, WorkerNumbers
  <2>2. [s \in Series |-> stats[w].sum[s] + now[s]] \in [Series -> Nat]
    BY <1>9
  <2>3. [s \in Series |-> IF stats[w].last[s] # 0
            THEN stats[w].jitter[s] + Distance(stats[w].last[s], now[s])
            ELSE stats[w].jitter[s]] \in [Series -> Nat]
    BY <1>3, <1>9, WorkerNumbers
  <2>. QED
    BY <1>6, <1>7, <2>1, <2>2, <2>3 DEF Counted, Statistics
<1>11. /\ \A s \in Series : /\ measured[w][s] \in Seq(Nat)
                            /\ measured'[w][s] = Append(measured[w][s], now[s])
       /\ measured' \in [Workers -> [Series -> Seq(Nat)]]
  <2>1. \A s \in Series : measured[w][s] \in Seq(Nat)
                          /\ Append(measured[w][s], now[s]) \in Seq(Nat)
    BY <1>3, <1>5, WorkerNumbers
  <2>2. [s \in Series |-> Append(measured[w][s], now[s])] \in [Series -> Seq(Nat)]
    BY <2>1
  <2>. QED
    BY <1>2, <1>3, <2>1, <2>2 DEF StatsTypeOK
<1>12. StatsTypeOK'
  BY <1>1, <1>2, <1>3, <1>7, <1>10, <1>11 DEF StatsTypeOK
<1>13. ASSUME NEW s \in Series PROVE Exact(w, s)'
  <2>. DEFINE m == measured[w][s]
              M == Append(m, now[s])
              l == stats[w].last[s]
  <2>1. m \in Seq(Nat) /\ now[s] \in Nat /\ now[s] > 0 /\ measured'[w][s] = M
    BY <1>5, <1>11
  <2>2. /\ stats[w].ops = Len(m) /\ stats[w].sum[s] = Sum(m)
        /\ stats[w].jitter[s] = Sum(Jumps(m))
        /\ m = <<>> => l = 0
        /\ m # <<>> => l = m[Len(m)] /\ l > 0
    BY DEF StatsInv, Exact
  <2>3. M \in Seq(Nat) /\ Len(M) = Len(m) + 1 /\ M[Len(M)] = now[s] /\ M # <<>>
    BY <2>1
  <2>4. Sum(M) = Sum(m) + now[s]
    BY <2>1, SumAppend
  <2>5. l \in Nat /\ Jumps(m) \in Seq(Nat) /\ Distance(l, now[s]) \in Nat
    BY <1>3, <1>9, <2>1, JumpsTyped, WorkerNumbers
  <2>6. Sum(Jumps(M)) = IF l # 0 THEN Sum(Jumps(m)) + Distance(l, now[s]) ELSE Sum(Jumps(m))
    <3>1. CASE m = <<>>
      <4>1. Jumps(M) = <<>> /\ Jumps(m) = <<>> /\ l = 0
        BY <2>1, <2>2, <3>1, JumpsAppend DEF Jumps
      <4>. QED
        BY <4>1
    <3>2. CASE m # <<>>
      <4>1. Jumps(M) = Append(Jumps(m), Distance(l, now[s])) /\ l # 0
        <5>1. Jumps(M) = Append(Jumps(m), Distance(m[Len(m)], now[s]))
          BY <2>1, <3>2, JumpsAppend
        <5>2. l = m[Len(m)] /\ l > 0
          BY <2>2, <3>2
        <5>. QED
          BY <2>5, <5>1, <5>2
      <4>. QED
        BY <2>5, <4>1, SumAppend
    <3>. QED
      BY <3>1, <3>2
  <2>. HIDE DEF m, M
  <2>7. stats'[w].last[s] = now[s]
    BY <1>8
  <2>8. /\ stats'[w].ops = Len(M) /\ stats'[w].sum[s] = Sum(M)
        /\ stats'[w].jitter[s] = Sum(Jumps(M))
    BY <1>8, <2>2, <2>3, <2>4, <2>6
  <2>. QED
    BY <2>1, <2>3, <2>7, <2>8 DEF Exact
<1>14. Timely(w)'
  <2>1. /\ stats[w].elapsed_nanoseconds + stats[w].sum["latency"] <= starts[w]["latency"]
        /\ stats[w].elapsed_nanoseconds \in Nat /\ stats[w].sum["latency"] \in Nat
        /\ "latency" \in Series
    BY <1>1, <1>3, WorkerNumbers DEF StatsInv, Timely
  <2>2. stats'[w].elapsed_nanoseconds + stats'[w].sum["latency"] <= clock'
    <3>1. /\ stats'[w].sum["latency"] = stats[w].sum["latency"] + now["latency"]
          /\ stats'[w].elapsed_nanoseconds = stats[w].elapsed_nanoseconds
          /\ clock' = clock
      BY <1>2, <1>8, <2>1
    <3>. QED
      BY <1>4, <1>6, <2>1, <3>1
  <2>. QED
    BY <1>7, <2>2 DEF Timely
<1>15. Within(w)'
  <2>1. stats'[w].sum["send_latency"] <= stats'[w].sum["latency"]
    <3>1. /\ stats[w].sum["send_latency"] <= stats[w].sum["latency"]
          /\ stats[w].sum["send_latency"] \in Nat /\ stats[w].sum["latency"] \in Nat
          /\ "latency" \in Series /\ "send_latency" \in Series
      BY <1>3, WorkerNumbers DEF StatsInv, Within
    <3>2. now["latency"] \in Nat /\ now["send_latency"] \in Nat
      BY <1>5, <3>1
    <3>. QED
      BY <1>6, <1>8, <3>1, <3>2
  <2>2. ASSUME NEW s \in Series
        PROVE  stats'[w].jitter[s] + stats'[w].last[s] <= 2 * stats'[w].sum[s]
    <3>. DEFINE j == stats[w].jitter[s]
                l == stats[w].last[s]
                a == stats[w].sum[s]
                d == Distance(l, now[s])
    <3>1. j \in Nat /\ l \in Nat /\ a \in Nat /\ now[s] \in Nat /\ d \in Nat
          /\ d <= l + now[s] /\ j + l <= 2 * a
      BY <1>3, <1>5, <1>9, WorkerNumbers DEF StatsInv, Within
    <3>2. stats'[w].last[s] = now[s] /\ stats'[w].sum[s] = a + now[s]
          /\ stats'[w].jitter[s] = IF l # 0 THEN j + d ELSE j
      BY <1>8
    <3>. HIDE DEF j, l, a, d
    <3>. QED
      BY <3>1, <3>2
  <2>. QED
    BY <2>1, <2>2 DEF Within
<1>16. main # "sum"
  BY <1>1 DEF StatsInv
<1>17. clock' = clock /\ total' = total
  BY <1>2
<1>. QED
  BY <1>1, <1>others, <1>12, <1>13, <1>14, <1>15, <1>16, <1>17, WorkerStep

\* The totals are numbers, and what holds of each worker's figures holds of them.
LEMMA TotalsBounded ==
    ASSUME StatsInv
    PROVE  /\ Totals \in Statistics
           /\ (\A w \in Workers : wpc[w] = "finished") =>
                /\ Totals.sum["latency"] < Cardinality(Workers) * (Totals.elapsed_nanoseconds + 1)
                /\ Totals.sum["send_latency"] <= Totals.sum["latency"]
                /\ \A s \in Series : Totals.jitter[s] <= 2 * Totals.sum[s]
<1>. DEFINE ops == [w \in Workers |-> stats[w].ops]
            sum(s) == [w \in Workers |-> stats[w].sum[s]]
            jitter(s) == [w \in Workers |-> stats[w].jitter[s]]
            elapsed == [w \in Workers |-> stats[w].elapsed_nanoseconds]
            c == Cardinality(Workers)
            e == Total(elapsed)
<1>1. StatsTypeOK
  BY DEF StatsInv
<1>2. /\ ops \in [Workers -> Nat] /\ elapsed \in [Workers -> Nat]
      /\ \A s \in Series : sum(s) \in [Workers -> Nat] /\ jitter(s) \in [Workers -> Nat]
  BY <1>1, WorkerNumbers
<1>3. /\ Total(ops) \in Nat /\ e \in Nat
      /\ \A s \in Series : Total(sum(s)) \in Nat /\ Total(jitter(s)) \in Nat
  <2>. HIDE DEF ops, sum, jitter, elapsed
  <2>. QED
    BY <1>2, TotalTyped
<1>4. c \in Nat \ {0}
  BY StatsAssumption, FS_CardinalityType, FS_EmptySet
<1>. HIDE DEF c
<1>5. e \div c \in Nat /\ e < c * ((e \div c) + 1)
  <2>. HIDE DEF e
  <2>. QED
    BY <1>3, <1>4, Z3
<1>6. /\ Totals.ops = Total(ops) /\ Totals.elapsed_nanoseconds = e \div c
      /\ Totals.sum = [s \in Series |-> Total(sum(s))]
      /\ Totals.jitter = [s \in Series |-> Total(jitter(s))]
      /\ Totals \in Statistics
  <2>1. Totals = [ops |-> Total(ops), sum |-> [s \in Series |-> Total(sum(s))],
                  last |-> [s \in Series |-> 0],
                  jitter |-> [s \in Series |-> Total(jitter(s))],
                  elapsed_nanoseconds |-> e \div c]
    BY DEF Totals, c
  <2>. HIDE DEF ops, sum, jitter, e
  <2>. QED
    BY <1>3, <1>5, <2>1 DEF Statistics
<1>7. ASSUME \A w \in Workers : wpc[w] = "finished"
      PROVE  /\ Total(sum("latency")) <= 1 * e
             /\ Total(sum("send_latency")) <= 1 * Total(sum("latency"))
             /\ \A s \in Series : Total(jitter(s)) <= 2 * Total(sum(s))
  <2>1. ASSUME NEW w \in Workers
        PROVE  /\ sum("latency")[w] <= 1 * elapsed[w]
               /\ sum("send_latency")[w] <= 1 * sum("latency")[w]
               /\ \A s \in Series : jitter(s)[w] <= 2 * sum(s)[w]
    <3>1. /\ stats[w].sum["latency"] <= stats[w].elapsed_nanoseconds
          /\ stats[w].sum["send_latency"] <= stats[w].sum["latency"]
          /\ \A s \in Series : stats[w].jitter[s] + stats[w].last[s] <= 2 * stats[w].sum[s]
      BY <1>7 DEF StatsInv, Timely, Within
    <3>2. \A s \in Series : stats[w].jitter[s] \in Nat /\ stats[w].last[s] \in Nat
                            /\ stats[w].sum[s] \in Nat
      BY <1>1, WorkerNumbers
    <3>3. \A s \in Series : stats[w].jitter[s] <= 2 * stats[w].sum[s]
      BY <3>1, <3>2
    <3>4. stats[w].elapsed_nanoseconds \in Nat /\ "latency" \in Series /\ "send_latency" \in Series
      BY <1>1, WorkerNumbers
    <3>. QED
      BY <3>1, <3>2, <3>3, <3>4
  <2>2. "latency" \in Series /\ "send_latency" \in Series
    BY DEF Series
  <2>. HIDE DEF sum, jitter, elapsed
  <2>. QED
    BY <1>2, <2>1, <2>2, TotalOrdered
<1>8. ASSUME \A w \in Workers : wpc[w] = "finished"
      PROVE  /\ Totals.sum["latency"] < c * (Totals.elapsed_nanoseconds + 1)
             /\ Totals.sum["send_latency"] <= Totals.sum["latency"]
             /\ \A s \in Series : Totals.jitter[s] <= 2 * Totals.sum[s]
  <2>1. "latency" \in Series /\ "send_latency" \in Series
    BY DEF Series
  <2>2. \A s \in Series : Totals.sum[s] = Total(sum(s)) /\ Totals.jitter[s] = Total(jitter(s))
    BY <1>6
  <2>. HIDE DEF sum, jitter, e
  <2>3. Totals.sum["latency"] <= e
    BY <1>3, <1>7, <1>8, <2>1, <2>2
  <2>4. c * (Totals.elapsed_nanoseconds + 1) = c * ((e \div c) + 1)
    BY <1>6
  <2>5. c * ((e \div c) + 1) \in Nat
    BY <1>4, <1>5
  <2>. QED
    BY <1>3, <1>5, <1>7, <1>8, <2>1, <2>2, <2>3, <2>4, <2>5
<1>. QED
  BY <1>6, <1>8 DEF c

\* The main thread moves on, and in the end adds up what the workers leave.
LEMMA run_clientStep == StatsInv /\ run_client => StatsInv'
<1>1. ASSUME StatsInv, set_begin \/ set_stop \/ join,
             UNCHANGED <<clock, debug_log, wpc, starts, stats, total, measured>>
      PROVE  StatsInv'
  <2>1. main' \in {"sleep", "join", "sum"}
        /\ (main' = "sum" => \A w \in Workers : wpc[w] \in {"finished", "failed"})
    BY <1>1 DEF set_begin, set_stop, join
  <2>2. StatsTypeOK'
    BY <1>1, <2>1 DEF StatsInv, StatsTypeOK
  <2>3. clock' \in Nat /\ clock <= clock'
    BY <1>1 DEF StatsInv, StatsTypeOK
  <2>4. \A w \in Workers : (\A s \in Series : Exact(w, s)') /\ Timely(w)' /\ Within(w)'
    BY <1>1, <2>3, WorkerRests
  <2>. QED
    BY <1>1, <2>1, <2>2, <2>4 DEF StatsInv, TotalsFit
<1>2. ASSUME StatsInv, print_totals
      PROVE  StatsInv'
  <2>1. main = "sum" /\ total' = Totals /\ main' \in {"printed", "trapped"}
        /\ UNCHANGED <<clock, debug_log, wpc, starts, stats, measured>>
    BY <1>2 DEF print_totals
  <2>2. Totals \in Statistics
    BY <1>2, TotalsBounded
  <2>3. StatsTypeOK'
    BY <1>2, <2>1, <2>2 DEF StatsInv, StatsTypeOK
  <2>4. clock' \in Nat /\ clock <= clock'
    BY <1>2, <2>1 DEF StatsInv, StatsTypeOK
  <2>5. \A w \in Workers : (\A s \in Series : Exact(w, s)') /\ Timely(w)' /\ Within(w)'
    BY <1>2, <2>1, <2>4, WorkerRests
  <2>6. TotalsFit'
    <3>. SUFFICES ASSUME \A w \in Workers : wpc[w] # "failed"
                  PROVE  /\ total'.sum["latency"] < Cardinality(Workers) * (total'.elapsed_nanoseconds + 1)
                         /\ total'.sum["send_latency"] <= total'.sum["latency"]
                         /\ \A s \in Series : total'.jitter[s] <= 2 * total'.sum[s]
      BY <2>1 DEF TotalsFit
    <3>1. \A w \in Workers : wpc[w] = "finished"
      BY <1>2, <2>1 DEF StatsInv
    <3>. QED
      BY <1>2, <2>1, <3>1, TotalsBounded
  <2>. QED
    BY <2>1, <2>3, <2>5, <2>6 DEF StatsInv
<1>. QED
  BY <1>1, <1>2 DEF run_client

\* Each step preserves the invariant.
LEMMA StatsNextInv == StatsInv /\ [StatsNext]_statsVars => StatsInv'
<1> SUFFICES ASSUME StatsInv, [StatsNext]_statsVars PROVE StatsInv'
  OBVIOUS
<1>1. ASSUME NEW w \in Workers, worker(w) PROVE StatsInv'
  BY <1>1, beginStep, startStep, sendStep, endStep, failsStep, finishStep DEF worker
<1>2. CASE UNCHANGED statsVars
  BY <1>2 DEF statsVars, StatsInv, StatsTypeOK, Exact, Timely, Within, TotalsFit
<1>. QED
  BY <1>1, <1>2, tickStep, run_clientStep DEF StatsNext, Over

----------------------------------------------------------------------------
(* Stats: the theorems.                                                    *)

\* For any number of workers, however they and the main thread interleave and
\* whichever of them fail, the invariant holds in every reachable state.
THEOREM StatsInvariance == StatsSpec => []StatsInv
BY StatsInitInv, StatsNextInv, PTL DEF StatsSpec

\* No difference of times, no sum and no average of the statistics is ever
\* negative: the subtractions of unsigned numbers in the workers stay exact.
THEOREM StatsTypeCorrect == StatsSpec => []StatsTypeOK
<1>1. StatsInv => StatsTypeOK
  BY DEF StatsInv
<1>. QED
  BY <1>1, StatsInvariance, PTL

\* At any time, ops, latency and jitter of each worker's statistics are those of
\* the operations it has completed, none lost or counted twice.
THEOREM FiguresExact == StatsSpec => []SumsExact
<1>1. StatsInv => SumsExact
  BY DEF StatsInv, Exact, SumsExact
<1>. QED
  BY <1>1, StatsInvariance, PTL

\* What run_client prints belongs together if no worker has failed: operations
\* fit into the time they are divided by, SENDs into operations, jitter into
\* twice the latency.
THEOREM FiguresFit == StatsSpec => []TotalsFit
<1>1. StatsInv => TotalsFit
  BY DEF StatsInv
<1>. QED
  BY <1>1, StatsInvariance, PTL
=============================================================================
