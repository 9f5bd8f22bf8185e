---------------------------- MODULE RemoteBuffer ----------------------------
(***************************************************************************)
(* The server's message buffer of each connection (node->mem) as data      *)
(* reaches it: from the server's adapter, which has received a WRITE, to   *)
(* its caches, line by line in any order, and from there to the media.     *)
(* The copy on the media is what a power failure leaves.                   *)
(*                                                                         *)
(* src_mem never changes, so every overwrite stores the same bytes; a line *)
(* holds the number of the overwrite it comes from, which tells old data   *)
(* from new.  A WRITE is acknowledged once the adapter has it; what makes  *)
(* its data visible in memory is a later request of the same connection    *)
(* that is ordered behind it: a SEND, a WRITE with immediate data, or a    *)
(* READ that really reads.                                                 *)
(***************************************************************************)
EXTENDS Verbs

CONSTANTS Lines       \* the cache lines of one connection's buffer

ASSUME LinesAssumption == Lines # {}

VARIABLES nic,        \* overwrites the server's adapter has received
          mem,        \* the overwrite each line holds in the caches
          pmem        \* the overwrite each line holds on the media

buffer == <<nic, mem, pmem>>

BufferTypeOK ==
    /\ nic \in [Conns -> Nat]
    /\ mem \in [Conns -> [Lines -> Nat]]
    /\ pmem \in [Conns -> [Lines -> Nat]]

BufferInit ==
    /\ nic = [c \in Conns |-> 0]
    /\ mem = [c \in Conns |-> [l \in Lines |-> 0]]
    /\ pmem = [c \in Conns |-> [l \in Lines |-> 0]]

\* All the data received so far is in memory.
Placed(c) == \A l \in Lines : mem[c][l] = nic[c]

\* A WRITE reaches the server's adapter.
Receive(c) ==
    /\ nic' = [nic EXCEPT ![c] = @ + 1]
    /\ UNCHANGED <<mem, pmem>>

\* The adapter moves one line to memory.
Place(c, l) ==
    /\ mem[c][l] < nic[c]
    /\ mem' = [mem EXCEPT ![c][l] = nic[c]]
    /\ UNCHANGED <<nic, pmem>>

\* One line reaches the media: pmem_persist flushes it, or the cache evicts it.
WriteBack(c, l) ==
    /\ pmem' = [pmem EXCEPT ![c][l] = mem[c][l]]
    /\ UNCHANGED <<nic, mem>>

\* The cache evicts a line on its own account.
Evict(c, l) ==
    /\ pmem[c][l] # mem[c][l]
    /\ WriteBack(c, l)
=============================================================================
