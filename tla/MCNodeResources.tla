--------------------------- MODULE MCNodeResources ---------------------------
(* Instances of NodeResources for TLC.                                    *)
EXTENDS NodeResources

\* Every call of alloc_nodes, init_node and connect_handler may fail.
AllCalls == Device \cup Heap \cup {"id", "pmem", "is_pmem", "accept"}
=============================================================================
