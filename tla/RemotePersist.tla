--------------------------- MODULE RemotePersist ---------------------------
(***************************************************************************)
(* What a remote-persistence benchmark promises, whatever its protocol.    *)
(* Each connection repeatedly overwrites one remote buffer.  An overwrite  *)
(* is issued, its lines harden in any order and at any time, and counting  *)
(* the operation as done tells the client that all of it is durable: a     *)
(* power failure of the server after that cannot take it back.  Losing the *)
(* connection voids the promise, since nothing can be confirmed any more.  *)
(***************************************************************************)
EXTENDS Naturals

CONSTANTS Conns,  \* the connections
          Lines   \* the cache lines of one connection's buffer

VARIABLES issued,   \* overwrites begun on each connection
          durable,  \* the overwrite whose data each line holds after a crash
          counted,  \* overwrites counted as done (stats->ops)
          lost      \* the connection has failed

vars == <<issued, durable, counted, lost>>

Init ==
    /\ issued = [c \in Conns |-> 0]
    /\ durable = [c \in Conns |-> [l \in Lines |-> 0]]
    /\ counted = [c \in Conns |-> 0]
    /\ lost = [c \in Conns |-> FALSE]

\* One overwrite is outstanding at a time.
Issue(c) ==
    /\ issued[c] = counted[c]
    /\ issued' = [issued EXCEPT ![c] = @ + 1]
    /\ UNCHANGED <<durable, counted, lost>>

\* A line becomes durable with the data of this overwrite or of an earlier
\* one, never going back.
Harden(c, l) ==
    /\ \E v \in 0 .. issued[c] :
         /\ v > durable[c][l]
         /\ durable' = [durable EXCEPT ![c][l] = v]
    /\ UNCHANGED <<issued, counted, lost>>

Count(c) ==
    /\ counted[c] < issued[c]
    /\ lost[c] \/ \A l \in Lines : durable[c][l] = issued[c]
    /\ counted' = [counted EXCEPT ![c] = @ + 1]
    /\ UNCHANGED <<issued, durable, lost>>

Lose(c) ==
    /\ lost' = [lost EXCEPT ![c] = TRUE]
    /\ UNCHANGED <<issued, durable, counted>>

Next ==
    \E c \in Conns :
        \/ Issue(c)
        \/ \E l \in Lines : Harden(c, l)
        \/ Count(c)
        \/ Lose(c)

Spec == Init /\ [][Next]_vars
=============================================================================
