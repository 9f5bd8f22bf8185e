------------------------------ MODULE CqChannel ------------------------------
(***************************************************************************)
(* process_work_completion_events of rdma-example and rwbenchmark, and the *)
(* completion queue with its channel of events that it works on.  The      *)
(* queue of a process is shared by sends and receives.  An armed queue     *)
(* puts one event into the channel with its next completion and is then    *)
(* not armed any more; every event taken has to be acknowledged before the *)
(* queue can be destroyed.                                                 *)
(***************************************************************************)
EXTENDS Naturals, Sequences, SequencesExt

CONSTANTS Clients,    \* the client processes
          Faults      \* what may fail in a run that is not sound

ASSUME CqChannelAssumption ==
    /\ "server" \notin Clients
    /\ Faults \subseteq {"client", "server", "channel", "fabric"}

Processes == Clients \cup {"server"}

VARIABLES sound,      \* nothing fails in this run
          cq,         \* statuses of the completions not polled yet
          armed,      \* the next completion raises an event
          events,     \* events in the channel
          unacked,    \* events taken and not acknowledged
          io,         \* where the process is in process_work_completion_events
          max_wc,     \* the completions it waits for
          wc          \* statuses of those it has

channel == <<cq, armed, events, unacked, io, max_wc, wc>>

Statuses == {"success", "error"}

ChannelTypeOK ==
    /\ sound \in BOOLEAN
    /\ cq \in [Processes -> Seq(Statuses)]
    /\ armed \in [Processes -> BOOLEAN]
    /\ events \in [Processes -> Nat]
    /\ unacked \in [Processes -> {0, 1}]
    /\ io \in [Processes -> {"idle", "event", "arm", "poll", "check", "success", "error"}]
    /\ max_wc \in [Processes -> 0 .. 2]
    /\ wc \in [Processes -> Seq(Statuses)]
    /\ \A p \in Processes : Len(wc[p]) <= max_wc[p]

ChannelInit ==
    /\ sound \in BOOLEAN
    /\ cq = [p \in Processes |-> <<>>]
    /\ armed = [p \in Processes |-> FALSE]
    /\ events = [p \in Processes |-> 0]
    /\ unacked = [p \in Processes |-> 0]
    /\ io = [p \in Processes |-> "idle"]
    /\ max_wc = [p \in Processes |-> 0]
    /\ wc = [p \in Processes |-> <<>>]

MayFail(fault) == ~sound /\ fault \in Faults

\* Completions arrive.
Complete(p, statuses) ==
    /\ cq' = [cq EXCEPT ![p] = @ \o statuses]
    /\ events' = [events EXCEPT ![p] = IF armed[p] THEN @ + 1 ELSE @]
    /\ armed' = [armed EXCEPT ![p] = FALSE]
    /\ UNCHANGED <<unacked, io, max_wc, wc>>

\* The queue is created and armed.
CreateCq(p) ==
    /\ armed' = [armed EXCEPT ![p] = TRUE]
    /\ UNCHANGED <<cq, events, unacked, io, max_wc, wc>>

\* process_work_completion_events is called.
Await(p, n) ==
    /\ io' = [io EXCEPT ![p] = "event"]
    /\ max_wc' = [max_wc EXCEPT ![p] = n]
    /\ wc' = [wc EXCEPT ![p] = <<>>]
    /\ UNCHANGED <<cq, armed, events, unacked>>

\* Its result is taken.
Returned(p, result) == io[p] = result

Goto(p, place) == io' = [io EXCEPT ![p] = place]

get_cq_event(p) ==
    /\ io[p] = "event" /\ events[p] > 0
    /\ events' = [events EXCEPT ![p] = @ - 1]
    /\ unacked' = [unacked EXCEPT ![p] = @ + 1]
    /\ Goto(p, "arm")
    /\ UNCHANGED <<cq, armed, max_wc, wc>>

\* Bug: no further notifications are requested.
BugNotArmed(p) ==
    /\ io[p] = "arm"
    /\ Goto(p, "poll")
    /\ UNCHANGED <<cq, armed, events, unacked, max_wc, wc>>

req_notify_cq(p) ==
    /\ io[p] = "arm"
    /\ armed' = [armed EXCEPT ![p] = TRUE]
    /\ Goto(p, "poll")
    /\ UNCHANGED <<cq, events, unacked, max_wc, wc>>

\* One ibv_poll_cq that finds something: as much as there is and is wanted.
poll_cq(p) ==
    /\ io[p] = "poll" /\ cq[p] # <<>>
    /\ \E taken \in {n \in 1 .. Len(cq[p]) : n = Len(cq[p]) \/ Len(wc[p]) + n = max_wc[p]} :
         /\ Len(wc[p]) + taken <= max_wc[p]
         /\ wc' = [wc EXCEPT ![p] = @ \o SubSeq(cq[p], 1, taken)]
         /\ cq' = [cq EXCEPT ![p] = SubSeq(@, taken + 1, Len(@))]
         /\ Goto(p, IF Len(wc[p]) + taken = max_wc[p] THEN "check" ELSE "poll")
    /\ UNCHANGED <<armed, events, unacked, max_wc>>

\* Bug: the event is not acknowledged.
BugNotAcked(p) ==
    /\ io[p] = "check"
    /\ Goto(p, IF Contains(wc[p], "error") THEN "error" ELSE "success")
    /\ UNCHANGED <<cq, armed, events, unacked, max_wc, wc>>

\* The event is acknowledged if all statuses are good.
check_wc(p) ==
    /\ io[p] = "check"
    /\ IF Contains(wc[p], "error")
       THEN Goto(p, "error") /\ UNCHANGED unacked
       ELSE Goto(p, "success") /\ unacked' = [unacked EXCEPT ![p] = @ - 1]
    /\ UNCHANGED <<cq, armed, events, max_wc, wc>>

\* One of the calls fails.
channel_fails(p) ==
    /\ MayFail("channel")
    /\ io[p] \in {"event", "arm", "poll"}
    /\ Goto(p, "error")
    /\ UNCHANGED <<cq, armed, events, unacked, max_wc, wc>>

process_work_completion_events(p) ==
    \/ get_cq_event(p)
    \/ req_notify_cq(p)
    \/ poll_cq(p)
    \/ check_wc(p)
    \/ channel_fails(p)

----------------------------------------------------------------------------
(* Properties.                                                             *)

\* No wake-up is lost: a process that blocks in ibv_get_cq_event while there
\* is no event has no completion waiting for it and will be told of the next.
\* The order of ibv_req_notify_cq and ibv_poll_cq is what this depends on.
WakeupKept ==
    \A p \in Processes :
        io[p] = "event" /\ events[p] = 0 => cq[p] = <<>> /\ armed[p]
=============================================================================
