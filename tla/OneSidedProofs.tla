--------------------------- MODULE OneSidedProofs ---------------------------
(***************************************************************************)
(* Proofs about OneSided, for any connections, buffer lines and queue      *)
(* depths, for wbenchmark, rbenchmark and wrbenchmark, and with connection *)
(* failures.                                                               *)
(***************************************************************************)
EXTENDS OneSided, BenchRunProofs, FiniteSetTheorems

\* What the program constants have in common: one request or two, only the
\* last one signaled, a WRITE nowhere but at the front.
ProgramShape ==
    /\ program \in Seq(WorkRequests)
    /\ Len(program) \in 1 .. 2
    /\ Len(program) <= MaxSendWr
    /\ \A k \in 1 .. Len(program) : program[k].sig <=> k = Len(program)
    /\ \A k \in 1 .. Len(program) : program[k].op = "WRITE" => k = 1
    /\ \A k \in 1 .. Len(program) : program[k].op \notin Consuming
    /\ program # rbenchmark => program[1].op = "WRITE"

\* How many requests of its operation the worker has posted.
Posted(c) == IF wpc[c] = "poll_send" THEN Len(program) ELSE next[c] - 1

\* The worker's queue pair holds exactly the requests the worker has posted of
\* this operation: whether polled with success or with an error, a completion
\* leaves nothing behind.
QueueHoldsPosted(c) ==
    /\ Len(sq[Client(c)]) = Posted(c)
    /\ \A k \in 1 .. Len(sq[Client(c)]) : sq[Client(c)][k] = program[k]
    /\ acked[Client(c)] <= delivered[Client(c)]
    /\ delivered[Client(c)] <= Posted(c)

\* Nobody posts a receive, and the server end is never used.
RestIsIdle(c) ==
    /\ \A e \in {Client(c), Server(c)} : rq[e] = 0 /\ rcq[e] = 0
    /\ sq[Server(c)] = <<>>

\* The worker never ends on a refused post, is between two posts when it says
\* so, and has begun what it has counted and the operation it is in.
WorkerPhase(c) ==
    /\ wpc[c] # "failed"
    /\ wpc[c] = "post_send" <=> next[c] # 1
    /\ posted[c] = ops[c] + (IF wpc[c] \in {"post_send", "poll_send"} THEN 1 ELSE 0)

\* The adapter has received the WRITEs counted, and the current one once it
\* is delivered.
WritesReceived(c) ==
    ~broken[Client(c)] /\ program[1].op = "WRITE" =>
        nic[c] = ops[c] + (IF delivered[Client(c)] = 0 THEN 0 ELSE 1)

ConnInv(c) ==
    /\ WorkerPhase(c)
    /\ QueueHoldsPosted(c)
    /\ RestIsIdle(c)
    /\ WritesReceived(c)

IInv ==
    /\ TypeOK
    /\ \A c \in Conns : ConnInv(c)
    /\ Joined => \A c \in Conns : wpc[c] = "finished"

LEMMA ProgramFacts ==
    ASSUME program \in Programs
    PROVE  ProgramShape
<1>1. program \in {wbenchmark, rbenchmark, wrbenchmark} /\ MaxSendWr >= Len(program)
  BY OneSidedAssumption
<1>2. MaxSendWr \in Nat
  BY VerbsAssumption
<1>3. CASE program = wbenchmark
  BY <1>1, <1>2, <1>3 DEF wbenchmark, rbenchmark, ProgramShape, WorkRequests, Opcodes, Consuming
<1>4. CASE program = rbenchmark
  BY <1>1, <1>2, <1>4 DEF rbenchmark, ProgramShape, WorkRequests, Opcodes, Consuming
<1>5. CASE program = wrbenchmark
  BY <1>1, <1>2, <1>5 DEF wrbenchmark, rbenchmark, ProgramShape, WorkRequests, Opcodes, Consuming
<1>. QED
  BY <1>1, <1>3, <1>4, <1>5

----------------------------------------------------------------------------
(* Type correctness.                                                       *)

LEMMA InitType == Init => TypeOK
<1> SUFFICES ASSUME Init PROVE TypeOK
  OBVIOUS
<1>1. VerbsTypeOK
  BY DEF Init, RunInit, VerbsTypeOK
<1>2. BufferTypeOK
  BY DEF Init, RunInit, BufferInit, BufferTypeOK
<1>3. next \in [Conns -> 1 .. Len(program)]
  <2>1. Len(program) \in 1 .. 2
    BY ProgramFacts DEF Init, ProgramShape
  <2>2. next = [c \in Conns |-> 1]
    BY DEF Init
  <2>. QED
    BY <2>1, <2>2
<1>. QED
  BY <1>1, <1>2, <1>3 DEF Init, RunInit, TypeOK, RunTypeOK, WorkerPcs

LEMMA PostType ==
    ASSUME TypeOK, NEW c \in Conns, post_send(c)
    PROVE  VerbsTypeOK' /\ program' \in Programs /\ next' \in [Conns -> 1 .. Len(program')]
<1>1. ProgramShape /\ next[c] \in 1 .. Len(program)
  BY ProgramFacts DEF TypeOK
<1>2. program[next[c]] \in WorkRequests
  BY <1>1 DEF ProgramShape
<1>3. VerbsTypeOK'
  BY <1>2, EndsFacts, PostSendType DEF TypeOK, RunTypeOK, post_send
<1>4. (IF Last(c) THEN 1 ELSE next[c] + 1) \in 1 .. Len(program)
  BY <1>1 DEF ProgramShape, Last
<1>. QED
  BY <1>3, <1>4 DEF TypeOK, post_send

LEMMA WorkerType ==
    ASSUME TypeOK, NEW c \in Conns, worker(c)
    PROVE  TypeOK'
<1>1. VerbsTypeOK' /\ BufferTypeOK' /\ program' \in Programs /\ next' \in [Conns -> 1 .. Len(program')]
  <2>1. CASE worker_begin(c) \/ worker_stop(c)
    BY <2>1 DEF TypeOK, RunTypeOK, VerbsTypeOK, BufferTypeOK, worker_begin, worker_stop,
                WorkerBegin, WorkerStop, verbs, buffer
  <2>2. CASE worker_first(c) \/ worker_next(c)
    <3>1. post_send(c)
      BY <2>2 DEF worker_first, worker_next
    <3>. QED
      BY <3>1, PostType DEF TypeOK, RunTypeOK, BufferTypeOK, post_send, buffer
  <2>3. CASE worker_poll_send(c)
    BY <2>3, EndsFacts, PollSendType DEF TypeOK, RunTypeOK, BufferTypeOK, worker_poll_send, buffer
  <2>. QED
    BY <2>1, <2>2, <2>3 DEF worker
<1>2. UNCHANGED run
  BY DEF worker, worker_begin, worker_stop, worker_first, worker_next, post_send, worker_poll_send,
         WorkerBegin, WorkerStop
<1>3. wpc' \in [Conns -> WorkerPcs] /\ posted' \in [Conns -> Nat] /\ ops' \in [Conns -> Nat]
  <2>0. wpc \in [Conns -> WorkerPcs] /\ posted \in [Conns -> Nat] /\ ops \in [Conns -> Nat]
    BY DEF TypeOK, RunTypeOK
  <2>1. CASE worker_begin(c) \/ worker_stop(c)
    BY <2>0, <2>1 DEF WorkerPcs, worker_begin, worker_stop, WorkerBegin, WorkerStop, WorkerGoto
  <2>2. CASE worker_first(c)
    BY <2>0, <2>2 DEF WorkerPcs, worker_first, WorkerGoto, After, BeginOperation
  <2>3. CASE worker_next(c)
    BY <2>0, <2>3 DEF WorkerPcs, worker_next, WorkerGoto, After, ContinueOperation
  <2>4. CASE worker_poll_send(c)
    BY <2>0, <2>4 DEF WorkerPcs, worker_poll_send, WorkerGoto, CountOperation
  <2>. QED
    BY <2>1, <2>2, <2>3, <2>4 DEF worker
<1>. QED
  BY <1>1, <1>2, <1>3 DEF TypeOK, RunTypeOK, run

\* The steps of the adapters, the caches and the fabric.
Network(c) ==
    nic_write(c) \/ nic_read(c) \/ nic_empty_read(c) \/ transport(c) \/ environment(c)

LEMMA NetworkSame ==
    ASSUME NEW c \in Conns, Network(c)
    PROVE  UNCHANGED <<run, client, program, next>>
BY DEF Network, nic_write, nic_read, nic_empty_read, transport, Transport, environment, Environment,
       nic_ack, nic_retry_exceeded, nic_place, evict, break

LEMMA NetworkType ==
    ASSUME TypeOK, NEW c \in Conns, Network(c)
    PROVE  TypeOK'
<1>. USE EndsFacts
<1>1. \A s \in Sides : <<c, s>> \in Ends
  BY DEF Ends
<1>2. VerbsTypeOK' /\ BufferTypeOK'
  <2>1. CASE nic_write(c)
    BY <2>1, DeliverType, BufferType DEF TypeOK, RunTypeOK, nic_write
  <2>2. CASE nic_read(c) \/ nic_empty_read(c)
    BY <2>2, DeliverType DEF TypeOK, RunTypeOK, BufferTypeOK, nic_read, nic_empty_read, buffer
  <2>3. CASE \E s \in Sides : nic_ack(<<c, s>>) \/ nic_retry_exceeded(<<c, s>>) \/ break(<<c, s>>)
    BY <1>1, <2>3, AckBreakType DEF TypeOK, RunTypeOK, BufferTypeOK, nic_ack, nic_retry_exceeded, break, buffer
  <2>4. CASE \E l \in Lines : nic_place(c, l) \/ evict(c, l)
    BY <2>4, BufferType DEF TypeOK, RunTypeOK, VerbsTypeOK, nic_place, evict, Evict, verbs
  <2>. QED
    BY <2>1, <2>2, <2>3, <2>4 DEF Network, transport, Transport, environment, Environment
<1>. QED
  BY <1>2, NetworkSame DEF TypeOK, RunTypeOK, run, client

LEMMA RunClientType ==
    ASSUME TypeOK, run_client
    PROVE  TypeOK'
<1>1. VerbsTypeOK' /\ BufferTypeOK'
  BY DEF TypeOK, RunTypeOK, VerbsTypeOK, BufferTypeOK, run_client, RunClient, verbs, buffer
<1>2. UNCHANGED <<client, program, next>>
  BY DEF run_client, RunClient
<1>3. /\ main' \in {"prepare", "sleep", "join", "joined"}
      /\ begin' \in BOOLEAN
      /\ stop' \in BOOLEAN
  BY DEF TypeOK, RunTypeOK, run_client, RunClient, SetBegin, SetStop, Join
<1>. QED
  BY <1>1, <1>2, <1>3 DEF TypeOK, RunTypeOK, client

LEMMA StutterType ==
    ASSUME TypeOK, UNCHANGED vars
    PROVE  TypeOK'
BY DEF TypeOK, RunTypeOK, VerbsTypeOK, BufferTypeOK, vars, verbs, buffer, run, client

LEMMA NextType == TypeOK /\ [Next]_vars => TypeOK'
BY WorkerType, NetworkType, RunClientType, StutterType DEF Next, Finished, Network

\* Every variable of the three benchmarks' data path keeps its type.
THEOREM TypeCorrect == Spec => []TypeOK
BY InitType, NextType, PTL DEF Spec

----------------------------------------------------------------------------
(* One connection's part of the invariant, action by action.               *)

ConnSame(c) ==
    /\ EndSame(Client(c)) /\ EndSame(Server(c))
    /\ nic'[c] = nic[c] /\ ClientSame(c) /\ next'[c] = next[c]

Others(c) == \A d \in Conns \ {c} : ConnSame(d)

LEMMA ConnFrame ==
    ASSUME NEW c \in Conns, ConnInv(c), ConnSame(c), program' = program
    PROVE  ConnInv(c)'
<1>1. Posted(c)' = Posted(c)
  BY DEF Posted, ConnSame, ClientSame
<1>2. WorkerPhase(c)'
  BY DEF ConnInv, WorkerPhase, ConnSame, ClientSame
<1>3. QueueHoldsPosted(c)'
  BY <1>1 DEF ConnInv, QueueHoldsPosted, ConnSame, EndSame, SendSame
<1>4. RestIsIdle(c)'
  BY DEF ConnInv, RestIsIdle, ConnSame, EndSame, SendSame, RecvSame
<1>5. WritesReceived(c)'
  BY DEF ConnInv, WritesReceived, ConnSame, EndSame, SendSame, ClientSame
<1>. QED
  BY <1>2, <1>3, <1>4, <1>5 DEF ConnInv

\* A step at one end of one connection leaves the other connections alone.
LEMMA OthersByEnd ==
    ASSUME NEW c \in Conns, NEW e \in {Client(c), Server(c)}, \A f \in Ends \ {e} : EndSame(f),
           \A d \in Conns \ {c} : nic'[d] = nic[d] /\ ClientSame(d) /\ next'[d] = next[d]
    PROVE  Others(c)
BY EndsFacts DEF Others, ConnSame

\* Waiting for begin and seeing stop.
LEMMA WorkerIdleStep ==
    ASSUME TypeOK, NEW c \in Conns, ConnInv(c), worker_begin(c) \/ worker_stop(c)
    PROVE  ConnInv(c)' /\ Others(c)
<1>1. UNCHANGED <<verbs, buffer, posted, ops, program, next>>
  BY DEF worker_begin, worker_stop, WorkerBegin, WorkerStop
<1>2. /\ wpc[c] \in {"wait_begin", "check_stop"} /\ wpc'[c] \in {"check_stop", "finished"}
      /\ \A d \in Conns \ {c} : wpc'[d] = wpc[d]
  BY DEF worker_begin, worker_stop, WorkerBegin, WorkerStop, WorkerGoto, TypeOK, RunTypeOK
<1>3. Posted(c)' = Posted(c)
  BY <1>1, <1>2 DEF Posted
<1>4. ConnInv(c)'
  BY <1>1, <1>2, <1>3 DEF ConnInv, WorkerPhase, QueueHoldsPosted, RestIsIdle, WritesReceived, verbs, buffer
<1>. QED
  BY <1>1, <1>2, <1>4 DEF Others, ConnSame, EndSame, SendSame, RecvSame, ClientSame, verbs, buffer

\* A post finds room: the worker has posted less than its operation, and the
\* queue has a slot for each of its requests.
LEMMA PostStep ==
    ASSUME TypeOK, NEW c \in Conns, ConnInv(c), worker_first(c) \/ worker_next(c)
    PROVE  ConnInv(c)' /\ Others(c)
<1> DEFINE e == Client(c)
           n == next[c]
<1>1. e \in Ends /\ Server(c) \in Ends \ {e}
  BY EndsFacts
<1>2. VerbsTypeOK /\ sq[e] \in Seq(WorkRequests) /\ delivered[e] \in Nat /\ acked[e] \in Nat
  BY <1>1 DEF TypeOK, RunTypeOK, VerbsTypeOK
<1>3. ProgramShape /\ n \in 1 .. Len(program) /\ posted[c] \in Nat /\ ops[c] \in Nat
  BY ProgramFacts DEF TypeOK, RunTypeOK
<1>4. wpc[c] \in {"check_stop", "post_send"} /\ post_send(c)
  BY DEF worker_first, worker_next, NextOperation
<1>5. Posted(c) = n - 1 /\ Len(sq[e]) = n - 1
  BY <1>4 DEF Posted, ConnInv, QueueHoldsPosted
<1>6. SendRoom(e)
  BY <1>3, <1>5, VerbsAssumption DEF SendRoom, ProgramShape
<1>7. /\ sq'[e] = Append(sq[e], program[n])
      /\ delivered'[e] = delivered[e] /\ acked'[e] = acked[e]
      /\ RecvSame(e) /\ broken'[e] = broken[e]
      /\ \A f \in Ends \ {e} : EndSame(f)
  BY <1>1, <1>2, <1>4, <1>6, PostSendEffect DEF post_send
<1>8. /\ program' = program /\ UNCHANGED buffer /\ UNCHANGED ops
      /\ next'[c] = (IF n = Len(program) THEN 1 ELSE n + 1)
      /\ wpc'[c] = (IF n = Len(program) THEN "poll_send" ELSE "post_send")
      /\ posted'[c] = (IF wpc[c] = "check_stop" THEN posted[c] + 1 ELSE posted[c])
      /\ \A d \in Conns \ {c} : next'[d] = next[d] /\ ClientSame(d)
  <2>1. /\ program' = program /\ UNCHANGED buffer
        /\ next' = [next EXCEPT ![c] = IF n = Len(program) THEN 1 ELSE n + 1]
    BY <1>4 DEF post_send, Last
  <2>2. /\ wpc' = [wpc EXCEPT ![c] = IF n = Len(program) THEN "poll_send" ELSE "post_send"]
        /\ posted' = (IF wpc[c] = "check_stop" THEN [posted EXCEPT ![c] = @ + 1] ELSE posted)
        /\ ops' = ops
    BY <1>6 DEF worker_first, worker_next, NextOperation, BeginOperation, ContinueOperation,
                WorkerGoto, After, Last
  <2>3. next \in [Conns -> 1 .. Len(program)] /\ wpc \in [Conns -> WorkerPcs] /\ posted \in [Conns -> Nat]
    BY DEF TypeOK, RunTypeOK
  <2>. QED
    BY <2>1, <2>2, <2>3 DEF ClientSame
<1>9. Posted(c)' = n
  BY <1>3, <1>8 DEF Posted
<1>10. WorkerPhase(c)'
  <2>1. posted[c] = ops[c] + (IF wpc[c] = "post_send" THEN 1 ELSE 0)
    BY <1>4 DEF ConnInv, WorkerPhase
  <2>2. next'[c] # 1 <=> n # Len(program)
    BY <1>3, <1>8
  <2>. QED
    BY <1>3, <1>4, <1>8, <2>1, <2>2 DEF WorkerPhase
<1>11. QueueHoldsPosted(c)'
  <2>1. program[n] \in WorkRequests
    BY <1>3 DEF ProgramShape
  <2>2. Len(sq'[e]) = n
    BY <1>2, <1>3, <1>5, <1>7, <2>1
  <2>3. \A k \in 1 .. n : sq'[e][k] = program[k]
    <3>1. \A k \in 1 .. n - 1 : sq'[e][k] = sq[e][k] /\ sq[e][k] = program[k]
      BY <1>2, <1>3, <1>5, <1>7, <2>1 DEF ConnInv, QueueHoldsPosted
    <3>2. sq'[e][n] = program[n]
      BY <1>2, <1>3, <1>5, <1>7, <2>1
    <3>. QED
      BY <1>3, <3>1, <3>2
  <2>4. acked[e] <= delivered[e] /\ delivered[e] <= n - 1
    BY <1>5 DEF ConnInv, QueueHoldsPosted
  <2>. QED
    BY <1>2, <1>3, <1>7, <1>8, <1>9, <2>2, <2>3, <2>4 DEF QueueHoldsPosted
<1>12. RestIsIdle(c)'
  BY <1>1, <1>7 DEF ConnInv, RestIsIdle, RecvSame, EndSame, SendSame
<1>13. WritesReceived(c)'
  BY <1>7, <1>8 DEF ConnInv, WritesReceived, buffer
<1>14. Others(c)
  BY <1>7, <1>8, OthersByEnd DEF buffer
<1>. QED
  BY <1>10, <1>11, <1>12, <1>13, <1>14 DEF ConnInv

LEMMA PollStep ==
    ASSUME TypeOK, NEW c \in Conns, ConnInv(c), worker_poll_send(c)
    PROVE  ConnInv(c)' /\ Others(c)
<1> DEFINE e == Client(c)
           n == Len(program)
<1>1. e \in Ends /\ Server(c) \in Ends \ {e}
  BY EndsFacts
<1>2. VerbsTypeOK /\ sq[e] \in Seq(WorkRequests) /\ ops[c] \in Nat /\ posted[c] \in Nat
  BY <1>1 DEF TypeOK, RunTypeOK, VerbsTypeOK
<1>3. ProgramShape /\ n \in 1 .. 2 /\ next[c] \in 1 .. n
  BY ProgramFacts DEF TypeOK, ProgramShape
<1>4. wpc[c] = "poll_send" /\ PollSends(e)
  BY DEF worker_poll_send
<1>5. Len(sq[e]) = n /\ next[c] = 1 /\ acked[e] <= delivered[e] /\ delivered[e] <= n
      /\ \A k \in 1 .. n : sq[e][k] = program[k]
  BY <1>4 DEF ConnInv, QueueHoldsPosted, Posted, WorkerPhase
<1>6. \A k \in 1 .. Len(sq[e]) : sq[e][k].sig <=> k = Len(sq[e])
  BY <1>3, <1>5 DEF ProgramShape
<1>7. /\ ~broken[e] => delivered[e] = n
      /\ sq'[e] = <<>> /\ delivered'[e] = 0 /\ acked'[e] = 0
      /\ RecvSame(e) /\ broken'[e] = broken[e]
      /\ \A f \in Ends \ {e} : EndSame(f)
  <2>1. sq[e] # <<>>
    BY <1>3, <1>5
  <2>. QED
    BY <1>1, <1>2, <1>4, <1>5, <1>6, <2>1, PollSendsWhole
<1>8. /\ UNCHANGED <<buffer, program, next, posted>>
      /\ wpc'[c] = "check_stop" /\ ops'[c] = ops[c] + 1
      /\ \A d \in Conns \ {c} : ClientSame(d)
  BY DEF worker_poll_send, CountOperation, WorkerGoto, ClientSame, TypeOK, RunTypeOK
<1>9. Posted(c)' = 0
  BY <1>5, <1>8 DEF Posted
<1>10. WorkerPhase(c)'
  BY <1>2, <1>4, <1>5, <1>8 DEF ConnInv, WorkerPhase
<1>11. QueueHoldsPosted(c)'
  BY <1>7, <1>9 DEF QueueHoldsPosted
<1>12. RestIsIdle(c)'
  BY <1>1, <1>7 DEF ConnInv, RestIsIdle, RecvSame, EndSame, SendSame
<1>13. WritesReceived(c)'
  <2>1. CASE ~broken[e] /\ program[1].op = "WRITE"
    <3>1. nic[c] = ops[c] + 1
      BY <1>3, <1>7, <2>1 DEF ConnInv, WritesReceived
    <3>. QED
      BY <1>2, <1>7, <1>8, <3>1 DEF WritesReceived, buffer
  <2>2. CASE ~(~broken[e] /\ program[1].op = "WRITE")
    BY <1>7, <1>8, <2>2 DEF WritesReceived
  <2>. QED
    BY <2>1, <2>2
<1>14. Others(c)
  BY <1>7, <1>8, OthersByEnd DEF buffer
<1>. QED
  BY <1>10, <1>11, <1>12, <1>13, <1>14 DEF ConnInv

LEMMA WorkerStep ==
    ASSUME TypeOK, NEW c \in Conns, ConnInv(c), worker(c)
    PROVE  ConnInv(c)' /\ Others(c) /\ program' = program
<1>1. program' = program
  BY DEF worker, worker_begin, worker_stop, worker_first, worker_next, worker_poll_send, post_send
<1>. QED
  BY <1>1, WorkerIdleStep, PostStep, PollStep DEF worker

\* The next request of the client end to take effect is one of the operation;
\* a WRITE is the first of it.
LEMMA HeadingFacts ==
    ASSUME TypeOK, NEW c \in Conns, ConnInv(c), NEW op, Executing(Client(c), op)
    PROVE  /\ delivered[Client(c)] < Len(program) /\ delivered[Client(c)] < Posted(c)
           /\ program[delivered[Client(c)] + 1].op = op
           /\ op \notin Consuming
           /\ op = "WRITE" <=> delivered[Client(c)] = 0 /\ program[1].op = "WRITE"
<1> DEFINE e == Client(c)
<1>1. /\ delivered[e] \in Nat /\ ProgramShape /\ next[c] \in 1 .. Len(program)
      /\ Len(sq[e]) = Posted(c)
  BY EndsFacts, ProgramFacts DEF TypeOK, RunTypeOK, VerbsTypeOK, ConnInv, QueueHoldsPosted
<1>2. /\ delivered[e] < Posted(c) /\ Posted(c) \in Nat /\ Posted(c) <= Len(program)
      /\ sq[e][delivered[e] + 1].op = op
  BY <1>1 DEF Executing, Heading, Posted, ProgramShape
<1>3. sq[e][delivered[e] + 1] = program[delivered[e] + 1]
  BY <1>1, <1>2 DEF ConnInv, QueueHoldsPosted
<1>4. delivered[e] + 1 \in 1 .. Len(program)
  BY <1>1, <1>2 DEF ProgramShape
<1>5. op \notin Consuming /\ (op = "WRITE" => delivered[e] = 0)
  BY <1>1, <1>2, <1>3, <1>4 DEF ProgramShape
<1>. QED
  BY <1>1, <1>2, <1>3, <1>4, <1>5 DEF ProgramShape

LEMMA DeliverStep ==
    ASSUME TypeOK, NEW c \in Conns, ConnInv(c), nic_write(c) \/ nic_read(c) \/ nic_empty_read(c)
    PROVE  ConnInv(c)' /\ Others(c)
<1> DEFINE e == Client(c)
<1>1. e \in Ends /\ Server(c) \in Ends \ {e}
  BY EndsFacts
<1>2. VerbsTypeOK /\ delivered[e] \in Nat /\ acked[e] \in Nat /\ ops[c] \in Nat
      /\ nic \in [Conns -> Nat] /\ next[c] \in Nat
  <2>1. VerbsTypeOK /\ delivered[e] \in Nat /\ acked[e] \in Nat
    BY <1>1 DEF TypeOK, RunTypeOK, VerbsTypeOK
  <2>2. ops[c] \in Nat /\ nic \in [Conns -> Nat]
    BY DEF TypeOK, RunTypeOK, BufferTypeOK
  <2>3. next[c] \in 1 .. Len(program)
    BY DEF TypeOK
  <2>4. next[c] \in Nat
    BY <2>3
  <2>. QED
    BY <2>1, <2>2, <2>4
<1>3. UNCHANGED <<client, program, next>>
  BY NetworkSame DEF Network
<1>4. PICK op \in {"WRITE", "READ", "EMPTY_READ"} :
         /\ Deliver(e, op)
         /\ nic' = (IF op = "WRITE" THEN [nic EXCEPT ![c] = @ + 1] ELSE nic)
  BY DEF nic_write, nic_read, nic_empty_read, Receive, buffer
<1>5. /\ delivered[e] < Posted(c)
      /\ op \notin Consuming
      /\ op = "WRITE" <=> delivered[e] = 0 /\ program[1].op = "WRITE"
  BY <1>4, HeadingFacts DEF Deliver
<1>6. /\ sq'[e] = sq[e] /\ delivered'[e] = delivered[e] + 1 /\ acked'[e] = acked[e]
      /\ RecvSame(e) /\ broken'[e] = broken[e]
      /\ \A f \in Ends \ {e} : EndSame(f)
  BY <1>1, <1>2, <1>4, <1>5, DeliverEffect
<1>7. Posted(c)' = Posted(c) /\ WorkerPhase(c)'
  BY <1>3 DEF ConnInv, Posted, WorkerPhase, client
<1>8. QueueHoldsPosted(c)'
  <2>1. Posted(c) \in Nat \/ Posted(c) \in Int
    BY <1>2, ProgramFacts DEF Posted, TypeOK, ProgramShape
  <2>. QED
    BY <1>2, <1>3, <1>5, <1>6, <1>7, <2>1 DEF ConnInv, QueueHoldsPosted
<1>9. RestIsIdle(c)'
  BY <1>1, <1>6 DEF ConnInv, RestIsIdle, RecvSame, EndSame, SendSame
<1>10. WritesReceived(c)'
  BY <1>2, <1>3, <1>4, <1>5, <1>6 DEF ConnInv, WritesReceived, client
<1>11. Others(c)
  <2>1. \A d \in Conns \ {c} : nic'[d] = nic[d] /\ ClientSame(d) /\ next'[d] = next[d]
    BY <1>2, <1>3, <1>4 DEF ClientSame, client
  <2>. QED
    BY <1>6, <2>1, OthersByEnd
<1>. QED
  BY <1>7, <1>8, <1>9, <1>10, <1>11 DEF ConnInv

LEMMA AckStep ==
    ASSUME TypeOK, NEW c \in Conns, ConnInv(c), NEW e \in {Client(c), Server(c)},
           nic_ack(e), UNCHANGED <<program, next>>
    PROVE  ConnInv(c)' /\ Others(c)
<1>1. e \in Ends /\ Client(c) \in Ends /\ Server(c) \in Ends /\ Client(c) # Server(c)
  BY EndsFacts
<1>2. VerbsTypeOK /\ acked \in [Ends -> Nat] /\ delivered \in [Ends -> Nat]
  BY DEF TypeOK, RunTypeOK, VerbsTypeOK
<1>3. Ack(e) /\ acked[e] < delivered[e] /\ UNCHANGED <<buffer, client>>
      /\ UNCHANGED <<sq, delivered, rq, rcq, broken>>
  BY DEF nic_ack, Ack
<1>4. acked'[e] = acked[e] + 1 /\ \A f \in Ends \ {e} : EndSame(f)
  BY <1>1, <1>2, <1>3, AckEffect
<1>5. acked'[Client(c)] <= delivered'[Client(c)]
  BY <1>1, <1>2, <1>3, <1>4 DEF ConnInv, QueueHoldsPosted, EndSame, SendSame
<1>6. ConnInv(c)'
  BY <1>3, <1>5 DEF ConnInv, WorkerPhase, QueueHoldsPosted, Posted, RestIsIdle, WritesReceived, buffer, client
<1>. QED
  BY <1>3, <1>4, <1>6, OthersByEnd DEF buffer, client, ClientSame

LEMMA FailureStep ==
    ASSUME TypeOK, NEW c \in Conns, ConnInv(c), NEW e \in {Client(c), Server(c)},
           break(e) \/ nic_retry_exceeded(e), UNCHANGED <<program, next>>
    PROVE  ConnInv(c)' /\ Others(c)
<1>1. e \in Ends /\ Client(c) \in Ends /\ Server(c) \in Ends /\ VerbsTypeOK
  BY EndsFacts DEF TypeOK, RunTypeOK
<1>2. Break(e) \/ RetryExceeded(e)
  BY DEF break, nic_retry_exceeded
<1>3. UNCHANGED <<buffer, client>> /\ UNCHANGED <<sq, delivered, acked, rq, rcq>>
  BY DEF break, nic_retry_exceeded, Break, RetryExceeded
<1>4. broken'[e] = TRUE /\ \A f \in Ends \ {e} : EndSame(f)
  BY <1>1, <1>2, BreakEffect
<1>5. ~broken'[Client(c)] => ~broken[Client(c)]
  BY <1>1, <1>4 DEF EndSame
<1>6. ConnInv(c)'
  BY <1>3, <1>5 DEF ConnInv, WorkerPhase, QueueHoldsPosted, Posted, RestIsIdle, WritesReceived, buffer, client
<1>. QED
  BY <1>3, <1>4, <1>6, OthersByEnd DEF buffer, client, ClientSame

\* Nothing of the invariant speaks of the caches and the media.
LEMMA CacheStep ==
    ASSUME NEW c \in Conns, ConnInv(c), \E l \in Lines : nic_place(c, l) \/ evict(c, l),
           UNCHANGED <<program, next>>
    PROVE  ConnInv(c)' /\ Others(c)
<1>1. UNCHANGED <<verbs, nic, client>>
  BY DEF nic_place, evict, Place, Evict, WriteBack
<1>2. \A d \in Conns : ConnSame(d)
  BY <1>1 DEF ConnSame, EndSame, SendSame, RecvSame, ClientSame, verbs, client
<1>. QED
  BY <1>2, ConnFrame DEF Others

LEMMA NetworkStep ==
    ASSUME TypeOK, NEW c \in Conns, ConnInv(c), Network(c)
    PROVE  ConnInv(c)' /\ Others(c) /\ program' = program
<1>1. UNCHANGED <<program, next>>
  BY NetworkSame
<1>2. \A s \in Sides : <<c, s>> \in {Client(c), Server(c)}
  BY DEF Sides, Client, Server
<1>3. CASE nic_write(c) \/ nic_read(c) \/ nic_empty_read(c)
  BY <1>1, <1>3, DeliverStep
<1>4. CASE \E s \in Sides : nic_ack(<<c, s>>)
  BY <1>1, <1>2, <1>4, AckStep
<1>5. CASE \E s \in Sides : nic_retry_exceeded(<<c, s>>) \/ break(<<c, s>>)
  BY <1>1, <1>2, <1>5, FailureStep
<1>6. CASE \E l \in Lines : nic_place(c, l) \/ evict(c, l)
  BY <1>1, <1>6, CacheStep
<1>. QED
  BY <1>3, <1>4, <1>5, <1>6 DEF Network, transport, Transport, environment, Environment

----------------------------------------------------------------------------
(* The invariant, and what follows from it.                                *)

LEMMA InitInv == Init => IInv
<1> SUFFICES ASSUME Init PROVE IInv
  OBVIOUS
<1>1. ProgramShape /\ next = [c \in Conns |-> 1] /\ RunInit(0)
  BY ProgramFacts DEF Init
<1>2. ASSUME NEW c \in Conns PROVE ConnInv(c)
  <2>1. /\ sq[Client(c)] = <<>> /\ sq[Server(c)] = <<>>
        /\ delivered[Client(c)] = 0 /\ acked[Client(c)] = 0
        /\ \A e \in {Client(c), Server(c)} : rq[e] = 0 /\ rcq[e] = 0
    BY <1>1, EndsFacts DEF RunInit
  <2>2. wpc[c] = "wait_begin" /\ next[c] = 1 /\ posted[c] = 0 /\ ops[c] = 0 /\ nic[c] = 0
    BY <1>1 DEF RunInit, BufferInit
  <2>. QED
    BY <2>1, <2>2 DEF ConnInv, WorkerPhase, QueueHoldsPosted, Posted, RestIsIdle, WritesReceived
<1>3. ~Joined
  BY <1>1 DEF RunInit, Joined
<1>. QED
  BY <1>2, <1>3, InitType DEF IInv

\* Every step is one of the main thread, of one connection, or none.
LEMMA NextCases ==
    ASSUME [Next]_vars
    PROVE  \/ run_client \/ UNCHANGED vars
           \/ \E c \in Conns : worker(c) \/ Network(c)
BY DEF Next, Finished, Network

LEMMA NextInv == IInv /\ [Next]_vars => IInv'
<1> SUFFICES ASSUME IInv, [Next]_vars PROVE IInv'
  OBVIOUS
<1>1. TypeOK /\ TypeOK' /\ \A c \in Conns : ConnInv(c)
  BY NextType DEF IInv
<1>2. CASE run_client \/ UNCHANGED vars
  <2>1. UNCHANGED <<verbs, buffer, client, program, next>>
    BY <1>2 DEF run_client, RunClient, vars
  <2>2. \A c \in Conns : ConnSame(c)
    BY <2>1 DEF ConnSame, EndSame, SendSame, RecvSame, ClientSame, verbs, buffer, client
  <2>3. \A c \in Conns : ConnInv(c)'
    BY <1>1, <2>1, <2>2, ConnFrame
  <2>4. Joined' => \A c \in Conns : wpc'[c] = "finished"
    <3>1. CASE main' = main
      BY <2>1, <3>1 DEF IInv, Joined, client
    <3>2. CASE Join
      BY <1>1, <2>1, <3>2 DEF Join, ConnInv, WorkerPhase, client
    <3>3. CASE SetBegin \/ SetStop
      BY <3>3 DEF SetBegin, SetStop, Joined
    <3>. QED
      BY <1>2, <3>1, <3>2, <3>3 DEF run_client, RunClient, vars, run
  <2>. QED
    BY <1>1, <2>3, <2>4 DEF IInv
<1>3. CASE \E c \in Conns : worker(c) \/ Network(c)
  <2>1. PICK c \in Conns : worker(c) \/ Network(c)
    BY <1>3
  <2>2. ConnInv(c)' /\ Others(c) /\ program' = program
    BY <1>1, <2>1, WorkerStep, NetworkStep
  <2>3. \A d \in Conns : ConnInv(d)'
    BY <1>1, <2>2, ConnFrame DEF Others
  <2>4. main' = main
    BY <2>1, NetworkSame DEF worker, worker_begin, worker_stop, worker_first, worker_next, post_send,
                             worker_poll_send, WorkerBegin, WorkerStop, run
  <2>5. Joined' => \A d \in Conns : wpc'[d] = "finished"
    <3>1. CASE Joined
      <4>1. \A d \in Conns : wpc[d] = "finished"
        BY <3>1 DEF IInv
      <4>2. ~worker(c)
        BY <4>1 DEF worker, worker_begin, worker_stop, worker_first, worker_next, worker_poll_send,
                    WorkerBegin, WorkerStop, NextOperation
      <4>. QED
        BY <2>1, <4>1, <4>2, NetworkSame DEF client
    <3>2. CASE ~Joined
      BY <2>4, <3>2 DEF Joined
    <3>. QED
      BY <3>1, <3>2
  <2>. QED
    BY <1>1, <2>3, <2>5 DEF IInv
<1>. QED
  BY <1>2, <1>3, NextCases

\* The worker's queue pair holds the requests of its operation posted so far,
\* whatever fails, and the adapter has the counted WRITEs.
THEOREM Invariance == Spec => []IInv
BY InitInv, NextInv, PTL DEF Spec

\* What the client has counted of wbenchmark or wrbenchmark has reached the
\* server's adapter: one completion, that of the last request, is enough.
THEOREM CountedReceived == Spec => []CountedIsReceived
<1>1. IInv => CountedIsReceived
  <2> SUFFICES ASSUME IInv, NEW c \in Conns, ~broken[Client(c)], program # rbenchmark
               PROVE  nic[c] >= ops[c]
    BY DEF CountedIsReceived
  <2>1. program[1].op = "WRITE" /\ ops[c] \in Nat
    BY ProgramFacts DEF IInv, TypeOK, RunTypeOK, ProgramShape
  <2>2. nic[c] = ops[c] \/ nic[c] = ops[c] + 1
    BY <2>1 DEF IInv, ConnInv, WritesReceived
  <2>. QED
    BY <2>1, <2>2
<1>. QED
  BY <1>1, Invariance, PTL

\* A sound queue pair reports no request but the last of the operation, so a
\* completion queue of one entry is enough.
LEMMA CompletionsBounded == IInv => CompletionsFit
<1> SUFFICES ASSUME IInv, NEW e \in Ends, ~broken[e]
             PROVE  Cardinality(SendCompletions(e)) <= Cqe /\ rcq[e] <= Cqe
  BY DEF CompletionsFit
<1>1. PICK c \in Conns : e = Client(c) \/ e = Server(c)
  BY EndsCases
<1>2. Cqe \in Nat \ {0} /\ ConnInv(c)
  BY VerbsAssumption DEF IInv
<1>3. rcq[e] = 0
  BY <1>1, <1>2 DEF ConnInv, RestIsIdle
<1>4. SendCompletions(e) \subseteq {Len(program)}
  <2>1. CASE e = Server(c)
    BY <1>2, <2>1 DEF ConnInv, RestIsIdle, SendCompletions
  <2>2. CASE e = Client(c)
    <3>1. ProgramShape /\ next[c] \in 1 .. Len(program) /\ Len(sq[e]) = Posted(c)
          /\ \A k \in 1 .. Len(sq[e]) : sq[e][k] = program[k]
      BY <1>2, <2>2, ProgramFacts DEF IInv, TypeOK, ConnInv, QueueHoldsPosted
    <3>2. Posted(c) \in Nat /\ Posted(c) <= Len(program)
      BY <3>1 DEF Posted, ProgramShape
    <3>3. ASSUME NEW k \in SendCompletions(e) PROVE k = Len(program)
      <4>1. k \in 1 .. Len(sq[e]) /\ sq[e][k].sig
        BY DEF SendCompletions, Reports
      <4>. QED
        BY <3>1, <3>2, <4>1 DEF ProgramShape
    <3>. QED
      BY <3>3
  <2>. QED
    BY <1>1, <2>1, <2>2
<1>5. /\ Cardinality(SendCompletions(e)) <= Cardinality({Len(program)})
      /\ Cardinality(SendCompletions(e)) \in Nat
  BY <1>4, FS_Subset, FS_Singleton, FS_CardinalityType
<1>6. Cardinality({Len(program)}) = 1
  BY FS_Singleton
<1>. QED
  BY <1>2, <1>3, <1>5, <1>6

\* One slot is enough for wbenchmark and rbenchmark, two for wrbenchmark,
\* which never polls its WRITEs.
THEOREM QueuesSufficient == Spec => []QueuesSuffice
<1>1. IInv => QueuesSuffice
  <2> SUFFICES ASSUME IInv, NEW c \in Conns
               PROVE  wpc[c] # "failed" /\ Len(sq[Client(c)]) <= Len(program)
    BY CompletionsBounded DEF QueuesSuffice
  <2>1. ProgramShape /\ next[c] \in 1 .. Len(program) /\ ConnInv(c)
    BY ProgramFacts DEF IInv, TypeOK
  <2>2. Posted(c) <= Len(program)
    BY <2>1 DEF Posted, ProgramShape
  <2>. QED
    BY <2>1, <2>2 DEF ConnInv, WorkerPhase, QueueHoldsPosted
<1>. QED
  BY <1>1, Invariance, PTL

\* At the join nothing is left at the client's end of any connection, sound or
\* broken, and every operation begun is counted.
THEOREM JoinedQuiet == Spec => []JoinedIsQuiet
<1>1. IInv => JoinedIsQuiet
  <2> SUFFICES ASSUME IInv, Joined, NEW c \in Conns
               PROVE  /\ sq[Client(c)] = <<>>
                      /\ rq[Client(c)] = 0 /\ rcq[Client(c)] = 0
                      /\ ops[c] = posted[c]
    BY DEF JoinedIsQuiet
  <2>1. ConnInv(c) /\ wpc[c] = "finished" /\ ops[c] \in Nat /\ sq[Client(c)] \in Seq(WorkRequests)
    BY EndsFacts DEF IInv, TypeOK, RunTypeOK, VerbsTypeOK
  <2>2. Len(sq[Client(c)]) = 0
    BY <2>1 DEF ConnInv, WorkerPhase, QueueHoldsPosted, Posted
  <2>. QED
    BY <2>1, <2>2 DEF ConnInv, WorkerPhase, RestIsIdle
<1>. QED
  BY <1>1, Invariance, PTL
=============================================================================
