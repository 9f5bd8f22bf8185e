--------------------------- MODULE BenchRunProofs ---------------------------
(***************************************************************************)
(* Facts about queue pairs, buffers and worker loops that the proofs about *)
(* the single benchmarks share.                                            *)
(***************************************************************************)
EXTENDS BenchRun, SequenceTheorems, TLAPS

\* The two ends of a connection are distinct, are each other's peer, and are
\* not the ends of another connection.
LEMMA EndsFacts ==
    ASSUME NEW c \in Conns
    PROVE  /\ Client(c) \in Ends /\ Server(c) \in Ends
           /\ Peer(Client(c)) = Server(c) /\ Peer(Server(c)) = Client(c)
           /\ \A d \in Conns : Client(c) # Server(d)
           /\ \A d \in Conns : (Client(c) = Client(d)) <=> (c = d)
           /\ \A d \in Conns : (Server(c) = Server(d)) <=> (c = d)
BY DEF Client, Server, Ends, Sides, Peer

\* Every end is the client end or the server end of some connection.
LEMMA EndsCases ==
    ASSUME NEW e \in Ends
    PROVE  /\ Peer(e) \in Ends
           /\ \E c \in Conns : e = Client(c) \/ e = Server(c)
BY DEF Client, Server, Ends, Sides, Peer

----------------------------------------------------------------------------
(* Queue pairs keep their types.                                           *)

LEMMA PostSendType ==
    ASSUME VerbsTypeOK, NEW e \in Ends, NEW wr \in WorkRequests, PostSend(e, wr)
    PROVE  VerbsTypeOK'
BY DEF VerbsTypeOK, PostSend, SendRoom

LEMMA PostRecvType ==
    ASSUME VerbsTypeOK, NEW e \in Ends, PostRecv(e)
    PROVE  VerbsTypeOK'
BY DEF VerbsTypeOK, PostRecv, RecvRoom

LEMMA DeliverType ==
    ASSUME VerbsTypeOK, NEW e \in Ends, NEW op, Deliver(e, op)
    PROVE  VerbsTypeOK'
<1>1. Peer(e) \in Ends
  BY EndsCases
<1>2. delivered' \in [Ends -> Nat]
  BY SMTT(30) DEF VerbsTypeOK, Deliver
<1>3. rq' \in [Ends -> Nat] /\ rcq' \in [Ends -> Nat]
  <2>1. CASE op \in Consuming
    <3> DEFINE p == Peer(e)
    <3>1. /\ rq[p] > 0
          /\ rq' = [rq EXCEPT ![p] = @ - 1]
          /\ rcq' = [rcq EXCEPT ![p] = @ + 1]
      BY <2>1 DEF Deliver
    <3>2. p \in Ends
      BY <1>1
    <3> HIDE DEF p
    <3>3. rq[p] \in Nat /\ rq[p] - 1 \in Nat /\ rcq[p] + 1 \in Nat
      BY <3>1, <3>2 DEF VerbsTypeOK
    <3>. QED
      BY <3>1, <3>2, <3>3 DEF VerbsTypeOK
  <2>2. CASE op \notin Consuming
    BY <2>2 DEF VerbsTypeOK, Deliver
  <2>. QED
    BY <2>1, <2>2
<1>. QED
  BY <1>2, <1>3 DEF VerbsTypeOK, Deliver

LEMMA AckBreakType ==
    ASSUME VerbsTypeOK, NEW e \in Ends, Ack(e) \/ Break(e) \/ RetryExceeded(e)
    PROVE  VerbsTypeOK'
<1>1. CASE Ack(e)
  BY <1>1 DEF VerbsTypeOK, Ack
<1>2. CASE Break(e)
  BY <1>2 DEF VerbsTypeOK, Break
<1>3. CASE RetryExceeded(e)
  BY <1>3 DEF VerbsTypeOK, RetryExceeded
<1>. QED
  BY <1>1, <1>2, <1>3

LEMMA RetireType ==
    ASSUME VerbsTypeOK, NEW e \in Ends, NEW k \in SendCompletions(e), Retire(e, k)
    PROVE  VerbsTypeOK'
<1>1. k \in 1 .. Len(sq[e]) /\ sq[e] \in Seq(WorkRequests)
  BY DEF SendCompletions, VerbsTypeOK
<1>2. SubSeq(sq[e], k + 1, Len(sq[e])) \in Seq(WorkRequests)
  BY <1>1
<1>3. Less(delivered[e], k) \in Nat /\ Less(acked[e], k) \in Nat
  BY <1>1 DEF Less, VerbsTypeOK
<1>4. sq' \in [Ends -> Seq(WorkRequests)]
  BY <1>2 DEF Retire, VerbsTypeOK
<1>5. delivered' \in [Ends -> Nat] /\ acked' \in [Ends -> Nat]
  BY <1>3 DEF Retire, VerbsTypeOK
<1>. QED
  BY <1>4, <1>5 DEF Retire, VerbsTypeOK

LEMMA PollSendType ==
    ASSUME VerbsTypeOK, NEW e \in Ends, PollSend(e) \/ PollSends(e)
    PROVE  VerbsTypeOK'
BY RetireType DEF PollSend, PollSends

LEMMA PollRecvType ==
    ASSUME VerbsTypeOK, NEW e \in Ends, PollRecv(e) \/ PollFlushed(e) \/ PollRecvs(e)
    PROVE  VerbsTypeOK'
<1>1. CASE PollRecv(e)
  BY <1>1 DEF VerbsTypeOK, PollRecv
<1>2. CASE PollFlushed(e)
  BY <1>2 DEF VerbsTypeOK, PollFlushed
<1>3. CASE PollRecvs(e)
  BY <1>3 DEF VerbsTypeOK, PollRecvs
<1>. QED
  BY <1>1, <1>2, <1>3

----------------------------------------------------------------------------
(* Buffers keep their types.                                               *)

LEMMA BufferType ==
    ASSUME BufferTypeOK, NEW c \in Conns,
           \/ Receive(c)
           \/ \E l \in Lines : Place(c, l) \/ WriteBack(c, l)
    PROVE  BufferTypeOK'
<1>1. CASE Receive(c)
  BY <1>1 DEF BufferTypeOK, Receive
<1>2. CASE \E l \in Lines : Place(c, l)
  <2>1. PICK l \in Lines : Place(c, l)
    BY <1>2
  <2>2. mem' = [mem EXCEPT ![c] = [mem[c] EXCEPT ![l] = nic[c]]]
    BY <2>1 DEF Place
  <2>3. [mem[c] EXCEPT ![l] = nic[c]] \in [Lines -> Nat]
    BY DEF BufferTypeOK
  <2>. QED
    BY <2>1, <2>2, <2>3 DEF BufferTypeOK, Place
<1>3. CASE \E l \in Lines : WriteBack(c, l)
  <2>1. PICK l \in Lines : WriteBack(c, l)
    BY <1>3
  <2>2. pmem' = [pmem EXCEPT ![c] = [pmem[c] EXCEPT ![l] = mem[c][l]]]
    BY <2>1 DEF WriteBack
  <2>3. [pmem[c] EXCEPT ![l] = mem[c][l]] \in [Lines -> Nat]
    BY DEF BufferTypeOK
  <2>. QED
    BY <2>1, <2>2, <2>3 DEF BufferTypeOK, WriteBack
<1>. QED
  BY <1>1, <1>2, <1>3

----------------------------------------------------------------------------
(* What the actions do to single ends and single connections.              *)

\* All of the queue pair of e stays as it is; all but its send queue; ...
RecvSame(e) == rq'[e] = rq[e] /\ rcq'[e] = rcq[e]
SendSame(e) == sq'[e] = sq[e] /\ delivered'[e] = delivered[e] /\ acked'[e] = acked[e]
EndSame(e) == SendSame(e) /\ RecvSame(e) /\ broken'[e] = broken[e]

BufferSame(c) == nic'[c] = nic[c] /\ mem'[c] = mem[c] /\ pmem'[c] = pmem[c]
ClientSame(c) == wpc'[c] = wpc[c] /\ posted'[c] = posted[c] /\ ops'[c] = ops[c]

LEMMA PostSendEffect ==
    ASSUME VerbsTypeOK, NEW e \in Ends, NEW wr, PostSend(e, wr)
    PROVE  /\ sq'[e] = (IF SendRoom(e) THEN Append(sq[e], wr) ELSE sq[e])
           /\ delivered'[e] = delivered[e] /\ acked'[e] = acked[e]
           /\ RecvSame(e) /\ broken'[e] = broken[e]
           /\ \A f \in Ends \ {e} : EndSame(f)
BY DEF VerbsTypeOK, PostSend, RecvSame, SendSame, EndSame

LEMMA PostRecvEffect ==
    ASSUME VerbsTypeOK, NEW e \in Ends, PostRecv(e)
    PROVE  /\ rq'[e] = (IF RecvRoom(e) THEN rq[e] + 1 ELSE rq[e])
           /\ rcq'[e] = rcq[e] /\ SendSame(e) /\ broken'[e] = broken[e]
           /\ \A f \in Ends \ {e} : EndSame(f)
BY DEF VerbsTypeOK, PostRecv, RecvSame, SendSame, EndSame

LEMMA DeliverConsumingEffect ==
    ASSUME VerbsTypeOK, NEW e \in Ends, Peer(e) \in Ends, Peer(e) # e,
           NEW op \in Consuming, Deliver(e, op)
    PROVE  /\ sq'[e] = sq[e] /\ delivered'[e] = delivered[e] + 1 /\ acked'[e] = acked[e]
           /\ RecvSame(e) /\ broken'[e] = broken[e]
           /\ rq[Peer(e)] > 0
           /\ rq'[Peer(e)] = rq[Peer(e)] - 1 /\ rcq'[Peer(e)] = rcq[Peer(e)] + 1
           /\ SendSame(Peer(e)) /\ broken'[Peer(e)] = broken[Peer(e)]
           /\ \A f \in Ends \ {e, Peer(e)} : EndSame(f)
BY DEF VerbsTypeOK, Deliver, RecvSame, SendSame, EndSame

LEMMA DeliverEffect ==
    ASSUME VerbsTypeOK, NEW e \in Ends, NEW op, op \notin Consuming, Deliver(e, op)
    PROVE  /\ sq'[e] = sq[e] /\ delivered'[e] = delivered[e] + 1 /\ acked'[e] = acked[e]
           /\ RecvSame(e) /\ broken'[e] = broken[e]
           /\ \A f \in Ends \ {e} : EndSame(f)
BY DEF VerbsTypeOK, Deliver, RecvSame, SendSame, EndSame

LEMMA AckEffect ==
    ASSUME VerbsTypeOK, NEW e \in Ends, Ack(e)
    PROVE  /\ sq'[e] = sq[e] /\ delivered'[e] = delivered[e] /\ acked'[e] = acked[e] + 1
           /\ RecvSame(e) /\ broken'[e] = broken[e]
           /\ \A f \in Ends \ {e} : EndSame(f)
BY DEF VerbsTypeOK, Ack, RecvSame, SendSame, EndSame

LEMMA BreakEffect ==
    ASSUME VerbsTypeOK, NEW e \in Ends, Break(e) \/ RetryExceeded(e)
    PROVE  /\ SendSame(e) /\ RecvSame(e) /\ broken'[e] = TRUE
           /\ \A f \in Ends \ {e} : EndSame(f)
BY DEF VerbsTypeOK, Break, RetryExceeded, RecvSame, SendSame, EndSame

LEMMA RetireEffect ==
    ASSUME VerbsTypeOK, NEW e \in Ends, NEW k, Retire(e, k)
    PROVE  /\ sq'[e] = SubSeq(sq[e], k + 1, Len(sq[e]))
           /\ delivered'[e] = Less(delivered[e], k) /\ acked'[e] = Less(acked[e], k)
           /\ RecvSame(e) /\ broken'[e] = broken[e]
           /\ \A f \in Ends \ {e} : EndSame(f)
BY DEF VerbsTypeOK, Retire, RecvSame, SendSame, EndSame

LEMMA PollRecvEffect ==
    ASSUME VerbsTypeOK, NEW e \in Ends, PollRecv(e)
    PROVE  /\ rcq[e] > 0 /\ rcq'[e] = rcq[e] - 1 /\ rq'[e] = rq[e]
           /\ SendSame(e) /\ broken'[e] = broken[e]
           /\ \A f \in Ends \ {e} : EndSame(f)
BY DEF VerbsTypeOK, PollRecv, RecvSame, SendSame, EndSame

LEMMA PollFlushedEffect ==
    ASSUME VerbsTypeOK, NEW e \in Ends, PollFlushed(e)
    PROVE  /\ broken[e] /\ SendSame(e) /\ rcq'[e] = rcq[e] /\ broken'[e] = broken[e]
           /\ \A f \in Ends \ {e} : EndSame(f)
BY DEF VerbsTypeOK, PollFlushed, RecvSame, SendSame, EndSame

LEMMA PollRecvsEffect ==
    ASSUME VerbsTypeOK, NEW e \in Ends, PollRecvs(e)
    PROVE  /\ rcq[e] > 0 \/ (broken[e] /\ rq[e] > 0)
           /\ rcq'[e] = 0 /\ rq'[e] = (IF broken[e] THEN 0 ELSE rq[e])
           /\ SendSame(e) /\ broken'[e] = broken[e]
           /\ \A f \in Ends \ {e} : EndSame(f)
BY DEF VerbsTypeOK, PollRecvs, RecvSame, SendSame, EndSame

\* When all the requests of a send queue are acknowledged and only the last
\* is signaled, polling empties the queue.
LEMMA PollSendLast ==
    ASSUME VerbsTypeOK, NEW e \in Ends, PollSend(e), ~broken[e],
           acked[e] <= delivered[e], delivered[e] <= Len(sq[e]),
           \A k \in 1 .. Len(sq[e]) : sq[e][k].sig <=> k = Len(sq[e])
    PROVE  /\ sq[e] # <<>> /\ acked[e] = Len(sq[e]) /\ delivered[e] = Len(sq[e])
           /\ sq'[e] = <<>> /\ delivered'[e] = 0 /\ acked'[e] = 0
           /\ RecvSame(e) /\ broken'[e] = broken[e]
           /\ \A f \in Ends \ {e} : EndSame(f)
<1>1. PICK k \in SendCompletions(e) : Retire(e, k)
  BY DEF PollSend
<1>2. sq[e] \in Seq(WorkRequests) /\ Len(sq[e]) \in Nat /\ acked[e] \in Nat /\ delivered[e] \in Nat
  BY DEF VerbsTypeOK
<1>3. k = Len(sq[e]) /\ k \in 1 .. Len(sq[e]) /\ k <= acked[e]
  BY <1>2 DEF SendCompletions, Reports
<1>4. SubSeq(sq[e], k + 1, Len(sq[e])) = <<>>
  BY <1>2, <1>3
<1>5. Less(delivered[e], k) = 0 /\ Less(acked[e], k) = 0
  BY <1>2, <1>3 DEF Less
<1>. QED
  BY <1>1, <1>2, <1>3, <1>4, <1>5, RetireEffect

\* Polling all the completions of a queue whose last request alone is signaled
\* empties it, or waits: of a sound queue pair because no other request is
\* reported, of a broken one because the flush reports the last one too.
LEMMA PollSendsWhole ==
    ASSUME VerbsTypeOK, NEW e \in Ends, PollSends(e), sq[e] # <<>>,
           acked[e] <= delivered[e], delivered[e] <= Len(sq[e]),
           \A k \in 1 .. Len(sq[e]) : sq[e][k].sig <=> k = Len(sq[e])
    PROVE  /\ ~broken[e] => delivered[e] = Len(sq[e])
           /\ sq'[e] = <<>> /\ delivered'[e] = 0 /\ acked'[e] = 0
           /\ RecvSame(e) /\ broken'[e] = broken[e]
           /\ \A f \in Ends \ {e} : EndSame(f)
<1> DEFINE n == Len(sq[e])
<1>1. PICK k \in SendCompletions(e) : (\A j \in SendCompletions(e) : j <= k) /\ Retire(e, k)
  BY DEF PollSends
<1>2. sq[e] \in Seq(WorkRequests) /\ n \in Nat \ {0} /\ acked[e] \in Nat /\ delivered[e] \in Nat
  BY DEF VerbsTypeOK
<1>3. k \in 1 .. n /\ Reports(e, k)
  BY DEF SendCompletions
<1>4. k = n /\ (~broken[e] => acked[e] = n)
  <2>1. CASE broken[e]
    <3>1. n \in 1 .. n /\ Reports(e, n)
      BY <1>2, <2>1 DEF Reports
    <3>. QED
      BY <1>1, <1>2, <1>3, <2>1, <3>1 DEF SendCompletions
  <2>2. CASE ~broken[e]
    BY <1>2, <1>3, <2>2 DEF Reports
  <2>. QED
    BY <2>1, <2>2
<1>5. SubSeq(sq[e], k + 1, Len(sq[e])) = <<>>
  BY <1>2, <1>4
<1>6. Less(delivered[e], k) = 0 /\ Less(acked[e], k) = 0
  BY <1>2, <1>4 DEF Less
<1>. QED
  BY <1>1, <1>2, <1>4, <1>5, <1>6, RetireEffect
=============================================================================
