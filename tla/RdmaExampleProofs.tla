------------------------- MODULE RdmaExampleProofs -------------------------
(***************************************************************************)
(* Proofs about RdmaExample and its CqChannel, for any clients and any     *)
(* failures.                                                               *)
(***************************************************************************)
EXTENDS RdmaExample, TLAPS

----------------------------------------------------------------------------
(* Completion queues as sequences.                                         *)

LEMMA ConcatTyped ==
    ASSUME NEW s \in Seq(Statuses), NEW t \in Seq(Statuses)
    PROVE  s \o t \in Seq(Statuses) /\ Len(s \o t) = Len(s) + Len(t)
OBVIOUS

\* What arrives is behind what is there.
LEMMA ContainsConcat ==
    ASSUME NEW s \in Seq(Statuses), NEW t \in Seq(Statuses)
    PROVE  \A x : Contains(s \o t, x) <=> Contains(s, x) \/ Contains(t, x)
<1>. SUFFICES ASSUME NEW x
              PROVE  Contains(s \o t, x) <=> Contains(s, x) \/ Contains(t, x)
  OBVIOUS
<1>1. /\ Len(s \o t) = Len(s) + Len(t) /\ Len(s) \in Nat /\ Len(t) \in Nat
      /\ \A k \in 1 .. Len(s) : (s \o t)[k] = s[k]
      /\ \A k \in 1 .. Len(t) : (s \o t)[Len(s) + k] = t[k]
  OBVIOUS
<1>2. ASSUME Contains(s, x) \/ Contains(t, x)
      PROVE  Contains(s \o t, x)
  <2>1. CASE Contains(s, x)
    BY <1>1, <2>1 DEF Contains
  <2>2. CASE Contains(t, x)
    <3>1. PICK k \in 1 .. Len(t) : t[k] = x
      BY <2>2 DEF Contains
    <3>2. Len(s) + k \in 1 .. Len(s \o t) /\ (s \o t)[Len(s) + k] = x
      BY <1>1, <3>1
    <3>. QED
      BY <3>2 DEF Contains
  <2>. QED
    BY <1>2, <2>1, <2>2
<1>3. ASSUME Contains(s \o t, x)
      PROVE  Contains(s, x) \/ Contains(t, x)
  <2>1. PICK k \in 1 .. Len(s \o t) : (s \o t)[k] = x
    BY <1>3 DEF Contains
  <2>2. CASE k \in 1 .. Len(s)
    BY <1>1, <2>1, <2>2 DEF Contains
  <2>3. CASE k \notin 1 .. Len(s)
    <3>1. k - Len(s) \in 1 .. Len(t) /\ Len(s) + (k - Len(s)) = k
      BY <1>1, <2>3
    <3>2. t[k - Len(s)] = x
      BY <1>1, <2>1, <3>1
    <3>. QED
      BY <3>1, <3>2 DEF Contains
  <2>. QED
    BY <2>2, <2>3
<1>. QED
  BY <1>2, <1>3

LEMMA ContainsOne ==
    /\ <<"success">> \in Seq(Statuses) /\ Len(<<"success">>) = 1
    /\ <<"error">> \in Seq(Statuses) /\ Len(<<"error">>) = 1
    /\ <<"error", "error">> \in Seq(Statuses) /\ Len(<<"error", "error">>) = 2
    /\ ~Contains(<<"success">>, "error") /\ \A x : ~Contains(<<>>, x)
    /\ ~Contains(<<"error">>, "success") /\ ~Contains(<<"error", "error">>, "success")
    /\ Contains(<<"error">>, "error") /\ Contains(<<"error", "error">>, "error")
<1>1. /\ <<"success">> \in Seq(Statuses) /\ Len(<<"success">>) = 1
      /\ <<"error">> \in Seq(Statuses) /\ Len(<<"error">>) = 1
      /\ <<"error", "error">> \in Seq(Statuses) /\ Len(<<"error", "error">>) = 2
  BY DEF Statuses
<1>2. ~Contains(<<"success">>, "error")
  BY DEF Contains
<1>3. \A x : ~Contains(<<>>, x)
  BY DEF Contains
<1>4. Contains(<<"error">>, "error")
  <2>1. 1 \in 1 .. Len(<<"error">>) /\ <<"error">>[1] = "error"
    OBVIOUS
  <2>. QED
    BY <2>1 DEF Contains
<1>5. Contains(<<"error", "error">>, "error")
  <2>1. 1 \in 1 .. Len(<<"error", "error">>) /\ <<"error", "error">>[1] = "error"
    OBVIOUS
  <2>. QED
    BY <2>1 DEF Contains
<1>6. ~Contains(<<"error">>, "success") /\ ~Contains(<<"error", "error">>, "success")
  BY DEF Contains
<1>. QED
  BY <1>1, <1>2, <1>3, <1>4, <1>5, <1>6

\* A completion is good or bad.
LEMMA NoneLeft ==
    ASSUME NEW q \in Seq(Statuses), ~Contains(q, "error"), ~Contains(q, "success")
    PROVE  q = <<>>
<1>1. Len(q) \in Nat /\ \A k \in 1 .. Len(q) : q[k] \in Statuses
  OBVIOUS
<1>2. \A k \in 1 .. Len(q) : FALSE
  BY <1>1 DEF Contains, Statuses
<1>3. Len(q) = 0
  BY <1>1, <1>2
<1>. QED
  BY <1>3

\* What is polled is gone from the queue, and nothing is lost.
LEMMA Polled ==
    ASSUME NEW q \in Seq(Statuses), NEW n \in 1 .. Len(q)
    PROVE  /\ SubSeq(q, 1, n) \in Seq(Statuses) /\ Len(SubSeq(q, 1, n)) = n
           /\ SubSeq(q, n + 1, Len(q)) \in Seq(Statuses)
           /\ Len(SubSeq(q, n + 1, Len(q))) = Len(q) - n
           /\ \A x : Contains(q, x) <=> Contains(SubSeq(q, 1, n), x) \/ Contains(SubSeq(q, n + 1, Len(q)), x)
<1>. DEFINE a == SubSeq(q, 1, n)
            b == SubSeq(q, n + 1, Len(q))
<1>1. /\ a \in Seq(Statuses) /\ Len(a) = n /\ \A k \in 1 .. n : a[k] = q[k]
  OBVIOUS
<1>2. /\ b \in Seq(Statuses) /\ Len(b) = Len(q) - n
      /\ \A k \in 1 .. Len(q) - n : b[k] = q[n + k]
  OBVIOUS
<1>. HIDE DEF a, b
<1>3. ASSUME NEW x, Contains(q, x)
      PROVE  Contains(a, x) \/ Contains(b, x)
  <2>1. PICK k \in 1 .. Len(q) : q[k] = x
    BY <1>3 DEF Contains
  <2>2. CASE k \in 1 .. n
    BY <1>1, <2>1, <2>2 DEF Contains
  <2>3. CASE k \notin 1 .. n
    <3>1. k - n \in 1 .. Len(q) - n /\ n + (k - n) = k
      BY <2>3
    <3>2. b[k - n] = x
      BY <1>2, <2>1, <3>1
    <3>. QED
      BY <1>2, <3>1, <3>2 DEF Contains
  <2>. QED
    BY <2>2, <2>3
<1>4. ASSUME NEW x, Contains(a, x) \/ Contains(b, x)
      PROVE  Contains(q, x)
  <2>1. CASE Contains(a, x)
    BY <1>1, <2>1 DEF Contains
  <2>2. CASE Contains(b, x)
    <3>1. PICK k \in 1 .. Len(q) - n : q[n + k] = x
      BY <1>2, <2>2 DEF Contains
    <3>2. n + k \in 1 .. Len(q)
      OBVIOUS
    <3>. QED
      BY <3>1, <3>2 DEF Contains
  <2>. QED
    BY <1>4, <2>1, <2>2
<1>. QED
  BY <1>1, <1>2, <1>3, <1>4 DEF a, b

----------------------------------------------------------------------------
(* The invariant.                                                          *)

Receives(p) == IF rq[p] THEN 1 ELSE 0
Sends(p) == IF flight[p] = "none" THEN 0 ELSE 1

\* Completions that p has, or that a request or receive of p will become.
Outstanding(p) == Len(cq[p]) + Len(wc[p]) + Receives(p) + Sends(p)

\* Where a process is with its completion queue: not created; created; waiting
\* for completions; done with it.
Phase(p) ==
    IF p = "server"
    THEN CASE spc = "listen" -> "new"
           [] spc = "accepted" -> "ready"
           [] spc \in {"metadata", "sending"} -> "waiting"
           [] OTHER -> "over"
    ELSE CASE cpc[p] = "init" -> "new"
           [] cpc[p] \in {"connecting", "exchange"} -> "ready"
           [] cpc[p] \in {"exchanging", "writing", "reading"} -> "waiting"
           [] OTHER -> "over"

\* A client that has gone on without sending its metadata.
Untold(p) == p # "server" /\ "SEND" \in unposted[p]

\* Completions that are outstanding and not waited for: the receive of a client
\* that has not sent its metadata.
Extra(p) == IF Untold(p) THEN 1 ELSE 0

\* A process waits for as many completions as are outstanding.
Balanced(p) ==
    /\ Phase(p) = "new" => /\ io[p] = "idle" /\ max_wc[p] = 0
                           /\ cq[p] = <<>> /\ ~rq[p] /\ flight[p] = "none"
    /\ Phase(p) = "ready" => /\ io[p] = "idle" /\ max_wc[p] = 0
                             /\ flight[p] = "none" /\ Outstanding(p) = 1
    /\ Phase(p) = "waiting" => /\ io[p] # "idle"
                               /\ Outstanding(p) = max_wc[p] + Extra(p)
    /\ Phase(p) = "over" => io[p] \in {"idle", "success", "error"}

\* An event is acknowledged before the next is taken; the call returns with all
\* it has been asked for.
Called(p) ==
    /\ io[p] \in {"idle", "event", "success"} => unacked[p] = 0
    /\ io[p] \in {"arm", "poll", "check"} => unacked[p] = 1
    /\ io[p] \in {"check", "success"} => Len(wc[p]) = max_wc[p]
    /\ io[p] = "success" => ~Contains(wc[p], "error")

\* No completion is in the queue unless an event says so; past the arming, the
\* next one will raise an event.
Woken(p) ==
    Phase(p) \in {"ready", "waiting"} /\ events[p] = 0 =>
        /\ io[p] \in {"idle", "event", "success"} => cq[p] = <<>> /\ armed[p]
        /\ io[p] \in {"poll", "check"} => armed[p]

\* A client that ends its connection, or is gone.
Leaving == {"disconnecting", "destroy_cq", "done", "failed"}

\* A client that has not sent its metadata yet.
Early == {"init", "connecting", "exchange"}

\* The requests each place of main can have on their way.
Requested(c) ==
    /\ cpc[c] = "exchanging" => flight[c] \in {"none", "SEND"}
    /\ cpc[c] = "writing" => flight[c] \in {"none", "WRITE"}
    /\ cpc[c] = "reading" => flight[c] \in {"none", "READ"}
    /\ cpc[c] \in {"writing", "reading"} /\ ~Untold(c) => ~rq[c]
    /\ cpc[c] \in {"writing", "reading"} /\ flight[c] # "none" => max_wc[c] = 1
    /\ cpc[c] \in Early => unposted[c] = {}
    /\ cpc[c] \in Early \ {"init"} => rq[c]
    /\ cpc[c] \in Leaving \ {"failed"} => flight[c] = "none"

Answered ==
    flight["server"] # "none" =>
        flight["server"] = "SEND" /\ spc \in {"sending", "failed"} /\ peer # "none" /\ buf # "none"

Requests == Answered /\ \A c \in Clients : Requested(c)

\* Of an event of the server's: not of another client than the one it accepted,
\* and a disconnect only of a client that has disconnected.
Honest(event) ==
    /\ event[1] # "CONNECT_REQUEST" => event[2] = peer
    /\ event[1] = "DISCONNECTED" => cpc[event[2]] \in Leaving

\* The connection manager serves the client that was accepted, and the server's
\* events are honest.
Told ==
    /\ spc = "listen" => peer = "none" /\ buf = "none"
    /\ spc \in {"accepted", "metadata"} => peer # "none"
    /\ \A c \in Clients :
         /\ link[c] \in {"accepted", "replied", "ready", "up", "disconnecting"} => peer = c
         /\ link[c] = "disconnecting" => cpc[c] \in Leaving
    /\ \A k \in 1 .. Len(schan) : Honest(schan[k])

Clean(c) == ~Contains(cq[c], "error") /\ ~Contains(wc[c], "error")

\* A client whose receive was completed has it from the server, which has the
\* buffer and waits for this client to disconnect.
Served(c) ==
    cpc[c] \notin Leaving \cup {"init"} /\ ~rq[c] /\ Clean(c) =>
        peer = c /\ buf # "none" /\ spc \in {"sending", "serving", "failed"}

\* The server has not heard of a client that has not sent its metadata, and will
\* not without an error.
Unheard(c) ==
    peer = c /\ (cpc[c] \in Early \/ Untold(c)) =>
        /\ buf = "none" /\ spc \in {"accepted", "metadata", "failed"}
        /\ rq["server"] \/ ~Clean("server")

\* A client that has gone on without sending its metadata succeeds in nothing.
Foiled(c) ==
    Untold(c) =>
        /\ ~Contains(cq[c], "success") /\ ~Contains(wc[c], "success")
        /\ flight[c] # "SEND" /\ (flight[c] # "none" => ~landed[c])
        /\ max_wc[c] = 0 => rq[c] /\ flight[c] = "none"

\* A client that has been answered was answered by the server that accepted it.
Met(c) ==
    /\ Contains(cchan[c], "CONNECT_RESPONSE") => peer = c
    /\ cpc[c] \in {"exchange", "exchanging", "writing", "reading"} => peer = c

\* The request of the client has taken effect.
Effective(c) == IF flight[c] = "none" THEN Clean(c) ELSE landed[c]

\* What is WRITTEN stays, and is what is READ, if it is.
Data(c) == unposted[c] = {} =>
    /\ cpc[c] = "writing" /\ Effective(c) => buf = "written"
    /\ cpc[c] = "reading" /\ Clean(c) => buf = "written"
    /\ cpc[c] = "reading" /\ Effective(c) => dst[c] = "written"
    /\ cpc[c] \in Leaving \ {"failed"} => dst[c] = "written"

IInv ==
    /\ TypeOK
    /\ \A p \in Processes : Balanced(p) /\ Called(p) /\ Woken(p)
    /\ Requests
    /\ Told
    /\ \A c \in Clients : Served(c) /\ Data(c) /\ Unheard(c) /\ Foiled(c) /\ Met(c)

----------------------------------------------------------------------------
(* What a step leaves as it is.                                            *)

Proc(p) == Balanced(p) /\ Called(p) /\ Woken(p)

\* A process whose queue, requests and place the step does not touch.
ProcSame(p) ==
    /\ cq'[p] = cq[p] /\ armed'[p] = armed[p] /\ events'[p] = events[p]
    /\ unacked'[p] = unacked[p] /\ io'[p] = io[p] /\ max_wc'[p] = max_wc[p] /\ wc'[p] = wc[p]
    /\ rq'[p] = rq[p] /\ flight'[p] = flight[p]
    /\ Phase(p)' = Phase(p) /\ Extra(p)' = Extra(p)

LEMMA ProcFrame ==
    ASSUME NEW p, Proc(p), ProcSame(p)
    PROVE  Proc(p)'
<1>1. Outstanding(p)' = Outstanding(p)
  BY DEF Outstanding, Receives, Sends, ProcSame
<1>2. Balanced(p)'
  BY <1>1 DEF Proc, ProcSame, Balanced
<1>3. Called(p)'
  BY DEF Proc, ProcSame, Called
<1>4. Woken(p)'
  BY DEF Proc, ProcSame, Woken
<1>. QED
  BY <1>2, <1>3, <1>4 DEF Proc

\* Processes without a step of their own.
LEMMA PlaceFrame ==
    ASSUME NEW p \in Processes, p = "server" => spc' = spc,
           p # "server" => cpc'[p] = cpc[p] /\ unposted'[p] = unposted[p]
    PROVE  Phase(p)' = Phase(p) /\ Extra(p)' = Extra(p)
<1>1. CASE p = "server"
  BY <1>1 DEF Phase, Extra, Untold
<1>2. CASE p # "server"
  BY <1>2 DEF Phase, Extra, Untold
<1>. QED
  BY <1>1, <1>2

\* A client whose place, requests and buffer the step does not touch, and whose
\* errors it does not take away.
ClientSame(c) ==
    /\ cpc'[c] = cpc[c] /\ unposted'[c] = unposted[c] /\ (Clean(c)' => Clean(c))
    /\ rq'[c] = rq[c] /\ flight'[c] = flight[c] /\ landed'[c] = landed[c] /\ dst'[c] = dst[c]

LEMMA ClientFrame ==
    ASSUME NEW c \in Clients, Served(c), Data(c), ClientSame(c),
           UNCHANGED peer, buf' = buf \/ buf' = "written",
           spc' = spc \/ (spc \in {"sending", "serving"} /\ spc' \in {"serving", "failed"})
    PROVE  Served(c)' /\ Data(c)'
<1>1. Effective(c)' => Effective(c)
  BY DEF Effective, ClientSame
<1>2. Served(c)'
  BY DEF Served, ClientSame
<1>3. Data(c)'
  BY <1>1 DEF Data, ClientSame
<1>. QED
  BY <1>2, <1>3

LEMMA UnheardFrame ==
    ASSUME NEW c, Unheard(c), UNCHANGED peer,
           (cpc[c] \in Early \/ Untold(c))' => cpc[c] \in Early \/ Untold(c),
           buf = "none" => buf' = "none",
           spc \in {"accepted", "metadata", "failed"} => spc' \in {"accepted", "metadata", "failed"},
           rq["server"] \/ ~Clean("server") => rq'["server"] \/ ~Clean("server")'
    PROVE  Unheard(c)'
BY DEF Unheard

\* A client that a step only tells of errors, or of nothing.
Unmoved(c) ==
    /\ cpc'[c] = cpc[c] /\ unposted'[c] = unposted[c] /\ cchan'[c] = cchan[c]
    /\ rq'[c] = rq[c] /\ flight'[c] = flight[c] /\ landed'[c] = landed[c] /\ max_wc'[c] = max_wc[c]
    /\ Contains(cq[c], "success")' \/ Contains(wc[c], "success")' =>
         Contains(cq[c], "success") \/ Contains(wc[c], "success")

LEMMA UnmovedFrame ==
    ASSUME NEW c, Foiled(c), Met(c), Unmoved(c), peer = c => peer' = c
    PROVE  Foiled(c)' /\ Met(c)'
<1>1. Untold(c)' = Untold(c)
  BY DEF Unmoved, Untold
<1>2. Foiled(c)'
  BY <1>1 DEF Foiled, Unmoved
<1>3. Met(c)'
  BY DEF Met, Unmoved
<1>. QED
  BY <1>2, <1>3

LEMMA CleanSame ==
    ASSUME NEW c, cq'[c] = cq[c], wc'[c] = wc[c]
    PROVE  Clean(c)' = Clean(c)
BY DEF Clean

LEMMA Types ==
    ASSUME TypeOK
    PROVE  /\ cq \in [Processes -> Seq(Statuses)] /\ armed \in [Processes -> BOOLEAN]
           /\ events \in [Processes -> Nat] /\ unacked \in [Processes -> {0, 1}]
           /\ io \in [Processes -> {"idle", "event", "arm", "poll", "check", "success", "error"}]
           /\ max_wc \in [Processes -> 0 .. 2] /\ wc \in [Processes -> Seq(Statuses)]
           /\ \A p \in Processes : Len(wc[p]) <= max_wc[p]
           /\ cpc \in [Clients -> {"init", "connecting", "exchange", "exchanging", "writing", "reading",
                                   "disconnecting", "destroy_cq", "done", "failed"}]
           /\ dst \in [Clients -> {"none", "zero", "written"}] /\ buf \in {"none", "zero", "written"}
           /\ spc \in {"listen", "accepted", "metadata", "sending", "serving", "destroy_cq",
                       "done", "failed"}
           /\ peer \in Clients \cup {"none"}
           /\ unposted \in [Clients -> SUBSET {"SEND", "WRITE", "READ"}]
           /\ rq \in [Processes -> BOOLEAN] /\ landed \in [Processes -> BOOLEAN]
           /\ flight \in [Processes -> {"none", "SEND", "WRITE", "READ"}]
BY DEF TypeOK, ChannelTypeOK

\* The parts of TypeOK that only the programs and the connection manager touch.
ManagerTypeOK ==
    /\ users \subseteq Clients
    /\ cchan \in [Clients -> Seq({"CONNECT_RESPONSE", "REJECTED", "UNREACHABLE", "DISCONNECTED"})]
    /\ schan \in Seq({"CONNECT_REQUEST", "ESTABLISHED", "REJECTED", "DISCONNECTED"} \X Clients)
    /\ link \in [Clients -> {"none", "connect", "requested", "accepted", "replied", "ready", "up",
                             "disconnecting", "down"}]

ProgramTypeOK ==
    /\ cpc \in [Clients -> {"init", "connecting", "exchange", "exchanging", "writing", "reading",
                            "disconnecting", "destroy_cq", "done", "failed"}]
    /\ spc \in {"listen", "accepted", "metadata", "sending", "serving", "destroy_cq", "done", "failed"}
    /\ peer \in Clients \cup {"none"}
    /\ unposted \in [Clients -> SUBSET {"SEND", "WRITE", "READ"}]

DataTypeOK ==
    /\ dst \in [Clients -> {"none", "zero", "written"}]
    /\ buf \in {"none", "zero", "written"}
    /\ rq \in [Processes -> BOOLEAN]
    /\ flight \in [Processes -> {"none", "SEND", "WRITE", "READ"}]
    /\ landed \in [Processes -> BOOLEAN]

LEMMA TypeParts == TypeOK <=> ChannelTypeOK /\ ManagerTypeOK /\ ProgramTypeOK /\ DataTypeOK
BY Zenon DEF TypeOK, ManagerTypeOK, ProgramTypeOK, DataTypeOK

LEMMA TypeNext ==
    ASSUME ChannelTypeOK', ManagerTypeOK', ProgramTypeOK', DataTypeOK'
    PROVE  TypeOK'
BY Zenon DEF TypeOK, ManagerTypeOK, ProgramTypeOK, DataTypeOK

LEMMA ManagerFrame ==
    ASSUME ManagerTypeOK, UNCHANGED <<users, cm>>
    PROVE  ManagerTypeOK'
BY DEF ManagerTypeOK, cm

LEMMA ProgramFrame ==
    ASSUME ProgramTypeOK, UNCHANGED <<cpc, unposted, server>>
    PROVE  ProgramTypeOK'
BY DEF ProgramTypeOK, server

LEMMA DataFrame ==
    ASSUME DataTypeOK, UNCHANGED <<dst, buf, nic>>
    PROVE  DataTypeOK'
BY DEF DataTypeOK, nic

LEMMA ChannelFrame ==
    ASSUME ChannelTypeOK, UNCHANGED <<sound, channel>>
    PROVE  ChannelTypeOK'
BY DEF ChannelTypeOK, channel

LEMMA SchanTyped ==
    ASSUME TypeOK
    PROVE  /\ schan \in Seq({"CONNECT_REQUEST", "ESTABLISHED", "REJECTED", "DISCONNECTED"} \X Clients)
           /\ Len(schan) \in Nat
           /\ \A k \in 1 .. Len(schan) :
                /\ schan[k] \in {"CONNECT_REQUEST", "ESTABLISHED", "REJECTED", "DISCONNECTED"} \X Clients
                /\ schan[k][2] \in Clients
<1>1. schan \in Seq({"CONNECT_REQUEST", "ESTABLISHED", "REJECTED", "DISCONNECTED"} \X Clients)
  BY DEF TypeOK
<1>. QED
  BY <1>1

----------------------------------------------------------------------------
(* process_work_completion_events.                                         *)

LEMMA Phases == ASSUME NEW p PROVE Phase(p) \in {"new", "ready", "waiting", "over"}
<1>1. CASE p = "server"
  BY <1>1 DEF Phase
<1>2. CASE p # "server"
  BY <1>2 DEF Phase
<1>. QED
  BY <1>1, <1>2

LEMMA CallWaits ==
    ASSUME NEW p, Proc(p), io[p] \in {"event", "arm", "poll", "check"}
    PROVE  Phase(p) = "waiting"
BY Phases DEF Proc, Balanced

\* A step inside the call that only goes on, takes the event or arms the queue.
LEMMA GoesOn ==
    ASSUME TypeOK, NEW p \in Processes, Proc(p),
           get_cq_event(p) \/ req_notify_cq(p) \/ channel_fails(p),
           UNCHANGED <<sound, rq, flight>>, Phase(p)' = Phase(p), Extra(p)' = Extra(p)
    PROVE  /\ ChannelTypeOK' /\ Proc(p)' /\ UNCHANGED <<cq, max_wc, wc>>
           /\ \A q \in Processes \ {p} :
                /\ armed'[q] = armed[q] /\ events'[q] = events[q] /\ unacked'[q] = unacked[q]
                /\ io'[q] = io[q]
<1>0. Phase(p) = "waiting"
  BY CallWaits DEF get_cq_event, req_notify_cq, channel_fails
<1>1. CASE get_cq_event(p)
  <2>1. /\ io[p] = "event" /\ events[p] > 0 /\ unacked[p] = 0
        /\ events' = [events EXCEPT ![p] = events[p] - 1]
        /\ unacked' = [unacked EXCEPT ![p] = unacked[p] + 1]
        /\ io' = [io EXCEPT ![p] = "arm"] /\ UNCHANGED <<cq, armed, max_wc, wc>>
    BY <1>1 DEF get_cq_event, Goto, Proc, Called
  <2>2. /\ io'[p] = "arm" /\ unacked'[p] = 1
        /\ events' \in [Processes -> Nat] /\ unacked' \in [Processes -> {0, 1}]
        /\ io' \in [Processes -> {"idle", "event", "arm", "poll", "check", "success", "error"}]
    BY <2>1, Types
  <2>3. ChannelTypeOK'
    BY <2>1, <2>2 DEF TypeOK, ChannelTypeOK
  <2>4. Proc(p)'
    BY <1>0, <2>1, <2>2 DEF Proc, Balanced, Called, Woken, Outstanding, Receives, Sends
  <2>. QED
    BY <2>1, <2>3, <2>4, Types
<1>2. CASE req_notify_cq(p)
  <2>1. /\ io[p] = "arm"
        /\ armed' = [armed EXCEPT ![p] = TRUE]
        /\ io' = [io EXCEPT ![p] = "poll"] /\ UNCHANGED <<cq, events, unacked, max_wc, wc>>
    BY <1>2 DEF req_notify_cq, Goto
  <2>2. /\ io'[p] = "poll" /\ armed'[p] = TRUE
        /\ armed' \in [Processes -> BOOLEAN]
        /\ io' \in [Processes -> {"idle", "event", "arm", "poll", "check", "success", "error"}]
    BY <2>1, Types
  <2>3. ChannelTypeOK'
    BY <2>1, <2>2 DEF TypeOK, ChannelTypeOK
  <2>4. Proc(p)'
    BY <1>0, <2>1, <2>2 DEF Proc, Balanced, Called, Woken, Outstanding, Receives, Sends
  <2>. QED
    BY <2>1, <2>3, <2>4, Types
<1>3. CASE channel_fails(p)
  <2>1. /\ io[p] \in {"event", "arm", "poll"}
        /\ io' = [io EXCEPT ![p] = "error"]
        /\ UNCHANGED <<cq, armed, events, unacked, max_wc, wc>>
    BY <1>3 DEF channel_fails, Goto
  <2>2. /\ io'[p] = "error"
        /\ io' \in [Processes -> {"idle", "event", "arm", "poll", "check", "success", "error"}]
    BY <2>1, Types
  <2>3. ChannelTypeOK'
    BY <2>1, <2>2 DEF TypeOK, ChannelTypeOK
  <2>4. Proc(p)'
    BY <1>0, <2>1, <2>2 DEF Proc, Balanced, Called, Woken, Outstanding, Receives, Sends
  <2>. QED
    BY <2>1, <2>3, <2>4, Types
<1>. QED
  BY <1>1, <1>2, <1>3

LEMMA PollStep ==
    ASSUME TypeOK, NEW p \in Processes, Proc(p), poll_cq(p),
           UNCHANGED <<sound, rq, flight>>, Phase(p)' = Phase(p), Extra(p)' = Extra(p)
    PROVE  /\ ChannelTypeOK' /\ Proc(p)' /\ UNCHANGED <<armed, events, unacked, max_wc>>
           /\ \A q \in Processes \ {p} : cq'[q] = cq[q] /\ wc'[q] = wc[q] /\ io'[q] = io[q]
           /\ \A x : Contains(cq[p], x) \/ Contains(wc[p], x) <=>
                    Contains(cq'[p], x) \/ Contains(wc'[p], x)
<1>0. /\ cq \in [Processes -> Seq(Statuses)] /\ wc \in [Processes -> Seq(Statuses)]
      /\ io \in [Processes -> {"idle", "event", "arm", "poll", "check", "success", "error"}]
      /\ cq[p] \in Seq(Statuses) /\ wc[p] \in Seq(Statuses) /\ max_wc[p] \in 0 .. 2
  BY Types
<1>1. PICK taken \in 1 .. Len(cq[p]) :
        /\ Len(wc[p]) + taken <= max_wc[p]
        /\ wc' = [wc EXCEPT ![p] = wc[p] \o SubSeq(cq[p], 1, taken)]
        /\ cq' = [cq EXCEPT ![p] = SubSeq(cq[p], taken + 1, Len(cq[p]))]
        /\ io' = [io EXCEPT ![p] = IF Len(wc[p]) + taken = max_wc[p] THEN "check" ELSE "poll"]
  BY DEF poll_cq, Goto
<1>2. io[p] = "poll" /\ UNCHANGED <<armed, events, unacked, max_wc>>
  BY DEF poll_cq
<1>. DEFINE first == SubSeq(cq[p], 1, taken)
            rest == SubSeq(cq[p], taken + 1, Len(cq[p]))
<1>3. /\ first \in Seq(Statuses) /\ Len(first) = taken
      /\ rest \in Seq(Statuses) /\ Len(rest) = Len(cq[p]) - taken
      /\ \A x : Contains(cq[p], x) <=> Contains(first, x) \/ Contains(rest, x)
  BY <1>0, Polled
<1>4. /\ wc' = [wc EXCEPT ![p] = wc[p] \o first] /\ cq' = [cq EXCEPT ![p] = rest]
  BY <1>1
<1>. HIDE DEF first, rest
<1>5. /\ cq'[p] = rest /\ wc'[p] = wc[p] \o first
      /\ wc[p] \o first \in Seq(Statuses) /\ Len(wc[p] \o first) = Len(wc[p]) + taken
      /\ io'[p] = IF Len(wc[p]) + taken = max_wc[p] THEN "check" ELSE "poll"
  <2>1. cq'[p] = rest /\ wc'[p] = wc[p] \o first
    BY <1>0, <1>4
  <2>2. wc[p] \o first \in Seq(Statuses) /\ Len(wc[p] \o first) = Len(wc[p]) + Len(first)
    BY <1>0, <1>3, ConcatTyped
  <2>3. io'[p] = IF Len(wc[p]) + taken = max_wc[p] THEN "check" ELSE "poll"
    BY <1>0, <1>1
  <2>. QED
    BY <1>3, <2>1, <2>2, <2>3
<1>6. /\ cq' \in [Processes -> Seq(Statuses)] /\ wc' \in [Processes -> Seq(Statuses)]
      /\ io' \in [Processes -> {"idle", "event", "arm", "poll", "check", "success", "error"}]
  BY <1>0, <1>1, <1>3, <1>4, <1>5, SMTT(30)
<1>7. \A q \in Processes \ {p} : cq'[q] = cq[q] /\ wc'[q] = wc[q] /\ io'[q] = io[q]
  BY <1>0, <1>1, <1>4
<1>8. \A q \in Processes : Len(wc'[q]) <= max_wc'[q]
  BY <1>1, <1>2, <1>5, <1>7, Types
<1>9. ChannelTypeOK'
  BY <1>2, <1>6, <1>8 DEF TypeOK, ChannelTypeOK
<1>10. Phase(p) = "waiting"
  BY <1>2, CallWaits
<1>11. Outstanding(p)' = Outstanding(p)
  <2>1. Len(cq'[p]) + Len(wc'[p]) = Len(cq[p]) + Len(wc[p])
    <3>. DEFINE a == Len(cq[p])
                b == Len(wc[p])
                c == Len(cq'[p])
                d == Len(wc'[p])
    <3>1. a \in Nat /\ b \in Nat /\ taken \in Nat
      BY <1>0, <1>1
    <3>2. c = a - taken
      BY <1>3, <1>5
    <3>3. d = b + taken
      BY <1>5
    <3>. HIDE DEF a, b, c, d
    <3>4. c + d = a + b
      BY <3>1, <3>2, <3>3
    <3>. QED
      BY <3>4 DEF a, b, c, d
  <2>2. /\ Receives(p) \in {0, 1} /\ Sends(p) \in {0, 1}
        /\ Len(cq[p]) \in Nat /\ Len(wc[p]) \in Nat /\ Len(cq'[p]) \in Nat /\ Len(wc'[p]) \in Nat
    BY <1>0, <1>3, <1>5 DEF Receives, Sends
  <2>3. Outstanding(p)' = Len(cq'[p]) + Len(wc'[p]) + Receives(p) + Sends(p)
    BY DEF Outstanding, Receives, Sends
  <2>. QED
    BY <2>1, <2>2, <2>3 DEF Outstanding
<1>12. Balanced(p)'
  BY <1>2, <1>5, <1>10, <1>11 DEF Proc, Balanced
<1>13. Called(p)'
  BY <1>2, <1>5 DEF Proc, Called
<1>14. Woken(p)'
  BY <1>2, <1>5 DEF Proc, Woken
<1>15. \A x : Contains(cq[p], x) \/ Contains(wc[p], x) <=>
               Contains(cq'[p], x) \/ Contains(wc'[p], x)
  <2>. TAKE x
  <2>1. Contains(wc[p] \o first, x) <=> Contains(wc[p], x) \/ Contains(first, x)
    BY <1>0, <1>3, ContainsConcat
  <2>. QED
    BY <1>3, <1>5, <2>1
<1>. QED
  BY <1>2, <1>7, <1>9, <1>12, <1>13, <1>14, <1>15 DEF Proc

LEMMA CheckStep ==
    ASSUME TypeOK, NEW p \in Processes, Proc(p), Foiled(p), check_wc(p),
           UNCHANGED <<sound, rq, flight>>, Phase(p)' = Phase(p), Extra(p)' = Extra(p)
    PROVE  /\ ChannelTypeOK' /\ Proc(p)' /\ UNCHANGED <<cq, armed, events, max_wc, wc>>
           /\ \A q \in Processes \ {p} : unacked'[q] = unacked[q] /\ io'[q] = io[q]
<1>0. Phase(p) = "waiting"
  BY CallWaits DEF check_wc
<1>1. /\ io[p] = "check" /\ unacked[p] = 1 /\ Len(wc[p]) = max_wc[p]
      /\ UNCHANGED <<cq, armed, events, max_wc, wc>>
  BY DEF check_wc, Proc, Called
<1>2. ASSUME ~Contains(wc[p], "error")
      PROVE  cq[p] = <<>>
  <2>1. /\ Len(cq[p]) \in Nat /\ Len(wc[p]) \in Nat
        /\ cq[p] \in Seq(Statuses) /\ wc[p] \in Seq(Statuses)
        /\ Receives(p) \in {0, 1} /\ Sends(p) \in {0, 1}
    BY Types DEF Receives, Sends
  <2>2. Outstanding(p) = Len(wc[p]) + Extra(p)
    BY <1>0, <1>1 DEF Proc, Balanced
  <2>3. Outstanding(p) = Len(cq[p]) + Len(wc[p]) + Receives(p) + Sends(p)
    BY DEF Outstanding
  <2>4. Extra(p) = 0 \/ (Extra(p) = 1 /\ Receives(p) = 1)
    <3>1. CASE Untold(p)
      <4>1. wc[p] = <<>>
        BY <1>2, <2>1, <3>1, NoneLeft DEF Foiled
      <4>2. rq[p]
        BY <1>1, <3>1, <4>1 DEF Foiled
      <4>. QED
        BY <3>1, <4>2 DEF Extra, Receives
    <3>2. CASE ~Untold(p)
      BY <3>2 DEF Extra
    <3>. QED
      BY <3>1, <3>2
  <2>5. Len(cq[p]) = 0
    <3>. DEFINE a == Len(cq[p])
                b == Len(wc[p])
                r == Receives(p)
                f == Sends(p)
                e == Extra(p)
    <3>1. b + e = a + b + r + f
      BY <2>2, <2>3
    <3>2. a \in Nat /\ b \in Nat /\ r \in {0, 1} /\ f \in {0, 1} /\ (e = 0 \/ (e = 1 /\ r = 1))
      BY <2>1, <2>4
    <3>. HIDE DEF a, b, r, f, e
    <3>3. a = 0
      BY <3>1, <3>2
    <3>. QED
      BY <3>3 DEF a
  <2>. QED
    BY <2>1, <2>5
<1>3. CASE Contains(wc[p], "error")
  <2>1. io' = [io EXCEPT ![p] = "error"] /\ unacked' = unacked
    BY <1>3 DEF check_wc, Goto
  <2>2. /\ io'[p] = "error"
        /\ io' \in [Processes -> {"idle", "event", "arm", "poll", "check", "success", "error"}]
    BY <2>1, Types
  <2>3. ChannelTypeOK'
    BY <1>1, <2>1, <2>2 DEF TypeOK, ChannelTypeOK
  <2>4. Proc(p)'
    BY <1>0, <1>1, <2>1, <2>2 DEF Proc, Balanced, Called, Woken, Outstanding, Receives, Sends
  <2>. QED
    BY <1>1, <2>1, <2>3, <2>4, Types
<1>4. CASE ~Contains(wc[p], "error")
  <2>1. io' = [io EXCEPT ![p] = "success"] /\ unacked' = [unacked EXCEPT ![p] = unacked[p] - 1]
    BY <1>4 DEF check_wc, Goto
  <2>2. /\ io'[p] = "success" /\ unacked'[p] = 0 /\ unacked' \in [Processes -> {0, 1}]
        /\ io' \in [Processes -> {"idle", "event", "arm", "poll", "check", "success", "error"}]
    BY <1>1, <2>1, Types
  <2>3. ChannelTypeOK'
    BY <1>1, <2>1, <2>2 DEF TypeOK, ChannelTypeOK
  <2>4. Balanced(p)' /\ Called(p)'
    BY <1>0, <1>1, <1>4, <2>1, <2>2 DEF Proc, Balanced, Called, Outstanding, Receives, Sends
  <2>5. Woken(p)'
    BY <1>0, <1>1, <1>2, <1>4, <2>1, <2>2 DEF Proc, Woken
  <2>. QED
    BY <1>1, <2>1, <2>3, <2>4, <2>5, Types DEF Proc
<1>. QED
  BY <1>3, <1>4

LEMMA ProcessKinds == Clients \subseteq Processes /\ "server" \in Processes /\ "server" \notin Clients
BY CqChannelAssumption DEF Processes

LEMMA WaitStep ==
    ASSUME IInv, NEW p \in Processes, wait(p)
    PROVE  IInv'
<1>0. /\ UNCHANGED <<sound, users, client, server, cm, buf, nic>>
      /\ process_work_completion_events(p)
  BY DEF wait
<1>1. UNCHANGED <<sound, users, cpc, dst, unposted, spc, peer, cchan, schan, link, buf, rq, flight, landed>>
  BY <1>0 DEF client, server, cm, nic
<1>2. /\ TypeOK /\ Proc(p) /\ \A q \in Processes : Proc(q)
      /\ Requests /\ Told /\ \A c \in Clients : Served(c) /\ Data(c) /\ Unheard(c) /\ Foiled(c) /\ Met(c)
      /\ Foiled(p)
  <2>1. Foiled("server")
    BY DEF Foiled, Untold
  <2>. QED
    BY <2>1 DEF IInv, Proc, Processes
<1>3. \A q \in Processes : Phase(q)' = Phase(q) /\ Extra(q)' = Extra(q)
  BY <1>1 DEF Phase, Extra, Untold
<1>4. /\ ChannelTypeOK' /\ Proc(p)'
      /\ \A q \in Processes \ {p} :
           /\ cq'[q] = cq[q] /\ armed'[q] = armed[q] /\ events'[q] = events[q]
           /\ unacked'[q] = unacked[q] /\ io'[q] = io[q] /\ max_wc'[q] = max_wc[q]
           /\ wc'[q] = wc[q]
      /\ \A x : Contains(cq[p], x) \/ Contains(wc[p], x) <=>
               Contains(cq'[p], x) \/ Contains(wc'[p], x)
      /\ max_wc'[p] = max_wc[p]
  <2>1. CASE get_cq_event(p) \/ req_notify_cq(p) \/ channel_fails(p)
    BY <1>1, <1>2, <1>3, <2>1, GoesOn
  <2>2. CASE poll_cq(p)
    BY <1>1, <1>2, <1>3, <2>2, PollStep
  <2>3. CASE check_wc(p)
    BY <1>1, <1>2, <1>3, <2>3, CheckStep
  <2>. QED
    BY <1>0, <2>1, <2>2, <2>3 DEF process_work_completion_events
<1>5. TypeOK'
  <2>1. ManagerTypeOK' /\ ProgramTypeOK' /\ DataTypeOK'
    BY <1>1, <1>2, TypeParts DEF ManagerTypeOK, ProgramTypeOK, DataTypeOK
  <2>. QED
    BY <1>4, <2>1, TypeNext
<1>6. ASSUME NEW q \in Processes
      PROVE  Proc(q)'
  <2>1. CASE q = p
    BY <1>4, <2>1
  <2>2. CASE q # p
    <3>1. ProcSame(q)
      BY <1>1, <1>3, <1>4, <2>2 DEF ProcSame
    <3>. QED
      BY <1>2, <3>1, ProcFrame
  <2>. QED
    BY <2>1, <2>2
<1>7. Requests'
  <2>1. \A c \in Clients : max_wc'[c] = max_wc[c]
    BY <1>4, ProcessKinds
  <2>. QED
    BY <1>1, <1>2, <2>1 DEF Requests, Answered, Requested, Untold
<1>8. Told'
  BY <1>1, <1>2 DEF Told, Honest
<1>9. ASSUME NEW q \in Processes
      PROVE  \A x : Contains(cq[q], x) \/ Contains(wc[q], x) <=>
                   Contains(cq[q], x)' \/ Contains(wc[q], x)'
  <2>1. CASE q = p
    BY <1>4, <2>1
  <2>2. CASE q # p
    BY <1>4, <2>2
  <2>. QED
    BY <2>1, <2>2
<1>10. ASSUME NEW c \in Clients
       PROVE  Served(c)' /\ Data(c)' /\ Unheard(c)' /\ Foiled(c)' /\ Met(c)'
  <2>1. (Clean(c)' => Clean(c)) /\ (~Clean("server") => ~Clean("server")')
    BY <1>9, ProcessKinds DEF Clean
  <2>2. ClientSame(c)
    BY <1>1, <2>1 DEF ClientSame
  <2>3. Unheard(c)'
    BY <1>1, <1>2, <2>1, UnheardFrame DEF Untold
  <2>4. Unmoved(c)
    BY <1>1, <1>4, <1>9, ProcessKinds DEF Unmoved
  <2>. QED
    BY <1>1, <1>2, <2>2, <2>3, <2>4, ClientFrame, UnmovedFrame
<1>. QED
  BY <1>5, <1>6, <1>7, <1>8, <1>10 DEF IInv, Proc

----------------------------------------------------------------------------
(* The adapters.                                                           *)

\* Completions that arrive take the place of what was outstanding, and raise an
\* event if the queue is armed.
LEMMA CompleteStep ==
    ASSUME TypeOK, NEW p \in Processes, Proc(p), NEW s \in Seq(Statuses), Len(s) > 0,
           Complete(p, s), UNCHANGED sound,
           Phase(p) # "new", Phase(p)' = Phase(p), Extra(p)' = Extra(p),
           flight'[p] = flight[p] \/ flight'[p] = "none",
           Len(s) + Receives(p)' + Sends(p)' = Receives(p) + Sends(p)
    PROVE  /\ ChannelTypeOK' /\ Proc(p)'
           /\ \A q \in Processes \ {p} :
                /\ cq'[q] = cq[q] /\ armed'[q] = armed[q] /\ events'[q] = events[q]
                /\ unacked'[q] = unacked[q] /\ io'[q] = io[q] /\ max_wc'[q] = max_wc[q]
                /\ wc'[q] = wc[q]
           /\ \A c \in Processes : Clean(c)' => Clean(c)
           /\ Contains(s, "error") => ~Clean(p)'
           /\ \A x : Contains(cq'[p], x) <=> Contains(cq[p], x) \/ Contains(s, x)
<1>1. /\ cq' = [cq EXCEPT ![p] = cq[p] \o s]
      /\ events' = [events EXCEPT ![p] = IF armed[p] THEN events[p] + 1 ELSE events[p]]
      /\ armed' = [armed EXCEPT ![p] = FALSE]
      /\ UNCHANGED <<unacked, io, max_wc, wc>>
  BY DEF Complete
<1>2. /\ cq[p] \in Seq(Statuses) /\ cq[p] \o s \in Seq(Statuses) /\ Len(cq[p] \o s) = Len(cq[p]) + Len(s)
      /\ Len(cq[p]) \in Nat /\ Len(wc[p]) \in Nat /\ Len(s) \in Nat
      /\ events[p] \in Nat
  BY Types
<1>3. /\ cq' \in [Processes -> Seq(Statuses)] /\ events' \in [Processes -> Nat]
      /\ armed' \in [Processes -> BOOLEAN]
      /\ cq'[p] = cq[p] \o s /\ armed'[p] = FALSE
      /\ events'[p] = IF armed[p] THEN events[p] + 1 ELSE events[p]
  BY <1>1, <1>2, Types
<1>4. \A q \in Processes \ {p} :
        /\ cq'[q] = cq[q] /\ armed'[q] = armed[q] /\ events'[q] = events[q]
        /\ unacked'[q] = unacked[q] /\ io'[q] = io[q] /\ max_wc'[q] = max_wc[q]
        /\ wc'[q] = wc[q]
  BY <1>1, Types
<1>5. ChannelTypeOK'
  BY <1>1, <1>3 DEF TypeOK, ChannelTypeOK
<1>6. Outstanding(p)' = Outstanding(p)
  <2>. DEFINE a == Len(cq[p])
              b == Len(wc[p])
              n == Len(s)
              r == Receives(p)
              f == Sends(p)
              r1 == Receives(p)'
              f1 == Sends(p)'
  <2>1. /\ a \in Nat /\ b \in Nat /\ n \in Nat /\ n + r1 + f1 = r + f
        /\ r \in {0, 1} /\ f \in {0, 1} /\ r1 \in {0, 1} /\ f1 \in {0, 1}
    BY <1>2 DEF Receives, Sends
  <2>2. Outstanding(p)' = (a + n) + b + r1 + f1 /\ Outstanding(p) = a + b + r + f
    BY <1>1, <1>2, <1>3 DEF Outstanding
  <2>. HIDE DEF a, b, n, r, f, r1, f1
  <2>. QED
    BY <2>1, <2>2
<1>7. Balanced(p)'
  BY <1>1, <1>6, Phases DEF Proc, Balanced
<1>8. Called(p)'
  BY <1>1 DEF Proc, Called
<1>9. Woken(p)'
  <2>1. ASSUME events'[p] = 0
        PROVE  events[p] = 0 /\ ~armed[p]
    BY <1>2, <1>3, <2>1
  <2>2. CASE io[p] \in {"idle", "event", "success", "poll", "check"}
    BY <1>1, <2>1, <2>2 DEF Proc, Woken
  <2>3. CASE io[p] \notin {"idle", "event", "success", "poll", "check"}
    BY <1>1, <2>3 DEF Woken
  <2>. QED
    BY <2>2, <2>3
<1>10. /\ \A c \in Processes : Clean(c)' => Clean(c)
       /\ Contains(s, "error") => ~Clean(p)'
       /\ \A x : Contains(cq'[p], x) <=> Contains(cq[p], x) \/ Contains(s, x)
  <2>1. \A x : Contains(cq'[p], x) <=> Contains(cq[p], x) \/ Contains(s, x)
    BY <1>2, <1>3, ContainsConcat
  <2>. QED
    BY <1>1, <1>4, <2>1 DEF Clean
<1>. QED
  BY <1>4, <1>5, <1>7, <1>8, <1>9, <1>10 DEF Proc

\* What the invariant asks of a step of an adapter.
LEMMA AdapterRest ==
    ASSUME IInv, UNCHANGED <<users, cpc, unposted, server, cm>>,
           buf = "none" => buf' = "none", ChannelTypeOK', DataTypeOK', \A q \in Processes : Proc(q)', Requests',
           \A c \in Clients : Served(c)' /\ Data(c)' /\ Unheard(c)' /\ Foiled(c)' /\ Met(c)'
    PROVE  IInv'
<1>1. TypeOK /\ Told
  BY DEF IInv
<1>2. TypeOK'
  BY <1>1, TypeParts, TypeNext, ManagerFrame, ProgramFrame
<1>3. Told'
  BY <1>1 DEF Told, Honest, server, cm
<1>. QED
  BY <1>2, <1>3 DEF IInv, Proc

\* While the one request of a client is on its way, it has no completions.
LEMMA InFlightClean ==
    ASSUME TypeOK, NEW c \in Clients, Proc(c), Requested(c), ~Untold(c),
           cpc[c] \in {"writing", "reading"}, flight[c] # "none"
    PROVE  Clean(c)
<1>0. c \in Processes /\ c # "server"
  BY ProcessKinds
<1>1. Outstanding(c) = 1
  <2>1. Phase(c) = "waiting" /\ max_wc[c] = 1 /\ Extra(c) = 0
    BY <1>0 DEF Phase, Extra, Requested
  <2>. QED
    BY <2>1 DEF Proc, Balanced
<1>. DEFINE a == Len(cq[c])
            b == Len(wc[c])
            r == Receives(c)
<1>2. a + b + r + 1 = 1
  BY <1>1 DEF Outstanding, Sends
<1>3. a \in Nat /\ b \in Nat /\ r \in {0, 1}
  BY <1>0, Types DEF Receives
<1>4. a = 0 /\ b = 0
  <2>. HIDE DEF a, b, r
  <2>. QED
    BY <1>2, <1>3
<1>. QED
  BY <1>4 DEF Clean, Contains

LEMMA SendStep ==
    ASSUME IInv, NEW p \in Processes, nic_send(p), UNCHANGED <<sound, users, cpc, unposted, server, cm>>
    PROVE  IInv'
<1>0. /\ TypeOK /\ \A r \in Processes : Proc(r)
      /\ Requests /\ Told
      /\ \A c \in Clients : Served(c) /\ Data(c) /\ Unheard(c) /\ Foiled(c) /\ Met(c)
  BY DEF IInv, Proc
<1>. PICK q : q = Peer(p)
  OBVIOUS
<1>1. /\ flight[p] = "SEND" /\ rq[q]
      /\ rq' = [rq EXCEPT ![q] = FALSE]
      /\ Complete(q, <<"success">>)
      /\ landed' = [landed EXCEPT ![p] = TRUE] /\ UNCHANGED <<flight, dst, buf, spc, peer>>
  BY DEF nic_send, InFlight, Lands, server
<1>2. /\ q \in Processes /\ q # p
      /\ p = "server" => q \in Clients /\ q = peer /\ buf # "none" /\ spc \in {"sending", "failed"}
  <2>1. CASE p = "server"
    BY <1>0, <1>1, <2>1, ProcessKinds, Types DEF Requests, Answered, Requested, Peer
  <2>2. CASE p # "server"
    BY <2>2, ProcessKinds DEF Peer
  <2>. QED
    BY <2>1, <2>2
<1>3. \A r \in Processes : Phase(r)' = Phase(r) /\ Extra(r)' = Extra(r)
  BY <1>1 DEF Phase, Extra, Untold
<1>4. /\ rq' \in [Processes -> BOOLEAN] /\ landed' \in [Processes -> BOOLEAN]
      /\ ~rq'[q] /\ \A r \in Processes \ {q} : rq'[r] = rq[r]
      /\ \A r \in Processes \ {p} : landed'[r] = landed[r]
  BY <1>0, <1>1, <1>2, Types
<1>5. /\ ChannelTypeOK' /\ Proc(q)'
      /\ \A r \in Processes \ {q} :
           /\ cq'[r] = cq[r] /\ armed'[r] = armed[r] /\ events'[r] = events[r]
           /\ unacked'[r] = unacked[r] /\ io'[r] = io[r] /\ max_wc'[r] = max_wc[r]
           /\ wc'[r] = wc[r]
      /\ max_wc' = max_wc /\ \A c \in Processes : Clean(c)' => Clean(c)
  <2>1. Phase(q) # "new"
    BY <1>0, <1>1, <1>2 DEF Proc, Balanced
  <2>2. Len(<<"success">>) + Receives(q)' + Sends(q)' = Receives(q) + Sends(q)
    <3>1. Receives(q) = 1 /\ Receives(q)' = 0
      BY <1>1, <1>4 DEF Receives
    <3>2. Sends(q)' = Sends(q) /\ Sends(q) \in {0, 1}
      BY <1>1 DEF Sends
    <3>. QED
      BY <3>1, <3>2, ContainsOne
  <2>. QED
    <3>1. PICK s : s = <<"success">>
      OBVIOUS
    <3>2. s \in Seq(Statuses) /\ Len(s) = 1 /\ Complete(q, s)
      BY <1>1, <3>1, ContainsOne
    <3>3. Len(s) + Receives(q)' + Sends(q)' = Receives(q) + Sends(q)
      BY <2>2, <3>1
    <3>4. flight'[q] = flight[q] /\ Proc(q)
      BY <1>0, <1>1, <1>2
    <3>5. max_wc' = max_wc
      BY <3>2 DEF Complete
    <3>6. Phase(q)' = Phase(q) /\ Extra(q)' = Extra(q) /\ Len(s) > 0
      BY <1>2, <1>3, <3>2
    <3>7. /\ ChannelTypeOK' /\ Proc(q)'
          /\ \A r \in Processes \ {q} :
               /\ cq'[r] = cq[r] /\ armed'[r] = armed[r] /\ events'[r] = events[r]
               /\ unacked'[r] = unacked[r] /\ io'[r] = io[r] /\ max_wc'[r] = max_wc[r]
               /\ wc'[r] = wc[r]
          /\ \A c \in Processes : Clean(c)' => Clean(c)
      BY <1>0, <1>2, <2>1, <3>2, <3>3, <3>4, <3>6, CompleteStep
    <3>. QED
      BY <3>5, <3>7
<1>6. ASSUME NEW r \in Processes
      PROVE  Proc(r)'
  <2>1. CASE r = q
    BY <1>5, <2>1
  <2>2. CASE r # q
    <3>1. ProcSame(r)
      BY <1>1, <1>3, <1>4, <1>5, <2>2 DEF ProcSame
    <3>. QED
      BY <1>0, <3>1, ProcFrame
  <2>. QED
    BY <2>1, <2>2
\* Who sends has sent its metadata, and who is sent to has, too.
<1>10. \A c \in {p, q} : ~Untold(c) /\ (c \in Clients => cpc[c] \notin Early)
  <2>1. CASE p = "server"
    <3>1. peer = q /\ q \in Clients /\ buf # "none" /\ ~Untold(p) /\ p \notin Clients
      BY <1>2, <2>1, ProcessKinds DEF Untold
    <3>. QED
      BY <1>0, <3>1 DEF Unheard
  <2>2. CASE p # "server"
    <3>1. p \in Clients /\ q \notin Clients /\ ~Untold(q)
      BY <2>2, ProcessKinds DEF Peer, Processes, Untold
    <3>2. ~Untold(p)
      BY <1>0, <1>1, <3>1 DEF Foiled
    <3>3. cpc[p] \notin Early
      BY <1>0, <1>1, <2>2 DEF Proc, Balanced, Phase, Early
    <3>. QED
      BY <3>1, <3>2, <3>3
  <2>. QED
    BY <2>1, <2>2
<1>11. peer \in Clients => peer \in {p, q}
  <2>1. Reachable(p)
    BY DEF nic_send, InFlight
  <2>. QED
    BY <1>2, <2>1 DEF Reachable
<1>7. Requests'
  <2>1. Answered'
    BY <1>0, <1>1 DEF Requests, Answered
  <2>2. ASSUME NEW c \in Clients
        PROVE  Requested(c)'
    <3>1. c \in Processes /\ Requested(c) /\ Untold(c)' = Untold(c)
      BY <1>0, ProcessKinds DEF Requests, Untold
    <3>2. rq'[c] = rq[c] \/ (~rq'[c] /\ cpc[c] \notin Early)
      BY <1>4, <1>10, <3>1
    <3>. QED
      BY <1>1, <1>5, <3>1, <3>2 DEF Requested
  <2>. QED
    BY <2>1, <2>2 DEF Requests
<1>8. DataTypeOK'
  BY <1>0, <1>1, <1>4, TypeParts DEF DataTypeOK
<1>9. ASSUME NEW c \in Clients
      PROVE  Served(c)' /\ Data(c)' /\ Unheard(c)' /\ Foiled(c)' /\ Met(c)'
  <2>0. c \in Processes /\ c # "server" /\ (Clean(c)' => Clean(c)) /\ Served(c) /\ Data(c)
    BY <1>0, <1>5, ProcessKinds
  <2>1. Served(c)'
    <3>1. CASE c = q
      <4>1. p = "server"
        BY <3>1, <2>0 DEF Peer
      <4>. QED
        BY <1>1, <1>2, <3>1, <4>1 DEF Served
    <3>2. CASE c # q
      BY <1>1, <1>4, <2>0, <3>2 DEF Served
    <3>. QED
      BY <3>1, <3>2
  <2>2. Data(c)'
    <3>1. CASE c = p
      BY <1>0, <1>1, <2>0, <3>1 DEF Requests, Answered, Requested, Data
    <3>2. CASE c # p
      <4>1. Effective(c)' => Effective(c)
        BY <1>1, <1>4, <2>0, <3>2 DEF Effective
      <4>. QED
        BY <1>1, <2>0, <4>1 DEF Data
    <3>. QED
      BY <3>1, <3>2
  <2>3. Untold(c)' = Untold(c)
    BY DEF Untold
  <2>4. Unheard(c)'
    BY <1>1, <1>10, <1>11, <2>3 DEF Unheard
  <2>5. Foiled(c)'
    <3>1. CASE c \in {p, q}
      BY <1>10, <2>3, <3>1 DEF Foiled
    <3>2. CASE c \notin {p, q}
      BY <1>0, <1>1, <1>4, <1>5, <2>0, <2>3, <3>2 DEF Foiled
    <3>. QED
      BY <3>1, <3>2
  <2>6. Met(c)'
    BY <1>0, <1>1 DEF Met, cm
  <2>. QED
    BY <2>1, <2>2, <2>4, <2>5, <2>6
<1>. QED
  BY <1>1, <1>5, <1>6, <1>7, <1>8, <1>9, AdapterRest

\* The steps that touch no completion queue.
LEMMA MemoryStep ==
    ASSUME IInv, NEW p \in Processes, nic_write(p) \/ nic_read(p),
           UNCHANGED <<sound, users, cpc, unposted, server, cm>>
    PROVE  IInv'
<1>0. /\ TypeOK /\ \A r \in Processes : Proc(r)
      /\ Requests /\ Told
      /\ \A c \in Clients : Served(c) /\ Data(c) /\ Unheard(c) /\ Foiled(c) /\ Met(c)
  BY DEF IInv, Proc
<1>1. /\ flight[p] \in {"WRITE", "READ"}
      /\ landed' = [landed EXCEPT ![p] = TRUE]
      /\ UNCHANGED <<sound, channel, cq, armed, events, unacked, io, max_wc, wc, rq, flight, spc, peer>>
      /\ flight[p] = "WRITE" => buf' = "written" /\ dst' = dst
      /\ flight[p] = "READ" => buf' = buf /\ dst' = [dst EXCEPT ![p] = buf]
  BY DEF nic_write, nic_read, InFlight, Lands, server, channel
<1>2. p \in Clients
  BY <1>0, <1>1 DEF Requests, Answered, Requested, Processes
\* A client that reaches the buffer has sent its metadata.
<1>10. peer = p /\ buf # "none" /\ ~Untold(p) /\ cpc[p] \notin Early
  <2>1. peer = p /\ buf # "none"
    BY <1>2, ProcessKinds DEF nic_write, nic_read, InFlight, Reachable
  <2>. QED
    BY <1>0, <1>2, <2>1 DEF Unheard
<1>3. \A r \in Processes : Phase(r)' = Phase(r) /\ Extra(r)' = Extra(r)
  BY <1>1 DEF Phase, Extra, Untold
<1>4. ASSUME NEW r \in Processes
      PROVE  Proc(r)'
  <2>1. ProcSame(r)
    BY <1>1, <1>3 DEF ProcSame
  <2>. QED
    BY <1>0, <2>1, ProcFrame
<1>5. ChannelTypeOK'
  BY <1>0, <1>1, TypeParts, ChannelFrame
<1>6. /\ landed' \in [Processes -> BOOLEAN] /\ \A r \in Processes \ {p} : landed'[r] = landed[r]
      /\ dst' \in [Clients -> {"none", "zero", "written"}] /\ \A c \in Clients \ {p} : dst'[c] = dst[c]
      /\ buf' \in {"none", "zero", "written"}
      /\ flight[p] = "READ" => dst'[p] = buf
  <2>1. /\ landed \in [Processes -> BOOLEAN] /\ dst \in [Clients -> {"none", "zero", "written"}]
        /\ buf \in {"none", "zero", "written"}
    BY <1>0, Types
  <2>2. landed' \in [Processes -> BOOLEAN] /\ \A r \in Processes \ {p} : landed'[r] = landed[r]
    BY <1>1, <2>1
  <2>. QED
    BY <1>1, <1>2, <2>1, <2>2
<1>7. DataTypeOK'
  BY <1>0, <1>1, <1>6, TypeParts DEF DataTypeOK
<1>8. Requests'
  BY <1>0, <1>1, <1>10 DEF Requests, Answered, Requested, Untold
<1>9. ASSUME NEW c \in Clients
      PROVE  Served(c)' /\ Data(c)' /\ Unheard(c)' /\ Foiled(c)' /\ Met(c)'
  <2>0. c \in Processes /\ Served(c) /\ Data(c) /\ Clean(c)' = Clean(c)
    BY <1>0, <1>1, ProcessKinds, CleanSame
  <2>3. Untold(c)' = Untold(c)
    BY DEF Untold
  <2>4. Unheard(c)'
    BY <1>1, <1>10, <2>3 DEF Unheard
  <2>5. Foiled(c)'
    <3>1. CASE c = p
      BY <1>10, <2>3, <3>1 DEF Foiled
    <3>2. CASE c # p
      BY <1>0, <1>1, <1>6, <2>0, <2>3, <3>2 DEF Foiled
    <3>. QED
      BY <3>1, <3>2
  <2>6. Met(c)'
    BY <1>0, <1>1 DEF Met, cm
  <2>1. CASE c # p
    <3>1. ClientSame(c)
      BY <1>1, <1>6, <2>0, <2>1 DEF ClientSame
    <3>. QED
      BY <1>1, <2>0, <2>4, <2>5, <2>6, <3>1, ClientFrame
  <2>2. CASE c = p
    <3>1. Served(c)'
      BY <1>1, <2>0 DEF Served
    <3>2. CASE flight[c] = "WRITE"
      <4>1. cpc[c] # "reading" /\ cpc[c] \notin Leaving \ {"failed"}
        BY <1>0, <3>2 DEF Requests, Answered, Requested
      <4>2. buf' = "written"
        BY <1>1, <2>2, <3>2
      <4>. QED
        BY <1>1, <2>0, <2>2, <2>4, <2>5, <2>6, <3>1, <4>1, <4>2 DEF Data
    <3>3. CASE flight[c] = "READ"
      <4>1. cpc[c] = "reading" /\ unposted[c] = {} => buf = "written"
        BY <1>0, <1>10, <2>0, <2>2, <3>3, InFlightClean DEF Data, Requests
      <4>2. cpc[c] # "writing" /\ cpc[c] \notin Leaving \ {"failed"}
        BY <1>0, <3>3 DEF Requests, Answered, Requested
      <4>. QED
        BY <1>1, <1>6, <2>0, <2>2, <2>4, <2>5, <2>6, <3>1, <3>3, <4>1, <4>2 DEF Data
    <3>. QED
      BY <1>1, <2>2, <2>4, <2>5, <2>6, <3>1, <3>2, <3>3
  <2>. QED
    BY <2>1, <2>2
<1>. QED
  BY <1>4, <1>5, <1>7, <1>8, <1>9, <1>10, AdapterRest

\* The server is told of the WRITE or READ that it has no buffer for.
LEMMA RefuseStep ==
    ASSUME IInv, NEW p \in Processes, nic_refuse(p),
           UNCHANGED <<sound, users, cpc, unposted, server, cm>>
    PROVE  IInv'
<1>0. /\ TypeOK /\ \A r \in Processes : Proc(r)
      /\ Requests /\ Told /\ "server" \in Processes
      /\ \A c \in Clients : Served(c) /\ Data(c) /\ Unheard(c) /\ Foiled(c) /\ Met(c)
  BY ProcessKinds DEF IInv, Proc
<1>1. /\ rq["server"] /\ rq' = [rq EXCEPT !["server"] = FALSE]
      /\ Complete("server", <<"error">>)
      /\ UNCHANGED <<flight, landed, dst, buf, spc, peer>>
  BY DEF nic_refuse, server
<1>2. \A r \in Processes : Phase(r)' = Phase(r) /\ Extra(r)' = Extra(r)
  BY <1>1 DEF Phase, Extra, Untold
<1>3. /\ rq' \in [Processes -> BOOLEAN] /\ ~rq'["server"]
      /\ \A r \in Processes \ {"server"} : rq'[r] = rq[r]
  BY <1>0, <1>1, Types
<1>4. PICK q, s : q = "server" /\ s = <<"error">>
  OBVIOUS
<1>5. /\ ChannelTypeOK' /\ Proc(q)'
      /\ \A r \in Processes \ {q} :
           /\ cq'[r] = cq[r] /\ armed'[r] = armed[r] /\ events'[r] = events[r]
           /\ unacked'[r] = unacked[r] /\ io'[r] = io[r] /\ max_wc'[r] = max_wc[r]
           /\ wc'[r] = wc[r]
      /\ ~Clean(q)' /\ max_wc' = max_wc
  <2>1. q \in Processes /\ Proc(q) /\ Phase(q) # "new"
    BY <1>0, <1>1, <1>4 DEF Proc, Balanced
  <2>2. s \in Seq(Statuses) /\ Len(s) = 1 /\ Complete(q, s) /\ Contains(s, "error")
    BY <1>1, <1>4, ContainsOne
  <2>3. Len(s) + Receives(q)' + Sends(q)' = Receives(q) + Sends(q)
    <3>1. Receives(q) = 1 /\ Receives(q)' = 0
      BY <1>1, <1>3, <1>4 DEF Receives
    <3>2. Sends(q)' = Sends(q) /\ Sends(q) \in {0, 1}
      BY <1>1 DEF Sends
    <3>. QED
      BY <2>2, <3>1, <3>2
  <2>4. flight'[q] = flight[q] /\ Phase(q)' = Phase(q) /\ Extra(q)' = Extra(q)
    BY <1>1, <1>2, <2>1
  <2>. QED
    <3>1. max_wc' = max_wc
      BY <2>2 DEF Complete
    <3>2. Len(s) > 0
      BY <2>2
    <3>3. /\ ChannelTypeOK' /\ Proc(q)'
          /\ \A r \in Processes \ {q} :
               /\ cq'[r] = cq[r] /\ armed'[r] = armed[r] /\ events'[r] = events[r]
               /\ unacked'[r] = unacked[r] /\ io'[r] = io[r] /\ max_wc'[r] = max_wc[r]
               /\ wc'[r] = wc[r]
          /\ Contains(s, "error") => ~Clean(q)'
      BY <1>0, <2>1, <2>2, <2>3, <2>4, <3>2, CompleteStep
    <3>. QED
      BY <2>2, <3>1, <3>3
<1>6. ASSUME NEW r \in Processes
      PROVE  Proc(r)'
  <2>1. CASE r = q
    BY <1>5, <2>1
  <2>2. CASE r # q
    <3>1. ProcSame(r)
      BY <1>1, <1>2, <1>3, <1>4, <1>5, <2>2 DEF ProcSame
    <3>. QED
      BY <1>0, <3>1, ProcFrame
  <2>. QED
    BY <2>1, <2>2
<1>7. Requests'
  BY <1>0, <1>1, <1>3, <1>5, ProcessKinds DEF Requests, Answered, Requested, Untold
<1>8. DataTypeOK'
  BY <1>0, <1>1, <1>3, TypeParts DEF DataTypeOK
<1>9. ASSUME NEW c \in Clients
      PROVE  Served(c)' /\ Data(c)' /\ Unheard(c)' /\ Foiled(c)' /\ Met(c)'
  <2>1. c \in Processes /\ c # q
    BY <1>4, ProcessKinds
  <2>2. ClientSame(c)
    BY <1>1, <1>3, <1>4, <1>5, <2>1, CleanSame DEF ClientSame
  <2>3. Unheard(c)'
    BY <1>0, <1>1, <1>4, <1>5, UnheardFrame DEF Untold
  <2>4. Unmoved(c)
    BY <1>1, <1>3, <1>4, <1>5, <2>1 DEF Unmoved, cm
  <2>. QED
    BY <1>0, <1>1, <2>2, <2>3, <2>4, ClientFrame, UnmovedFrame
<1>. QED
  BY <1>1, <1>5, <1>6, <1>7, <1>8, <1>9, AdapterRest

\* The steps that end a request.
LEMMA EndStep ==
    ASSUME IInv, NEW p \in Processes, nic_ack(p) \/ nic_fail(p),
           UNCHANGED <<sound, users, cpc, unposted, server, cm>>
    PROVE  IInv'
<1>0. /\ TypeOK /\ \A r \in Processes : Proc(r)
      /\ Requests /\ Told
      /\ \A c \in Clients : Served(c) /\ Data(c) /\ Unheard(c) /\ Foiled(c) /\ Met(c)
  BY DEF IInv, Proc
<1>1. /\ flight[p] # "none" /\ flight' = [flight EXCEPT ![p] = "none"]
      /\ UNCHANGED <<landed, dst, buf, spc, peer>>
  BY DEF nic_ack, nic_fail, server
<1>2. PICK s \in Seq(Statuses) :
        /\ Complete(p, s) /\ Len(s) > 0
        /\ \/ landed[p] /\ rq' = rq /\ Len(s) = 1
           \/ /\ Contains(s, "error") /\ ~Contains(s, "success") /\ rq' = [rq EXCEPT ![p] = FALSE]
              /\ Len(s) = IF rq[p] THEN 2 ELSE 1
  <2>1. CASE nic_ack(p)
    BY <2>1, ContainsOne DEF nic_ack
  <2>2. CASE nic_fail(p)
    <3>1. CASE rq[p]
      <4>1. PICK t : t = <<"error", "error">>
        OBVIOUS
      <4>2. Complete(p, t) /\ rq' = [rq EXCEPT ![p] = FALSE]
        BY <2>2, <3>1, <4>1 DEF nic_fail
      <4>3. t \in Seq(Statuses) /\ Len(t) = 2 /\ Contains(t, "error") /\ ~Contains(t, "success")
        BY <4>1, ContainsOne
      <4>4. t \in Seq(Statuses)
        BY <4>3
      <4>. WITNESS t \in Seq(Statuses)
      <4>5. Complete(p, t) /\ Len(t) > 0
        BY <4>2, <4>3
      <4>6. Len(t) = IF rq[p] THEN 2 ELSE 1
        BY <3>1, <4>3
      <4>. QED
        BY <4>2, <4>3, <4>5, <4>6
    <3>2. CASE ~rq[p]
      <4>1. PICK t : t = <<"error">>
        OBVIOUS
      <4>2. Complete(p, t) /\ rq' = [rq EXCEPT ![p] = FALSE]
        BY <2>2, <3>2, <4>1 DEF nic_fail
      <4>3. t \in Seq(Statuses) /\ Len(t) = 1 /\ Contains(t, "error") /\ ~Contains(t, "success")
        BY <4>1, ContainsOne
      <4>4. t \in Seq(Statuses)
        BY <4>3
      <4>. WITNESS t \in Seq(Statuses)
      <4>5. Complete(p, t) /\ Len(t) > 0
        BY <4>2, <4>3
      <4>6. Len(t) = IF rq[p] THEN 2 ELSE 1
        BY <3>2, <4>3
      <4>. QED
        BY <4>2, <4>3, <4>5, <4>6
    <3>. QED
      BY <3>1, <3>2
  <2>. QED
    BY <2>1, <2>2
<1>3. \A r \in Processes : Phase(r)' = Phase(r) /\ Extra(r)' = Extra(r)
  BY <1>1 DEF Phase, Extra, Untold
<1>4. /\ rq' \in [Processes -> BOOLEAN] /\ flight' \in [Processes -> {"none", "SEND", "WRITE", "READ"}]
      /\ flight'[p] = "none"
      /\ \A r \in Processes \ {p} : rq'[r] = rq[r] /\ flight'[r] = flight[r]
      /\ \A r \in Processes : rq'[r] => rq[r]
      /\ rq' = rq \/ rq'[p] = FALSE
  <2>0. rq \in [Processes -> BOOLEAN] /\ flight \in [Processes -> {"none", "SEND", "WRITE", "READ"}]
    BY <1>0, Types
  <2>1. /\ flight' \in [Processes -> {"none", "SEND", "WRITE", "READ"}] /\ flight'[p] = "none"
        /\ \A r \in Processes \ {p} : flight'[r] = flight[r]
    BY <1>1, <2>0
  <2>2. CASE rq' = rq
    BY <2>0, <2>1, <2>2
  <2>3. CASE rq' = [rq EXCEPT ![p] = FALSE]
    BY <2>0, <2>1, <2>3
  <2>. QED
    BY <1>2, <2>2, <2>3
<1>5. /\ ChannelTypeOK' /\ Proc(p)'
      /\ \A r \in Processes \ {p} :
           /\ cq'[r] = cq[r] /\ armed'[r] = armed[r] /\ events'[r] = events[r]
           /\ unacked'[r] = unacked[r] /\ io'[r] = io[r] /\ max_wc'[r] = max_wc[r]
           /\ wc'[r] = wc[r]
      /\ \A c \in Processes : Clean(c)' => Clean(c)
      /\ Contains(s, "error") => ~Clean(p)'
      /\ \A x : Contains(cq'[p], x) <=> Contains(cq[p], x) \/ Contains(s, x)
      /\ max_wc' = max_wc /\ wc' = wc
  <2>1. Phase(p) # "new"
    BY <1>0, <1>1 DEF Proc, Balanced
  <2>2. Len(s) + Receives(p)' + Sends(p)' = Receives(p) + Sends(p)
    <3>1. Sends(p) = 1 /\ Sends(p)' = 0
      BY <1>1, <1>4 DEF Sends
    <3>2. CASE rq' = rq /\ Len(s) = 1
      <4>1. Receives(p)' = Receives(p) /\ Receives(p) \in {0, 1}
        BY <3>2 DEF Receives
      <4>. QED
        BY <3>1, <3>2, <4>1
    <3>3. CASE rq' = [rq EXCEPT ![p] = FALSE] /\ Len(s) = IF rq[p] THEN 2 ELSE 1
      <4>1. ~rq'[p]
        BY <1>0, <3>3, Types
      <4>. QED
        BY <3>1, <3>3, <4>1 DEF Receives
    <3>. QED
      BY <1>2, <3>2, <3>3
  <2>. QED
    BY <1>0, <1>2, <1>3, <1>4, <2>1, <2>2, CompleteStep DEF Complete
<1>6. ASSUME NEW r \in Processes
      PROVE  Proc(r)'
  <2>1. CASE r = p
    BY <1>5, <2>1
  <2>2. CASE r # p
    <3>1. ProcSame(r)
      BY <1>1, <1>3, <1>4, <1>5, <2>2 DEF ProcSame
    <3>. QED
      BY <1>0, <3>1, ProcFrame
  <2>. QED
    BY <2>1, <2>2
<1>10. p \in Clients => cpc[p] \notin Early
  BY <1>0, <1>1, ProcessKinds DEF Proc, Balanced, Phase, Early
<1>7. Requests'
  <2>1. Answered'
    BY <1>0, <1>1, <1>4, ProcessKinds DEF Requests, Answered
  <2>2. ASSUME NEW c \in Clients
        PROVE  Requested(c)'
    <3>1. /\ c \in Processes /\ Requested(c) /\ Untold(c)' = Untold(c)
          /\ (flight'[c] = flight[c] \/ flight'[c] = "none") /\ (rq'[c] => rq[c])
      BY <1>0, <1>4, ProcessKinds DEF Requests, Untold
    <3>2. rq'[c] = rq[c] \/ cpc[c] \notin Early
      BY <1>4, <1>10, <3>1
    <3>. QED
      BY <1>5, <3>1, <3>2 DEF Requested
  <2>. QED
    BY <2>1, <2>2 DEF Requests
<1>8. DataTypeOK'
  BY <1>0, <1>1, <1>4, TypeParts DEF DataTypeOK
<1>9. ASSUME NEW c \in Clients
      PROVE  Served(c)' /\ Data(c)' /\ Unheard(c)' /\ Foiled(c)' /\ Met(c)'
  <2>0. c \in Processes /\ Served(c) /\ Data(c) /\ (Clean(c)' => Clean(c))
    BY <1>0, <1>5, ProcessKinds
  <2>4. Unheard(c)'
    <3>1. rq["server"] \/ ~Clean("server") => rq'["server"] \/ ~Clean("server")'
      BY <1>2, <1>4, <1>5, ProcessKinds
    <3>. QED
      BY <1>0, <1>1, <3>1, UnheardFrame DEF Untold
  <2>5. Foiled(c)' /\ Met(c)'
    <3>1. CASE c # p
      <4>1. Unmoved(c)
        BY <1>1, <1>4, <1>5, <2>0, <3>1 DEF Unmoved, cm
      <4>. QED
        BY <1>0, <1>1, <4>1, UnmovedFrame
    <3>2. CASE c = p
      <4>1. Untold(c)' = Untold(c)
        BY DEF Untold
      <4>2. ASSUME Untold(c)
            PROVE  ~Contains(cq'[c], "success") /\ max_wc[c] # 0
        BY <1>0, <1>1, <1>2, <1>5, <3>2, <4>2 DEF Foiled
      <4>3. Foiled(c)'
        BY <1>0, <1>4, <1>5, <3>2, <4>1, <4>2 DEF Foiled
      <4>. QED
        BY <1>0, <1>1, <4>3 DEF Met, cm
    <3>. QED
      BY <3>1, <3>2
  <2>1. CASE c # p
    <3>1. ClientSame(c)
      BY <1>1, <1>4, <2>0, <2>1 DEF ClientSame
    <3>. QED
      BY <1>1, <2>0, <2>4, <2>5, <3>1, ClientFrame
  <2>2. CASE c = p /\ Contains(s, "error")
    <3>1. ~Clean(c)' /\ ~Effective(c)'
      BY <1>4, <1>5, <2>2 DEF Effective
    <3>. QED
      BY <1>1, <2>0, <2>4, <2>5, <3>1 DEF Served, Data
  <2>3. CASE c = p /\ ~Contains(s, "error")
    <3>1. Effective(c) /\ rq' = rq
      BY <1>1, <1>2, <2>3 DEF Effective
    <3>. QED
      BY <1>1, <2>0, <2>4, <2>5, <3>1 DEF Served, Data
  <2>. QED
    BY <2>1, <2>2, <2>3
<1>. QED
  BY <1>1, <1>5, <1>6, <1>7, <1>8, <1>9, AdapterRest

LEMMA AdapterStep ==
    ASSUME IInv, NEW p \in Processes, adapter(p)
    PROVE  IInv'
BY SendStep, MemoryStep, RefuseStep, EndStep DEF adapter

----------------------------------------------------------------------------
(* The connection manager.                                                 *)

ServerEvents == {"CONNECT_REQUEST", "ESTABLISHED", "REJECTED", "DISCONNECTED"}
ClientEvents == {"CONNECT_RESPONSE", "REJECTED", "UNREACHABLE", "DISCONNECTED"}
LinkStates == {"none", "connect", "requested", "accepted", "replied", "ready", "up",
               "disconnecting", "down"}

\* The links of the client that was accepted.
Accepted == {"accepted", "replied", "ready", "up", "disconnecting"}

LEMMA ConnectionEffect ==
    ASSUME Told, NEW c \in Clients, connection(c)
    PROVE  /\ \E state \in {"requested", "replied", "up", "down"} :
                /\ link' = [link EXCEPT ![c] = state]
                /\ state \in Accepted => peer = c
           /\ \/ schan' = schan
              \/ \E e \in ServerEvents :
                   schan' = Append(schan, <<e, c>>) /\ Honest(<<e, c>>)
           /\ \/ cchan' = cchan
              \/ \E e \in ClientEvents :
                   /\ cchan' = [cchan EXCEPT ![c] = Append(cchan[c], e)]
                   /\ e = "CONNECT_RESPONSE" => peer = c
<1>0. link[c] \in Accepted => peer = c
  BY DEF Told, Accepted
<1>1. CASE cm_request(c)
  BY <1>1 DEF cm_request, Link, ServerTold, Honest, ServerEvents, Accepted
<1>2. CASE cm_unreachable(c)
  BY <1>2 DEF cm_unreachable, Link, ClientTold, ClientEvents, Accepted
<1>3. CASE cm_reply(c)
  BY <1>0, <1>3 DEF cm_reply, Link, ClientTold, ClientEvents, Accepted
<1>4. CASE cm_reply_lost(c)
  BY <1>0, <1>4 DEF cm_reply_lost, Link, ClientTold, ServerTold, ClientEvents, ServerEvents, Honest,
     Accepted
<1>5. CASE cm_ready(c)
  BY <1>0, <1>5 DEF cm_ready, Link, ServerTold, ServerEvents, Honest, Accepted
<1>6. CASE cm_disconnect(c)
  <2>1. peer = c /\ cpc[c] \in Leaving
    BY <1>6 DEF cm_disconnect, Told, ClientGone, Leaving
  <2>2. Honest(<<"DISCONNECTED", c>>)
    BY <2>1 DEF Honest
  <2>. QED
    BY <1>6, <2>2 DEF cm_disconnect, Link, ClientTold, ServerTold, ClientEvents, ServerEvents, Accepted
<1>7. CASE cm_server_gone(c)
  <2>1. /\ link' = [link EXCEPT ![c] = "down"] /\ schan' = schan
        /\ \/ cchan' = [cchan EXCEPT ![c] = Append(cchan[c], "DISCONNECTED")]
           \/ cchan' = [cchan EXCEPT ![c] = Append(cchan[c], "REJECTED")]
    BY <1>7 DEF cm_server_gone, Link, ClientTold
  <2>. QED
    BY <2>1 DEF ClientEvents, Accepted
<1>. QED
  BY <1>1, <1>2, <1>3, <1>4, <1>5, <1>6, <1>7 DEF connection

\* A new event of the server's that is honest.
LEMMA AppendHonest ==
    ASSUME TypeOK, Told, NEW c \in Clients, NEW e \in ServerEvents, Honest(<<e, c>>),
           schan' = Append(schan, <<e, c>>), UNCHANGED <<peer, cpc>>
    PROVE  /\ schan' \in Seq(ServerEvents \X Clients)
           /\ (\A k \in 1 .. Len(schan) : Honest(schan[k]))'
<1>1. schan \in Seq(ServerEvents \X Clients) /\ <<e, c>> \in ServerEvents \X Clients
  BY SchanTyped DEF ServerEvents
<1>2. /\ schan' \in Seq(ServerEvents \X Clients) /\ Len(schan') = Len(schan) + 1 /\ Len(schan) \in Nat
      /\ \A k \in 1 .. Len(schan) : schan'[k] = schan[k]
      /\ schan'[Len(schan) + 1] = <<e, c>>
  BY <1>1
<1>3. ASSUME NEW k \in 1 .. Len(schan')
      PROVE  Honest(schan[k])'
  <2>1. CASE k \in 1 .. Len(schan)
    BY <1>2, <2>1 DEF Told, Honest
  <2>2. CASE k \notin 1 .. Len(schan)
    <3>1. schan'[k] = <<e, c>>
      BY <1>2, <2>2
    <3>. QED
      BY <3>1 DEF Honest
  <2>. QED
    BY <2>1, <2>2
<1>. QED
  BY <1>2, <1>3

\* A new event of a client's, and the events behind the one it takes.
LEMMA AppendContains ==
    ASSUME NEW q \in Seq(ClientEvents), NEW e \in ClientEvents, NEW x, Contains(Append(q, e), x)
    PROVE  Contains(q, x) \/ x = e
<1>1. /\ Len(Append(q, e)) = Len(q) + 1 /\ Len(q) \in Nat
      /\ \A k \in 1 .. Len(q) : Append(q, e)[k] = q[k]
      /\ Append(q, e)[Len(q) + 1] = e
  OBVIOUS
<1>2. PICK k \in 1 .. Len(Append(q, e)) : Append(q, e)[k] = x
  BY DEF Contains
<1>3. CASE k \in 1 .. Len(q)
  BY <1>1, <1>2, <1>3 DEF Contains
<1>4. CASE k \notin 1 .. Len(q)
  <2>1. k = Len(q) + 1
    BY <1>1, <1>4
  <2>. QED
    BY <1>1, <1>2, <2>1
<1>. QED
  BY <1>3, <1>4

LEMMA TailContains ==
    ASSUME NEW q \in Seq(ClientEvents), q # <<>>
    PROVE  /\ Contains(q, Head(q)) /\ Tail(q) \in Seq(ClientEvents)
           /\ \A x : Contains(Tail(q), x) => Contains(q, x)
<1>1. /\ Len(q) \in Nat \ {0} /\ Len(Tail(q)) = Len(q) - 1 /\ Tail(q) \in Seq(ClientEvents)
      /\ Head(q) = q[1] /\ \A k \in 1 .. Len(q) - 1 : Tail(q)[k] = q[k + 1]
  OBVIOUS
<1>2. Contains(q, Head(q))
  <2>1. 1 \in 1 .. Len(q) /\ q[1] = Head(q)
    BY <1>1
  <2>. QED
    BY <2>1 DEF Contains
<1>3. ASSUME NEW x, Contains(Tail(q), x)
      PROVE  Contains(q, x)
  <2>1. PICK k \in 1 .. Len(Tail(q)) : Tail(q)[k] = x
    BY <1>3 DEF Contains
  <2>2. k + 1 \in 1 .. Len(q) /\ q[k + 1] = x
    BY <1>1, <2>1
  <2>. QED
    BY <2>2 DEF Contains
<1>. QED
  BY <1>1, <1>2, <1>3

LEMMA ConnectionStep ==
    ASSUME IInv, NEW c \in Clients, connection(c)
    PROVE  IInv'
<1>0. /\ TypeOK /\ \A r \in Processes : Proc(r)
      /\ Requests /\ Told
      /\ \A d \in Clients : Served(d) /\ Data(d) /\ Unheard(d) /\ Foiled(d) /\ Met(d)
  BY DEF IInv, Proc
<1>1. UNCHANGED <<sound, users, channel, cq, armed, events, unacked, io, max_wc, wc,
                  client, cpc, dst, unposted, server, spc, peer, buf, nic, rq, flight, landed>>
  BY DEF connection, channel, client, server, nic
<1>2. PICK state \in {"requested", "replied", "up", "down"} :
        link' = [link EXCEPT ![c] = state] /\ (state \in Accepted => peer = c)
  BY <1>0, ConnectionEffect
<1>3. /\ schan' \in Seq(ServerEvents \X Clients)
      /\ (\A k \in 1 .. Len(schan) : Honest(schan[k]))'
  <2>1. CASE schan' = schan
    <3>1. schan \in Seq(ServerEvents \X Clients)
      BY <1>0, SchanTyped DEF ServerEvents
    <3>. QED
      BY <1>0, <1>1, <2>1, <3>1 DEF Told, Honest
  <2>2. CASE schan' # schan
    <3>1. PICK e \in ServerEvents : schan' = Append(schan, <<e, c>>) /\ Honest(<<e, c>>)
      BY <1>0, <2>2, ConnectionEffect
    <3>. QED
      BY <1>0, <1>1, <3>1, AppendHonest
  <2>. QED
    BY <2>1, <2>2
<1>4. /\ cchan' \in [Clients -> Seq(ClientEvents)] /\ \A d \in Clients \ {c} : cchan'[d] = cchan[d]
      /\ Contains(cchan'[c], "CONNECT_RESPONSE") => Contains(cchan[c], "CONNECT_RESPONSE") \/ peer = c
  <2>1. cchan \in [Clients -> Seq(ClientEvents)]
    BY <1>0 DEF TypeOK, ClientEvents
  <2>2. CASE cchan' = cchan
    BY <2>1, <2>2
  <2>3. CASE cchan' # cchan
    <3>1. PICK e \in ClientEvents :
            /\ cchan' = [cchan EXCEPT ![c] = Append(cchan[c], e)]
            /\ e = "CONNECT_RESPONSE" => peer = c
      BY <1>0, <2>3, ConnectionEffect
    <3>2. cchan[c] \in Seq(ClientEvents) /\ Append(cchan[c], e) \in Seq(ClientEvents)
      BY <2>1
    <3>3. cchan'[c] = Append(cchan[c], e)
      BY <2>1, <3>1
    <3>4. Contains(cchan'[c], "CONNECT_RESPONSE") =>
            Contains(cchan[c], "CONNECT_RESPONSE") \/ e = "CONNECT_RESPONSE"
      BY <3>2, <3>3, AppendContains
    <3>. QED
      BY <2>1, <3>1, <3>2, <3>4
  <2>. QED
    BY <2>2, <2>3
<1>5. /\ link \in [Clients -> LinkStates] /\ link' \in [Clients -> LinkStates]
      /\ link'[c] = state /\ \A d \in Clients \ {c} : link'[d] = link[d]
  <2>1. link \in [Clients -> LinkStates]
    BY <1>0 DEF TypeOK, LinkStates
  <2>. QED
    BY <1>2, <2>1 DEF LinkStates
<1>6. ManagerTypeOK'
  BY <1>0, <1>1, <1>3, <1>4, <1>5, TypeParts DEF ManagerTypeOK, ServerEvents, ClientEvents, LinkStates
<1>7. TypeOK'
  BY <1>0, <1>1, <1>6, TypeParts, TypeNext, ChannelFrame, ProgramFrame, DataFrame
<1>8. Told'
  <2>1. ASSUME NEW d \in Clients
        PROVE  /\ link'[d] \in {"accepted", "replied", "ready", "up", "disconnecting"} => peer' = d
               /\ link'[d] = "disconnecting" => cpc'[d] \in Leaving
    <3>1. CASE d = c
      BY <1>1, <1>2, <1>5, <3>1 DEF Accepted
    <3>2. CASE d # c
      BY <1>0, <1>1, <1>5, <3>2 DEF Told
    <3>. QED
      BY <3>1, <3>2
  <2>. QED
    BY <1>0, <1>1, <1>3, <2>1 DEF Told
<1>9. \A r \in Processes : Proc(r)'
  <2>. SUFFICES ASSUME NEW r \in Processes
                PROVE  Proc(r)'
    OBVIOUS
  <2>1. ProcSame(r)
    BY <1>1 DEF ProcSame, Phase, Extra, Untold
  <2>. QED
    BY <1>0, <2>1, ProcFrame
<1>10. Requests'
  BY <1>0, <1>1 DEF Requests, Answered, Requested, Untold
<1>11. ASSUME NEW d \in Clients
       PROVE  Served(d)' /\ Data(d)' /\ Unheard(d)' /\ Foiled(d)' /\ Met(d)'
  <2>1. ClientSame(d)
    BY <1>1, CleanSame DEF ClientSame
  <2>2. Unheard(d)'
    BY <1>0, <1>1, UnheardFrame, CleanSame DEF Untold
  <2>3. Foiled(d)'
    BY <1>0, <1>1 DEF Foiled, Untold
  <2>4. Met(d)'
    <3>1. CASE d = c
      BY <1>0, <1>1, <1>4, <3>1 DEF Met
    <3>2. CASE d # c
      BY <1>0, <1>1, <1>4, <3>2 DEF Met
    <3>. QED
      BY <3>1, <3>2
  <2>. QED
    BY <1>0, <1>1, <2>1, <2>2, <2>3, <2>4, ClientFrame
<1>. QED
  BY <1>7, <1>8, <1>9, <1>10, <1>11 DEF IInv, Proc

----------------------------------------------------------------------------
(* The clients.                                                            *)

\* A call that has succeeded has left nothing outstanding, but the receive of a
\* client that has gone on without sending its metadata and has waited for nothing.
LEMMA Succeeded ==
    ASSUME TypeOK, NEW p \in Processes, Proc(p), Foiled(p), Phase(p) = "waiting", io[p] = "success"
    PROVE  /\ cq[p] = <<>> /\ (rq[p] <=> Untold(p)) /\ flight[p] = "none" /\ unacked[p] = 0 /\ Clean(p)
           /\ events[p] = 0 => armed[p]
<1>1. /\ Len(wc[p]) = max_wc[p] /\ max_wc[p] + Extra(p) = Outstanding(p) /\ unacked[p] = 0
      /\ ~Contains(wc[p], "error") /\ (events[p] = 0 => armed[p])
  BY DEF Proc, Balanced, Called, Woken
<1>2. cq[p] \in Seq(Statuses) /\ wc[p] \in Seq(Statuses) /\ rq[p] \in BOOLEAN
  BY Types
<1>3. Untold(p) => rq[p] /\ flight[p] = "none"
  <2>1. Untold(p) => wc[p] = <<>>
    BY <1>1, <1>2, NoneLeft DEF Foiled
  <2>. QED
    BY <1>1, <2>1 DEF Foiled
<1>. DEFINE l == Len(cq[p])
            b == Len(wc[p])
            r == Receives(p)
            f == Sends(p)
            e == Extra(p)
<1>4. l \in Nat /\ b \in Nat /\ r \in {0, 1} /\ f \in {0, 1} /\ b + e = l + b + r + f
  BY <1>1, <1>2 DEF Outstanding, Receives, Sends
<1>5. (e = 0 /\ ~Untold(p)) \/ (e = 1 /\ Untold(p) /\ r = 1 /\ f = 0)
  BY <1>3 DEF Extra, Receives, Sends
<1>6. l = 0 /\ r = e /\ f = 0
  <2>. HIDE DEF l, b, r, f, e
  <2>. QED
    BY <1>4, <1>5
<1>7. cq[p] = <<>>
  BY <1>2, <1>6
<1>8. (rq[p] <=> Untold(p)) /\ flight[p] = "none"
  BY <1>2, <1>6 DEF Receives, Sends, Extra
<1>9. Clean(p)
  BY <1>1, <1>7, ContainsOne DEF Clean
<1>. QED
  BY <1>1, <1>7, <1>8, <1>9

\* What the invariant asks of a step of client c.
LEMMA ClientRest ==
    ASSUME IInv, NEW c \in Clients, UNCHANGED <<spc, peer, buf, schan>>, TypeOK',
           \A q \in Processes \ {c} :
             /\ cq'[q] = cq[q] /\ armed'[q] = armed[q] /\ events'[q] = events[q]
             /\ unacked'[q] = unacked[q] /\ io'[q] = io[q] /\ max_wc'[q] = max_wc[q]
             /\ wc'[q] = wc[q]
             /\ rq'[q] = rq[q] /\ flight'[q] = flight[q] /\ landed'[q] = landed[q],
           \A d \in Clients \ {c} : /\ cpc'[d] = cpc[d] /\ unposted'[d] = unposted[d]
                                   /\ dst'[d] = dst[d] /\ link'[d] = link[d] /\ cchan'[d] = cchan[d],
           cpc[c] \in Leaving => cpc'[c] \in Leaving,
           link'[c] \in Accepted => peer = c,
           link'[c] = "disconnecting" => cpc'[c] \in Leaving,
           (cpc[c] \in Early \/ Untold(c))' => cpc[c] \in Early \/ Untold(c),
           Proc(c)', Requested(c)', Served(c)', Data(c)', Foiled(c)', Met(c)'
    PROVE  IInv'
<1>0. /\ TypeOK /\ \A r \in Processes : Proc(r)
      /\ Requests /\ Told
      /\ \A d \in Clients : Served(d) /\ Data(d) /\ Unheard(d) /\ Foiled(d) /\ Met(d)
  BY DEF IInv, Proc
<1>1. ASSUME NEW q \in Processes
      PROVE  Proc(q)'
  <2>1. CASE q = c
    BY <2>1
  <2>2. CASE q # c
    <3>1. q # "server" => q \in Clients \ {c}
      BY <2>2 DEF Processes
    <3>2. Phase(q)' = Phase(q) /\ Extra(q)' = Extra(q)
      BY <3>1, PlaceFrame
    <3>3. ProcSame(q)
      BY <2>2, <3>2 DEF ProcSame
    <3>. QED
      BY <1>0, <3>3, ProcFrame
  <2>. QED
    BY <2>1, <2>2
<1>2. Requests'
  <2>1. Answered'
    BY <1>0, ProcessKinds DEF Requests, Answered
  <2>2. ASSUME NEW d \in Clients
        PROVE  Requested(d)'
    <3>1. CASE d = c
      BY <3>1
    <3>2. CASE d # c
      BY <1>0, <3>2, ProcessKinds DEF Requests, Requested, Untold
    <3>. QED
      BY <3>1, <3>2
  <2>. QED
    BY <2>1, <2>2 DEF Requests
<1>3. \A d \in Clients : cpc[d] \in Leaving => cpc'[d] \in Leaving
  OBVIOUS
<1>4. Told'
  <2>1. ASSUME NEW d \in Clients
        PROVE  /\ link'[d] \in {"accepted", "replied", "ready", "up", "disconnecting"} => peer' = d
               /\ link'[d] = "disconnecting" => cpc'[d] \in Leaving
    <3>1. CASE d = c
      BY <3>1 DEF Accepted
    <3>2. CASE d # c
      BY <1>0, <3>2 DEF Told
    <3>. QED
      BY <3>1, <3>2
  <2>2. (\A k \in 1 .. Len(schan) : Honest(schan[k]))'
    BY <1>0, <1>3, SchanTyped DEF Told, Honest
  <2>. QED
    BY <1>0, <2>1, <2>2 DEF Told
<1>5. ASSUME NEW d \in Clients
      PROVE  Served(d)' /\ Data(d)' /\ Unheard(d)' /\ Foiled(d)' /\ Met(d)'
  <2>3. Unheard(d)'
    <3>1. /\ rq'["server"] = rq["server"] /\ Clean("server")' = Clean("server")
      BY ProcessKinds, CleanSame
    <3>2. (cpc[d] \in Early \/ Untold(d))' => cpc[d] \in Early \/ Untold(d)
      BY DEF Untold
    <3>. QED
      BY <1>0, <3>1, <3>2, UnheardFrame
  <2>1. CASE d = c
    BY <2>1, <2>3
  <2>2. CASE d # c
    <3>1. ClientSame(d)
      BY <2>2, ProcessKinds, CleanSame DEF ClientSame
    <3>2. Unmoved(d)
      BY <2>2, ProcessKinds DEF Unmoved
    <3>. QED
      BY <1>0, <2>3, <3>1, <3>2, ClientFrame, UnmovedFrame
  <2>. QED
    BY <2>1, <2>2
<1>. QED
  BY <1>1, <1>2, <1>4, <1>5 DEF IInv, Proc

\* A client that goes on, ends or fails without a call of the channel's.
LEMMA PlainStep ==
    ASSUME IInv, NEW c \in Clients,
           NEW pc \in {"exchange", "failed", "disconnecting", "destroy_cq", "done"}, ClientGoto(c, pc),
           NEW state \in LinkStates, link' = [link EXCEPT ![c] = state],
           cchan' \in [Clients -> Seq(ClientEvents)],
           UNCHANGED <<sound, channel, users, dst, unposted, server, schan, buf, nic>>,
           state \in Accepted => peer = c,
           state = "disconnecting" => pc \in Leaving,
           cpc[c] \in Leaving => pc \in Leaving,
           pc = "exchange" => cpc[c] = "connecting",
           pc # "exchange" => io[c] \in {"idle", "success", "error"},
           pc \in Leaving \ {"failed"} => flight[c] = "none" /\ (unposted[c] = {} => dst[c] = "written"),
           Contains(cchan'[c], "CONNECT_RESPONSE") \/ pc = "exchange" => peer = c,
           \A d \in Clients \ {c} : cchan'[d] = cchan[d]
    PROVE  IInv'
<1>0. /\ TypeOK /\ Proc(c) /\ Requests /\ Told /\ Served(c) /\ Data(c) /\ Foiled(c) /\ Met(c)
      /\ c \in Processes /\ c # "server"
  BY ProcessKinds DEF IInv, Proc
<1>1. UNCHANGED <<sound, users, cq, armed, events, unacked, io, max_wc, wc, dst, unposted, spc, peer, schan, buf,
                  rq, flight, landed>>
  BY DEF channel, server, nic
<1>2. /\ cpc' = [cpc EXCEPT ![c] = pc] /\ cpc'[c] = pc /\ \A d \in Clients \ {c} : cpc'[d] = cpc[d]
      /\ cpc' \in [Clients -> {"init", "connecting", "exchange", "exchanging", "writing", "reading",
                               "disconnecting", "destroy_cq", "done", "failed"}]
  BY <1>0, Types DEF ClientGoto
<1>3. /\ link' \in [Clients -> LinkStates] /\ link'[c] = state
      /\ \A d \in Clients \ {c} : link'[d] = link[d]
  <2>1. link \in [Clients -> LinkStates]
    BY <1>0 DEF TypeOK, LinkStates
  <2>. QED
    BY <2>1
<1>4. TypeOK'
  <2>1. ManagerTypeOK'
    BY <1>0, <1>1, <1>3, TypeParts DEF ManagerTypeOK, LinkStates, ClientEvents
  <2>2. ProgramTypeOK'
    BY <1>0, <1>1, <1>2, TypeParts DEF ProgramTypeOK
  <2>. QED
    BY <1>0, <1>1, <2>1, <2>2, TypeParts, TypeNext, ChannelFrame, DataFrame
<1>5. /\ Phase(c)' = IF pc = "exchange" THEN "ready" ELSE "over"
      /\ pc = "exchange" => Phase(c) = "ready"
  BY <1>0, <1>2 DEF Phase
<1>6. Outstanding(c)' = Outstanding(c)
  BY <1>1 DEF Outstanding, Receives, Sends
<1>7. Proc(c)'
  <2>1. Balanced(c)'
    BY <1>0, <1>1, <1>5, <1>6 DEF Proc, Balanced
  <2>2. Called(c)' /\ Woken(c)'
    BY <1>0, <1>1, <1>5 DEF Proc, Called, Woken
  <2>. QED
    BY <2>1, <2>2 DEF Proc
<1>8. Requested(c)'
  BY <1>0, <1>1, <1>2 DEF Requests, Requested, Early
<1>10. Foiled(c)' /\ Met(c)'
  BY <1>0, <1>1, <1>2 DEF Foiled, Met, Untold
<1>11. (cpc[c] \in Early \/ Untold(c))' => cpc[c] \in Early \/ Untold(c)
  BY <1>1, <1>2 DEF Early, Untold
<1>9. Served(c)' /\ Data(c)'
  <2>1. Clean(c)' = Clean(c)
    BY <1>1, CleanSame
  <2>2. Served(c)'
    BY <1>0, <1>1, <1>2, <2>1 DEF Served, Leaving
  <2>3. Data(c)'
    BY <1>1, <1>2 DEF Data
  <2>. QED
    BY <2>2, <2>3
<1>. QED
  BY <1>1, <1>2, <1>3, <1>4, <1>7, <1>8, <1>9, <1>10, <1>11, ClientRest

\* process_work_completion_events is called.
LEMMA AwaitEffect ==
    ASSUME TypeOK, NEW p \in Processes, NEW n \in {1, 2}, Await(p, n), UNCHANGED sound
    PROVE  /\ ChannelTypeOK' /\ UNCHANGED <<cq, armed, events, unacked>>
           /\ io'[p] = "event" /\ max_wc'[p] = n /\ wc'[p] = <<>>
           /\ \A q \in Processes \ {p} : io'[q] = io[q] /\ max_wc'[q] = max_wc[q] /\ wc'[q] = wc[q]
<1>1. /\ io' = [io EXCEPT ![p] = "event"] /\ max_wc' = [max_wc EXCEPT ![p] = n]
      /\ wc' = [wc EXCEPT ![p] = <<>>] /\ UNCHANGED <<cq, armed, events, unacked>>
  BY DEF Await
<1>2. /\ io' \in [Processes -> {"idle", "event", "arm", "poll", "check", "success", "error"}]
      /\ max_wc' \in [Processes -> 0 .. 2] /\ wc' \in [Processes -> Seq(Statuses)]
      /\ io'[p] = "event" /\ max_wc'[p] = n /\ wc'[p] = <<>> /\ Len(wc'[p]) = 0
      /\ \A q \in Processes \ {p} : io'[q] = io[q] /\ max_wc'[q] = max_wc[q] /\ wc'[q] = wc[q]
  <2>1. <<>> \in Seq(Statuses) /\ Len(<<>>) = 0
    OBVIOUS
  <2>. QED
    BY <1>1, <2>1, Types
<1>3. \A q \in Processes : Len(wc'[q]) <= max_wc'[q]
  <2>1. \A q \in Processes : Len(wc[q]) <= max_wc[q]
    BY Types
  <2>2. 0 <= n
    OBVIOUS
  <2>3. ASSUME NEW q \in Processes
        PROVE  Len(wc'[q]) <= max_wc'[q]
    <3>1. CASE q = p
      BY <1>2, <2>2, <3>1
    <3>2. CASE q # p
      BY <1>2, <2>1, <3>2
    <3>. QED
      BY <3>1, <3>2
  <2>. QED
    BY <2>3
<1>4. ChannelTypeOK'
  BY <1>1, <1>2, <1>3 DEF TypeOK, ChannelTypeOK
<1>. QED
  BY <1>1, <1>2, <1>4

\* A process that calls for all that is outstanding and the request it has posted,
\* if any.
LEMMA AwaitStep ==
    ASSUME TypeOK, NEW p \in Processes, Proc(p), NEW n \in {1, 2}, Await(p, n), UNCHANGED sound,
           Phase(p) \in {"ready", "waiting"}, io[p] \in {"idle", "success"},
           Phase(p)' = "waiting", Extra(p)' \in {0, 1},
           Len(cq[p]) + Receives(p)' + Sends(p)' = n + Extra(p)'
    PROVE  Proc(p)'
<1>1. /\ UNCHANGED <<cq, armed, events, unacked>>
      /\ io'[p] = "event" /\ max_wc'[p] = n /\ wc'[p] = <<>> /\ Len(wc'[p]) = 0
  BY AwaitEffect
<1>2. Outstanding(p)' = n + Extra(p)'
  <2>. DEFINE a == Len(cq[p])
              r == Receives(p)'
              f == Sends(p)'
              e == Extra(p)'
  <2>1. a + r + f = n + e
    OBVIOUS
  <2>2. a \in Nat
    BY Types
  <2>3. r \in {0, 1} /\ f \in {0, 1}
    BY DEF Receives, Sends
  <2>4. Outstanding(p)' = a + 0 + r + f
    BY <1>1 DEF Outstanding
  <2>. HIDE DEF a, r, f, e
  <2>. QED
    BY <2>1, <2>2, <2>3, <2>4 DEF e
<1>3. Balanced(p)'
  BY <1>1, <1>2 DEF Balanced
<1>4. Called(p)'
  BY <1>1 DEF Proc, Called
<1>5. Woken(p)'
  BY <1>1 DEF Proc, Woken
<1>. QED
  BY <1>3, <1>4, <1>5 DEF Proc

\* A client posts a request and waits.
LEMMA RequestStep ==
    ASSUME IInv, NEW c \in Clients, NEW op, NEW n, NEW pc, Request(c, op, n, pc),
           \/ op = "SEND" /\ n = 2 /\ pc = "exchanging"
           \/ op = "WRITE" /\ n = 1 /\ pc = "writing"
           \/ op = "READ" /\ n = 1 /\ pc = "reading",
           cpc[c] \in {"exchange", "exchanging", "writing"},
           Phase(c) \in {"ready", "waiting"}, io[c] \in {"idle", "success"}, flight[c] = "none",
           Len(cq[c]) + Receives(c) + 1 = n + Extra(c), Clean(c)' => Clean(c),
           pc \in {"writing", "reading"} /\ ~Untold(c) => ~rq[c],
           pc = "reading" /\ unposted[c] = {} => buf = "written",
           pc = "exchanging" => ~Untold(c)
    PROVE  IInv'
<1>0. /\ TypeOK /\ Proc(c) /\ Requests /\ Told /\ Served(c) /\ Data(c) /\ Foiled(c) /\ Met(c)
      /\ c \in Processes /\ c # "server" /\ cpc[c] \notin Leaving \cup {"init"} /\ peer = c
  BY ProcessKinds DEF IInv, Proc, Leaving, Met
<1>1. /\ UNCHANGED <<sound, users, dst, unposted, spc, peer, cm, cchan, schan, link, buf, rq>>
      /\ flight' = [flight EXCEPT ![c] = op] /\ landed' = [landed EXCEPT ![c] = FALSE]
      /\ cpc' = [cpc EXCEPT ![c] = pc] /\ Await(c, n)
  BY DEF Request, PostSend, ClientGoto, server, cm
<1>2. /\ cpc'[c] = pc /\ \A d \in Clients \ {c} : cpc'[d] = cpc[d]
      /\ cpc' \in [Clients -> {"init", "connecting", "exchange", "exchanging", "writing", "reading",
                               "disconnecting", "destroy_cq", "done", "failed"}]
  BY <1>0, <1>1, Types
<1>3. /\ flight'[c] = op /\ \A q \in Processes \ {c} : flight'[q] = flight[q] /\ landed'[q] = landed[q]
      /\ landed'[c] = FALSE
      /\ flight' \in [Processes -> {"none", "SEND", "WRITE", "READ"}] /\ landed' \in [Processes -> BOOLEAN]
  BY <1>0, <1>1, Types
<1>4. n \in {1, 2} /\ op # "none" /\ pc \in {"exchanging", "writing", "reading"}
  OBVIOUS
<1>5. /\ ChannelTypeOK' /\ UNCHANGED <<cq, armed, events, unacked>> /\ max_wc'[c] = n /\ wc'[c] = <<>>
      /\ \A q \in Processes \ {c} : io'[q] = io[q] /\ max_wc'[q] = max_wc[q] /\ wc'[q] = wc[q]
  BY <1>0, <1>1, <1>4, AwaitEffect
<1>6. TypeOK'
  <2>1. ProgramTypeOK'
    BY <1>0, <1>1, <1>2, TypeParts DEF ProgramTypeOK
  <2>2. DataTypeOK'
    BY <1>0, <1>1, <1>3, TypeParts DEF DataTypeOK
  <2>. QED
    BY <1>0, <1>1, <1>5, <2>1, <2>2, TypeParts, TypeNext, ManagerFrame
<1>7. Proc(c)'
  <2>1. Phase(c)' = "waiting" /\ Extra(c)' = Extra(c) /\ Extra(c) \in {0, 1}
    BY <1>0, <1>1, <1>2 DEF Phase, Extra, Untold
  <2>2. Receives(c)' = Receives(c) /\ Sends(c)' = 1
    BY <1>1, <1>3, <1>4 DEF Receives, Sends
  <2>. QED
    BY <1>0, <1>1, <1>4, <2>1, <2>2, AwaitStep
<1>8. Requested(c)'
  BY <1>1, <1>2, <1>3, <1>5 DEF Requested, Leaving, Early, Untold
<1>9. Served(c)'
  BY <1>0, <1>1, <1>2, <1>4 DEF Served, Leaving
<1>10. Data(c)'
  <2>1. ~Effective(c)'
    BY <1>3, <1>4 DEF Effective
  <2>. QED
    BY <1>1, <1>2, <1>4, <2>1 DEF Data, Leaving
<1>11. link[c] \in Accepted => peer = c
  BY <1>0 DEF Told, Accepted
<1>12. link[c] # "disconnecting" /\ cpc[c] \notin Leaving
  BY <1>0 DEF Told
<1>13. Foiled(c)'
  <2>1. ~Contains(wc'[c], "success")
    BY <1>5, ContainsOne
  <2>2. Untold(c) => op # "SEND"
    OBVIOUS
  <2>. QED
    BY <1>0, <1>1, <1>3, <1>4, <1>5, <2>1, <2>2 DEF Foiled, Untold
<1>14. Met(c)'
  BY <1>0, <1>1 DEF Met
<1>15. (cpc[c] \in Early \/ Untold(c))' => cpc[c] \in Early \/ Untold(c)
  BY <1>1, <1>2, <1>4 DEF Early, Untold
<1>16. \A q \in Processes \ {c} :
          /\ cq'[q] = cq[q] /\ armed'[q] = armed[q] /\ events'[q] = events[q]
          /\ unacked'[q] = unacked[q] /\ io'[q] = io[q] /\ max_wc'[q] = max_wc[q]
          /\ wc'[q] = wc[q] /\ rq'[q] = rq[q] /\ flight'[q] = flight[q] /\ landed'[q] = landed[q]
  BY <1>1, <1>3, <1>5
<1>17. \A d \in Clients \ {c} : /\ cpc'[d] = cpc[d] /\ unposted'[d] = unposted[d]
                              /\ dst'[d] = dst[d] /\ link'[d] = link[d] /\ cchan'[d] = cchan[d]
  BY <1>1, <1>2
<1>18. UNCHANGED <<spc, peer, buf, schan>> /\ link' = link
  BY <1>1
<1>. QED
  BY <1>6, <1>7, <1>8, <1>9, <1>10, <1>11, <1>12, <1>13, <1>14, <1>15, <1>16, <1>17, <1>18, ClientRest

LEMMA ExchangeStep ==
    ASSUME IInv, NEW c \in Clients, exchange_metadata_with_server(c)
    PROVE  IInv'
<1>0. /\ TypeOK /\ Proc(c) /\ c \in Processes /\ c # "server"
  BY ProcessKinds DEF IInv, Proc
<1>1. cpc[c] = "exchange" /\ Request(c, "SEND", 2, "exchanging")
  BY DEF exchange_metadata_with_server
<1>2. /\ Phase(c) = "ready" /\ io[c] = "idle" /\ max_wc[c] = 0 /\ flight[c] = "none"
      /\ Outstanding(c) = 1
  BY <1>0, <1>1 DEF Phase, Proc, Balanced
<1>3. Len(wc[c]) = 0 /\ Len(cq[c]) \in Nat /\ wc[c] \in Seq(Statuses)
  BY <1>0, <1>2, Types
<1>4. Len(cq[c]) + Receives(c) + 1 = 2
  <2>. DEFINE a == Len(cq[c])
              r == Receives(c)
  <2>1. a \in Nat /\ r \in {0, 1} /\ a + 0 + r + 0 = 1
    BY <1>2, <1>3 DEF Outstanding, Receives, Sends
  <2>. HIDE DEF a, r
  <2>2. a + r + 1 = 2
    BY <2>1
  <2>. QED
    BY <2>2 DEF a, r
<1>5. Clean(c)' => Clean(c)
  <2>1. wc[c] = <<>>
    BY <1>3
  <2>2. cq' = cq
    BY <1>1 DEF Request, Await
  <2>. QED
    BY <2>1, <2>2, ContainsOne DEF Clean
<1>6. cpc[c] \in {"exchange", "exchanging", "writing"} /\ ~Untold(c) /\ Extra(c) = 0
  BY <1>1 DEF IInv, Requests, Requested, Early, Untold, Extra
<1>7. PICK op, n, pc : op = "SEND" /\ n = 2 /\ pc = "exchanging"
  OBVIOUS
<1>8. Request(c, op, n, pc) /\ Len(cq[c]) + Receives(c) + 1 = n + Extra(c)
  BY <1>1, <1>4, <1>6, <1>7
<1>. QED
  BY <1>2, <1>5, <1>6, <1>7, <1>8, RequestStep

LEMMA WriteStep ==
    ASSUME IInv, NEW c \in Clients, send_write(c) \/ send_read(c)
    PROVE  IInv'
<1>0. /\ TypeOK /\ Proc(c) /\ Data(c) /\ Foiled(c) /\ c \in Processes /\ c # "server"
  BY ProcessKinds DEF IInv, Proc
<1>1. io[c] = "success" /\ Phase(c) = "waiting" /\ cpc[c] \in {"exchange", "exchanging", "writing"}
  BY <1>0 DEF send_write, send_read, Returned, Phase
<1>2. cq[c] = <<>> /\ (rq[c] <=> Untold(c)) /\ flight[c] = "none" /\ Clean(c)
  BY <1>0, <1>1, Succeeded
<1>3. /\ Len(cq[c]) + Receives(c) + 1 = 1 + Extra(c) /\ (~Untold(c) => ~rq[c])
      /\ Phase(c) \in {"ready", "waiting"} /\ io[c] \in {"idle", "success"}
  BY <1>1, <1>2 DEF Receives, Extra
<1>4. CASE send_write(c)
  <2>1. Request(c, "WRITE", 1, "writing")
    BY <1>4 DEF send_write
  <2>. QED
    BY <1>1, <1>2, <1>3, <2>1, RequestStep
<1>5. CASE send_read(c)
  <2>1. Request(c, "READ", 1, "reading")
    BY <1>5 DEF send_read
  <2>2. unposted[c] = {} => buf = "written"
    BY <1>0, <1>2, <1>5 DEF send_read, Data, Effective
  <2>3. PICK op, n, pc : op = "READ" /\ n = 1 /\ pc = "reading"
    OBVIOUS
  <2>4. /\ Request(c, op, n, pc) /\ Len(cq[c]) + Receives(c) + 1 = n + Extra(c)
        /\ pc \in {"writing", "reading"} /\ ~Untold(c) => ~rq[c]
        /\ pc = "reading" /\ unposted[c] = {} => buf = "written"
        /\ pc # "exchanging" /\ (Clean(c)' => Clean(c))
    BY <1>2, <1>3, <2>1, <2>2, <2>3
  <2>. QED
    BY <1>1, <1>2, <1>3, <2>3, <2>4, RequestStep
<1>. QED
  BY <1>4, <1>5

LEMMA InitStep ==
    ASSUME IInv, NEW c \in Clients, client_init(c)
    PROVE  IInv'
<1>0. /\ TypeOK /\ Proc(c) /\ Requests /\ c \in Processes /\ c # "server"
  BY ProcessKinds DEF IInv, Proc
<1>1. /\ cpc[c] = "init" /\ UNCHANGED <<sound, users, dst, unposted, spc, peer, cchan, schan, buf, flight, landed,
                                        cq, events, unacked, io, max_wc, wc>>
      /\ armed' = [armed EXCEPT ![c] = TRUE] /\ rq' = [rq EXCEPT ![c] = TRUE]
      /\ link' = [link EXCEPT ![c] = "connect"] /\ cpc' = [cpc EXCEPT ![c] = "connecting"]
  BY DEF client_init, CreateCq, PostRecv, Link, ClientGoto, server
<1>2. /\ cpc'[c] = "connecting" /\ \A d \in Clients \ {c} : cpc'[d] = cpc[d]
      /\ cpc' \in [Clients -> {"init", "connecting", "exchange", "exchanging", "writing", "reading",
                               "disconnecting", "destroy_cq", "done", "failed"}]
  BY <1>0, <1>1, Types
<1>3. /\ rq'[c] /\ armed'[c]
      /\ \A q \in Processes \ {c} : rq'[q] = rq[q] /\ armed'[q] = armed[q]
      /\ rq' \in [Processes -> BOOLEAN] /\ armed' \in [Processes -> BOOLEAN]
  BY <1>0, <1>1, Types
<1>4. /\ link' \in [Clients -> LinkStates] /\ link'[c] = "connect"
      /\ \A d \in Clients \ {c} : link'[d] = link[d]
  <2>1. link \in [Clients -> LinkStates]
    BY <1>0 DEF TypeOK, LinkStates
  <2>. QED
    BY <1>1, <2>1 DEF LinkStates
<1>5. TypeOK'
  <2>1. ChannelTypeOK'
    BY <1>0, <1>1, <1>3 DEF TypeOK, ChannelTypeOK
  <2>2. ManagerTypeOK'
    BY <1>0, <1>1, <1>4, TypeParts DEF ManagerTypeOK, LinkStates
  <2>3. ProgramTypeOK'
    BY <1>0, <1>1, <1>2, TypeParts DEF ProgramTypeOK
  <2>4. DataTypeOK'
    BY <1>0, <1>1, <1>3, TypeParts DEF DataTypeOK
  <2>. QED
    BY <2>1, <2>2, <2>3, <2>4, TypeNext
<1>6. Proc(c)'
  <2>1. Phase(c) = "new" /\ Phase(c)' = "ready"
    BY <1>0, <1>1, <1>2 DEF Phase
  <2>2. /\ io[c] = "idle" /\ max_wc[c] = 0 /\ cq[c] = <<>> /\ flight[c] = "none" /\ unacked[c] = 0
    BY <1>0, <2>1 DEF Proc, Balanced, Called
  <2>3. Len(wc[c]) = 0 /\ Len(cq[c]) = 0
    <3>1. /\ Len(wc[c]) \in Nat /\ Len(wc[c]) <= max_wc[c]
      BY <1>0, Types
    <3>. QED
      BY <2>2, <3>1
  <2>4. Outstanding(c)' = 1
    BY <1>1, <1>3, <2>2, <2>3 DEF Outstanding, Receives, Sends
  <2>5. Balanced(c)'
    BY <1>1, <2>1, <2>2, <2>4 DEF Balanced
  <2>6. Called(c)' /\ Woken(c)'
    BY <1>1, <1>3, <2>1, <2>2 DEF Called, Woken
  <2>. QED
    BY <2>5, <2>6 DEF Proc
<1>9. unposted'[c] = {} /\ ~Untold(c) /\ ~Untold(c)'
  BY <1>0, <1>1 DEF Requests, Requested, Early, Untold
<1>7. Requested(c)' /\ Served(c)' /\ Data(c)' /\ Foiled(c)'
  BY <1>2, <1>3, <1>9 DEF Requested, Served, Data, Foiled, Leaving
<1>10. Met(c)' /\ cpc[c] \in Early
  BY <1>1, <1>2 DEF IInv, Met, Early
<1>8. cpc[c] \notin Leaving /\ "connect" \notin Accepted
  BY <1>1 DEF Leaving, Accepted
<1>. QED
  BY <1>1, <1>2, <1>3, <1>4, <1>5, <1>6, <1>7, <1>8, <1>9, <1>10, ClientRest

LEMMA EstablishedStep ==
    ASSUME IInv, NEW c \in Clients, client_established(c)
    PROVE  IInv'
<1>0. /\ TypeOK /\ Proc(c) /\ Told /\ c \in Processes /\ c # "server"
      /\ link \in [Clients -> LinkStates] /\ cchan \in [Clients -> Seq(ClientEvents)]
  BY ProcessKinds DEF IInv, Proc, TypeOK, LinkStates, ClientEvents
<1>1. PICK pc \in {"exchange", "failed"} : ClientGoto(c, pc)
  BY DEF client_established
<1>2. PICK state : state = IF link[c] = "replied" THEN "ready" ELSE link[c]
  OBVIOUS
<1>3. state \in LinkStates /\ (state \in Accepted => peer = c) /\ state # "disconnecting"
  <2>1. cpc[c] = "connecting" /\ cpc[c] \notin Leaving
    BY DEF client_established, Leaving
  <2>2. link[c] # "disconnecting" /\ (link[c] \in Accepted => peer = c)
    BY <1>0, <2>1 DEF Told, Accepted
  <2>. QED
    BY <1>0, <1>2, <2>2 DEF LinkStates, Accepted
<1>4. /\ cchan' \in [Clients -> Seq(ClientEvents)] /\ \A d \in Clients \ {c} : cchan'[d] = cchan[d]
      /\ Contains(cchan'[c], "CONNECT_RESPONSE") \/ pc = "exchange" => peer = c
  <2>1. cchan[c] # <<>> /\ cchan' = [cchan EXCEPT ![c] = Tail(cchan[c])]
    BY DEF client_established
  <2>2. PICK q : q = cchan[c]
    OBVIOUS
  <2>3. q \in Seq(ClientEvents) /\ q # <<>>
    BY <1>0, <2>1, <2>2
  <2>4. /\ Contains(q, Head(q)) /\ Tail(q) \in Seq(ClientEvents)
        /\ \A x : Contains(Tail(q), x) => Contains(q, x)
    BY <2>3, TailContains
  <2>5. pc = "exchange" => Head(q) = "CONNECT_RESPONSE"
    BY <1>0, <1>1, <2>2, Types DEF client_established, ClientGoto
  <2>6. Contains(q, "CONNECT_RESPONSE") => peer = c
    BY <2>2 DEF IInv, Met
  <2>. QED
    BY <1>0, <2>1, <2>2, <2>4, <2>5, <2>6
<1>5. /\ cpc[c] = "connecting" /\ cpc[c] \notin Leaving
      /\ UNCHANGED <<sound, channel, users, dst, unposted, server, schan, buf, nic>>
  BY DEF client_established, Leaving
<1>6. io[c] = "idle"
  BY <1>0, <1>5 DEF Phase, Proc, Balanced
<1>7. link' = [link EXCEPT ![c] = state]
  BY <1>2 DEF client_established
<1>8. pc \in {"exchange", "failed", "disconnecting", "destroy_cq", "done"} /\ pc \notin Leaving \ {"failed"}
  BY DEF Leaving
<1>. QED
  BY <1>1, <1>3, <1>4, <1>5, <1>6, <1>7, <1>8, PlainStep

LEMMA ClientFailsStep ==
    ASSUME IInv, NEW c \in Clients, client_init_fails(c) \/ client_fails(c)
    PROVE  IInv'
<1>0. /\ TypeOK /\ Proc(c) /\ Told /\ c \in Processes /\ c # "server"
      /\ link \in [Clients -> LinkStates] /\ cchan \in [Clients -> Seq(ClientEvents)]
  BY ProcessKinds DEF IInv, Proc, TypeOK, LinkStates, ClientEvents
<1>1. /\ ClientGoto(c, "failed") /\ UNCHANGED <<sound, channel, users, dst, unposted, server, cm, buf, nic>>
      /\ cpc[c] \in {"init", "exchange"} \/ io[c] \in {"success", "error"}
  BY DEF client_init_fails, client_fails, Returned
<1>2. io[c] \in {"idle", "success", "error"}
  BY <1>0, <1>1 DEF Phase, Proc, Balanced
<1>3. PICK state \in LinkStates : state = link[c]
  BY <1>0
<1>4. /\ link' = [link EXCEPT ![c] = state] /\ UNCHANGED <<schan, cchan>>
      /\ state \in Accepted => peer = c
  BY <1>0, <1>1, <1>3 DEF cm, Told, Accepted
<1>5. PICK pc : pc = "failed"
  OBVIOUS
<1>6. ClientGoto(c, pc) /\ pc \in Leaving
  BY <1>1, <1>5 DEF Leaving
<1>7. Contains(cchan'[c], "CONNECT_RESPONSE") => peer = c
  BY <1>4 DEF IInv, Met
<1>. QED
  BY <1>0, <1>1, <1>2, <1>4, <1>5, <1>6, <1>7, PlainStep

LEMMA DisconnectStep ==
    ASSUME IInv, NEW c \in Clients, client_disconnect(c)
    PROVE  IInv'
<1>0. /\ TypeOK /\ Proc(c) /\ Data(c) /\ Foiled(c) /\ Met(c) /\ c \in Processes /\ c # "server"
      /\ link \in [Clients -> LinkStates] /\ cchan \in [Clients -> Seq(ClientEvents)]
  BY ProcessKinds DEF IInv, Proc, TypeOK, LinkStates, ClientEvents
<1>1. /\ cpc[c] = "reading" /\ io[c] = "success" /\ ClientGoto(c, "disconnecting")
      /\ UNCHANGED <<sound, channel, users, dst, unposted, server, cchan, schan, buf, nic>>
  BY DEF client_disconnect, Returned
<1>2. PICK state \in LinkStates : link' = [link EXCEPT ![c] = state] /\ state \in {"down", "disconnecting"}
  BY DEF client_disconnect, LinkStates
<1>3. flight[c] = "none" /\ Clean(c)
  BY <1>0, <1>1, Succeeded DEF Phase
<1>4. (unposted[c] = {} => dst[c] = "written") /\ peer = c
  BY <1>0, <1>1, <1>3 DEF Data, Met, Effective
<1>5. PICK pc : pc = "disconnecting"
  OBVIOUS
<1>6. ClientGoto(c, pc) /\ pc \in Leaving
  BY <1>1, <1>5 DEF Leaving
<1>. QED
  BY <1>0, <1>1, <1>2, <1>3, <1>4, <1>5, <1>6, PlainStep

LEMMA LeavingStep ==
    ASSUME IInv, NEW c \in Clients, client_disconnected(c) \/ client_destroy(c)
    PROVE  IInv'
<1>0. /\ TypeOK /\ Proc(c) /\ Requests /\ Told /\ Data(c) /\ c \in Processes /\ c # "server"
      /\ link \in [Clients -> LinkStates] /\ cchan \in [Clients -> Seq(ClientEvents)]
  BY ProcessKinds DEF IInv, Proc, TypeOK, LinkStates, ClientEvents
<1>1. /\ cpc[c] \in Leaving \ {"failed"} /\ cpc[c] \in Leaving
      /\ UNCHANGED <<sound, channel, users, dst, unposted, server, schan, link, buf, nic>>
  BY DEF client_disconnected, client_destroy, cm, Leaving
<1>2. PICK pc \in {"destroy_cq", "done"} : ClientGoto(c, pc)
  BY DEF client_disconnected, client_destroy
<1>3. /\ cchan' \in [Clients -> Seq(ClientEvents)] /\ \A d \in Clients \ {c} : cchan'[d] = cchan[d]
      /\ Contains(cchan'[c], "CONNECT_RESPONSE") => Contains(cchan[c], "CONNECT_RESPONSE")
  <2>1. CASE client_destroy(c)
    BY <1>0, <2>1 DEF client_destroy, cm
  <2>2. CASE client_disconnected(c)
    <3>1. cchan[c] # <<>> /\ cchan' = [cchan EXCEPT ![c] = Tail(cchan[c])]
      BY <2>2 DEF client_disconnected
    <3>2. PICK q : q = cchan[c]
      OBVIOUS
    <3>3. q \in Seq(ClientEvents) /\ q # <<>>
      BY <1>0, <3>1, <3>2
    <3>4. Tail(q) \in Seq(ClientEvents) /\ \A x : Contains(Tail(q), x) => Contains(q, x)
      BY <3>3, TailContains
    <3>. QED
      BY <1>0, <3>1, <3>2, <3>4
  <2>. QED
    BY <2>1, <2>2
<1>4. PICK state \in LinkStates : state = link[c]
  BY <1>0
<1>5. link' = [link EXCEPT ![c] = state] /\ (state \in Accepted => peer = c)
  BY <1>0, <1>1, <1>4 DEF Told, Accepted
<1>6. flight[c] = "none" /\ (unposted[c] = {} => dst[c] = "written")
  BY <1>0, <1>1 DEF Requests, Requested, Data
<1>7. io[c] \in {"idle", "success", "error"}
  <2>1. Phase(c) = "over"
    BY <1>0, <1>1 DEF Phase, Leaving
  <2>. QED
    BY <1>0, <2>1 DEF Proc, Balanced
<1>8. /\ pc \in {"exchange", "failed", "disconnecting", "destroy_cq", "done"}
      /\ pc \in Leaving /\ pc # "exchange"
  BY DEF Leaving
<1>9. UNCHANGED <<sound, channel, users, dst, unposted, server, schan, buf, nic>>
  BY <1>1
<1>10. Contains(cchan'[c], "CONNECT_RESPONSE") => peer = c
  BY <1>3 DEF IInv, Met
<1>. QED
  BY <1>2, <1>3, <1>5, <1>6, <1>7, <1>8, <1>9, <1>10, PlainStep

\* A client that has not posted its request takes the last call for this one's.
LEMMA ClientGoesOnStep ==
    ASSUME IInv, NEW c \in Clients, client_goes_on(c)
    PROVE  IInv'
<1>0. /\ TypeOK /\ Proc(c) /\ Requested(c) /\ Told /\ Served(c) /\ Foiled(c) /\ Met(c)
      /\ c \in Processes /\ c # "server"
  BY ProcessKinds DEF IInv, Proc, Requests
<1>1. PICK pc, op :
        /\ \/ cpc[c] = "exchange" /\ op = "SEND" /\ pc = "exchanging"
           \/ cpc[c] = "exchanging" /\ op = "WRITE" /\ pc = "writing" /\ io[c] = "success"
           \/ cpc[c] = "writing" /\ op = "READ" /\ pc = "reading" /\ io[c] = "success"
        /\ cpc' = [cpc EXCEPT ![c] = pc]
        /\ unposted' = [unposted EXCEPT ![c] = unposted[c] \cup {op}]
  BY DEF client_goes_on, GoesWithout, ClientGoto, Returned
<1>2. /\ UNCHANGED <<sound, users, dst, spc, peer, cchan, schan, link, buf, rq, flight, landed,
                     cq, armed, events, unacked, max_wc, wc, cm, server, nic>>
      /\ io' = [io EXCEPT ![c] = "success"]
  BY DEF client_goes_on, Goto, cm, server, nic
<1>3. /\ cpc'[c] = pc /\ \A d \in Clients \ {c} : cpc'[d] = cpc[d]
      /\ cpc' \in [Clients -> {"init", "connecting", "exchange", "exchanging", "writing", "reading",
                               "disconnecting", "destroy_cq", "done", "failed"}]
  BY <1>0, <1>1, Types
<1>4. /\ unposted'[c] = unposted[c] \cup {op} /\ \A d \in Clients \ {c} : unposted'[d] = unposted[d]
      /\ unposted' \in [Clients -> SUBSET {"SEND", "WRITE", "READ"}]
  <2>1. unposted[c] \cup {op} \in SUBSET {"SEND", "WRITE", "READ"}
    BY <1>0, <1>1, Types
  <2>. QED
    BY <1>0, <1>1, <2>1, Types
<1>5. /\ io'[c] = "success" /\ \A q \in Processes \ {c} : io'[q] = io[q]
      /\ io' \in [Processes -> {"idle", "event", "arm", "poll", "check", "success", "error"}]
  BY <1>0, <1>2, Types
<1>6. TypeOK'
  <2>1. ChannelTypeOK'
    BY <1>0, <1>2, <1>5 DEF TypeOK, ChannelTypeOK
  <2>2. ProgramTypeOK'
    BY <1>0, <1>2, <1>3, <1>4, TypeParts DEF ProgramTypeOK
  <2>. QED
    BY <1>0, <1>2, <2>1, <2>2, TypeParts, TypeNext, ManagerFrame, DataFrame
<1>7. /\ Phase(c)' = "waiting" /\ cpc[c] \notin Leaving \cup {"init"} /\ pc \notin Early \cup Leaving
      /\ peer = c
  BY <1>0, <1>1, <1>3 DEF Phase, Leaving, Early, Met
\* What holds whether or not the metadata has been sent.
<1>8. /\ Proc(c)' /\ Foiled(c)' /\ flight[c] = "none" /\ (~Untold(c)' => ~rq[c])
      /\ Untold(c)' => cpc[c] \in Early \/ Untold(c)
  <2>1. CASE cpc[c] = "exchange"
    <3>1. /\ Phase(c) = "ready" /\ unposted[c] = {} /\ rq[c] /\ Untold(c)' /\ Extra(c)' = 1
          /\ cpc[c] \in Early
      BY <1>0, <1>1, <1>4, <2>1 DEF Phase, Requested, Early, Untold, Extra
    <3>2. /\ io[c] = "idle" /\ max_wc[c] = 0 /\ flight[c] = "none" /\ Outstanding(c) = 1
      BY <1>0, <3>1 DEF Proc, Balanced
    <3>3. cq[c] \in Seq(Statuses) /\ wc[c] \in Seq(Statuses) /\ Len(wc[c]) <= max_wc[c]
      BY <1>0, Types
    <3>4. wc[c] = <<>> /\ Len(wc[c]) = 0
      BY <3>2, <3>3
    <3>5. Len(cq[c]) = 0
      <4>. DEFINE l == Len(cq[c])
      <4>1. l \in Nat /\ l + 0 + 1 + 0 = 1
        BY <3>1, <3>2, <3>3, <3>4 DEF Outstanding, Receives, Sends
      <4>. HIDE DEF l
      <4>2. l = 0
        BY <4>1
      <4>. QED
        BY <4>2 DEF l
    <3>6. cq[c] = <<>>
      BY <3>3, <3>5
    <3>7. Outstanding(c)' = 1
      BY <1>2, <3>2 DEF Outstanding, Receives, Sends
    <3>8. Balanced(c)'
      BY <1>2, <1>5, <1>7, <3>1, <3>2, <3>7 DEF Balanced
    <3>9. Called(c)'
      BY <1>0, <1>2, <1>5, <3>2, <3>4, ContainsOne DEF Proc, Called
    <3>10. Woken(c)'
      BY <1>0, <1>2, <1>5, <3>1, <3>2 DEF Proc, Woken
    <3>11. Foiled(c)'
      BY <1>2, <3>1, <3>2, <3>4, <3>6, ContainsOne DEF Foiled
    <3>. QED
      BY <3>1, <3>2, <3>8, <3>9, <3>10, <3>11 DEF Proc
  <2>2. CASE cpc[c] # "exchange"
    <3>1. io[c] = "success" /\ Phase(c) = "waiting" /\ op # "SEND"
      BY <1>0, <1>1, <2>2 DEF Phase
    <3>2. flight[c] = "none" /\ (rq[c] <=> Untold(c))
      BY <1>0, <3>1, Succeeded
    <3>3. Untold(c)' = Untold(c)
      BY <1>4, <3>1 DEF Untold
    <3>4. ProcSame(c)
      BY <1>2, <1>5, <1>7, <3>1, <3>3 DEF ProcSame, Extra
    <3>5. Foiled(c)'
      BY <1>0, <1>2, <3>3 DEF Foiled
    <3>. QED
      BY <1>0, <3>2, <3>3, <3>4, <3>5, ProcFrame
  <2>. QED
    BY <2>1, <2>2
<1>9. Requested(c)'
  BY <1>1, <1>2, <1>3, <1>7, <1>8 DEF Requested
<1>10. Served(c)' /\ Data(c)'
  <2>1. Clean(c)' = Clean(c)
    BY <1>2, CleanSame
  <2>. QED
    BY <1>0, <1>2, <1>4, <1>7, <2>1 DEF Served, Data
<1>11. Met(c)'
  BY <1>0, <1>2, <1>7 DEF Met
<1>12. (cpc[c] \in Early \/ Untold(c))' => cpc[c] \in Early \/ Untold(c)
  BY <1>3, <1>7, <1>8
<1>13. cpc[c] \notin Leaving /\ link[c] # "disconnecting"
  BY <1>0, <1>7 DEF Told
<1>. QED
  BY <1>2, <1>3, <1>4, <1>5, <1>6, <1>7, <1>8, <1>9, <1>10, <1>11, <1>12, <1>13, ClientRest

LEMMA ClientStep ==
    ASSUME IInv, NEW c \in Clients, main_client(c)
    PROVE  IInv'
BY InitStep, EstablishedStep, ExchangeStep, WriteStep, ClientFailsStep, DisconnectStep, LeavingStep,
   ClientGoesOnStep DEF main_client

----------------------------------------------------------------------------
(* The server.                                                             *)

\* A client that WRITEs or READs, and whose request is on its way or has been
\* answered well, has the server's buffer if it has sent its metadata.
LEMMA ReachesServer ==
    ASSUME IInv, NEW c \in Clients, ~Untold(c), cpc[c] \in {"writing", "reading"}, flight[c] # "none" \/ Clean(c)
    PROVE  peer = c /\ buf # "none" /\ spc \in {"sending", "serving", "failed"}
<1>1. /\ TypeOK /\ c \in Processes /\ Proc(c) /\ Requested(c) /\ Served(c)
  BY ProcessKinds DEF IInv, Proc, Requests
<1>2. Clean(c)
  BY <1>1, InFlightClean
<1>3. ~rq[c] /\ cpc[c] \notin Leaving \cup {"init"}
  BY <1>1 DEF Requested, Leaving
<1>. QED
  BY <1>1, <1>2, <1>3 DEF Served

\* A client that is not served loses nothing with the server's step.
LEMMA UnservedFrame ==
    ASSUME IInv, NEW c \in Clients, ClientSame(c),
           ~(peer = c /\ buf # "none" /\ spc \in {"sending", "serving", "failed"})
    PROVE  Served(c)' /\ Data(c)'
<1>1. Served(c) /\ Data(c)
  BY DEF IInv
<1>2. Served(c)'
  BY <1>1 DEF Served, ClientSame
<1>3. cpc[c] \in {"writing", "reading"} /\ unposted[c] = {} => flight[c] = "none" /\ ~Clean(c)
  BY ReachesServer DEF Untold
<1>4. cpc[c] \in {"writing", "reading"} /\ unposted[c] = {} => ~Effective(c)' /\ ~Clean(c)'
  BY <1>3 DEF Effective, ClientSame
<1>5. Data(c)'
  BY <1>1, <1>4 DEF Data, ClientSame, Leaving
<1>. QED
  BY <1>2, <1>5

\* The events behind the one the server takes.
LEMMA TailEvents ==
    ASSUME TypeOK, schan # <<>>
    PROVE  /\ Tail(schan) \in Seq(ServerEvents \X Clients)
           /\ 1 \in 1 .. Len(schan) /\ Head(schan) = schan[1]
           /\ \A k \in 1 .. Len(Tail(schan)) :
                k + 1 \in 1 .. Len(schan) /\ Tail(schan)[k] = schan[k + 1]
<1>1. schan \in Seq(ServerEvents \X Clients)
  BY SchanTyped DEF ServerEvents
<1>2. Len(schan) \in Nat \ {0} /\ Len(Tail(schan)) = Len(schan) - 1
  BY <1>1
<1>. QED
  BY <1>1, <1>2

LEMMA TailHonest ==
    ASSUME TypeOK, Told, schan # <<>>, schan' = Tail(schan), UNCHANGED <<peer, cpc>>
    PROVE  /\ schan' \in Seq(ServerEvents \X Clients) /\ Honest(Head(schan))
           /\ (\A k \in 1 .. Len(schan) : Honest(schan[k]))'
<1>1. /\ schan' \in Seq(ServerEvents \X Clients)
      /\ 1 \in 1 .. Len(schan) /\ Head(schan) = schan[1]
      /\ \A k \in 1 .. Len(schan') : k + 1 \in 1 .. Len(schan) /\ schan'[k] = schan[k + 1]
  BY TailEvents
<1>2. \A k \in 1 .. Len(schan) : Honest(schan[k])
  BY DEF Told
<1>3. Honest(Head(schan))
  BY <1>1, <1>2
<1>4. ASSUME NEW k \in 1 .. Len(schan')
      PROVE  Honest(schan[k])'
  <2>1. PICK m \in 1 .. Len(schan) : m = k + 1
    BY <1>1
  <2>2. Honest(schan[m]) /\ schan'[k] = schan[m]
    BY <1>1, <1>2, <2>1
  <2>. QED
    BY <2>2 DEF Honest
<1>. QED
  BY <1>1, <1>3, <1>4

\* A server that has heard of its client has.
LEMMA HeardFrame ==
    ASSUME NEW c, Unheard(c), UNCHANGED <<cpc, unposted, peer>>,
           spc \notin {"accepted", "metadata", "failed"} \/ (~rq["server"] /\ Clean("server"))
    PROVE  Unheard(c)'
BY DEF Unheard, Untold

\* What the invariant asks of a step of the server.
LEMMA ServerRest ==
    ASSUME IInv, UNCHANGED <<cpc, dst, unposted, cchan>>, TypeOK',
           \A q \in Clients :
             /\ cq'[q] = cq[q] /\ armed'[q] = armed[q] /\ events'[q] = events[q]
             /\ unacked'[q] = unacked[q] /\ io'[q] = io[q] /\ max_wc'[q] = max_wc[q]
             /\ wc'[q] = wc[q]
             /\ rq'[q] = rq[q] /\ flight'[q] = flight[q] /\ landed'[q] = landed[q],
           Proc("server")', Answered', Told',
           \A c \in Clients : Unheard(c)' /\ (peer = c => peer' = c),
           \/ \A c \in Clients : ~(peer = c /\ buf # "none" /\ spc \in {"sending", "serving", "failed"})
           \/ /\ UNCHANGED <<peer, buf>>
              /\ spc \in {"sending", "serving"} /\ spc' \in {"serving", "failed"}
           \/ \A c \in Clients : peer = c => cpc[c] \in Leaving
    PROVE  IInv'
<1>0. /\ TypeOK /\ \A r \in Processes : Proc(r)
      /\ Requests /\ Told /\ \A d \in Clients : Served(d) /\ Data(d) /\ Foiled(d) /\ Met(d)
  BY DEF IInv, Proc
<1>1. ASSUME NEW q \in Processes
      PROVE  Proc(q)'
  <2>1. CASE q = "server"
    BY <2>1
  <2>2. CASE q # "server"
    <3>1. q \in Clients
      BY <2>2 DEF Processes
    <3>2. Phase(q)' = Phase(q) /\ Extra(q)' = Extra(q)
      BY <2>2, PlaceFrame
    <3>3. ProcSame(q)
      BY <3>1, <3>2 DEF ProcSame
    <3>. QED
      BY <1>0, <3>3, ProcFrame
  <2>. QED
    BY <2>1, <2>2
<1>2. Requests'
  BY <1>0 DEF Requests, Requested, Untold
<1>4. ASSUME NEW c \in Clients
      PROVE  Foiled(c)' /\ Met(c)'
  <2>1. Unmoved(c)
    BY DEF Unmoved
  <2>. QED
    BY <1>0, <2>1, UnmovedFrame
<1>3. ASSUME NEW c \in Clients
      PROVE  Served(c)' /\ Data(c)'
  <2>1. ClientSame(c)
    BY CleanSame DEF ClientSame
  <2>2. CASE ~(peer = c /\ buf # "none" /\ spc \in {"sending", "serving", "failed"})
    BY <2>1, <2>2, UnservedFrame
  <2>3. CASE UNCHANGED <<peer, buf>> /\ spc \in {"sending", "serving"} /\ spc' \in {"serving", "failed"}
    BY <1>0, <2>1, <2>3, ClientFrame
  <2>4. CASE cpc[c] \in Leaving
    BY <1>0, <2>1, <2>4 DEF Served, Data, ClientSame, Leaving
  <2>. QED
    BY <2>2, <2>3, <2>4
<1>. QED
  BY <1>1, <1>2, <1>3, <1>4 DEF IInv, Proc

\* A step of the server's that is no call of the channel's, and leaves no way back
\* to it.
LEMMA ServerPlain ==
    ASSUME IInv, spc' \in {"serving", "destroy_cq", "done", "failed"},
           UNCHANGED <<sound, channel, users, client, peer, cchan, nic>>,
           io["server"] \in {"idle", "success", "error"},
           Answered', buf' \in {"none", "zero", "written"},
           schan' \in Seq(ServerEvents \X Clients), (\A k \in 1 .. Len(schan) : Honest(schan[k]))',
           link' \in [Clients -> LinkStates], \A c \in Clients : link'[c] \in {link[c], "down"},
           \A c \in Clients : Unheard(c)',
           \/ \A c \in Clients : ~(peer = c /\ buf # "none" /\ spc \in {"sending", "serving", "failed"})
           \/ /\ UNCHANGED <<peer, buf>>
              /\ spc \in {"sending", "serving"} /\ spc' \in {"serving", "failed"}
           \/ \A c \in Clients : peer = c => cpc[c] \in Leaving
    PROVE  IInv'
<1>0. TypeOK /\ Proc("server") /\ Told
  BY ProcessKinds DEF IInv, Proc
<1>1. UNCHANGED <<sound, users, cq, armed, events, unacked, io, max_wc, wc, cpc, dst, unposted, peer, cchan,
                  rq, flight, landed>>
  BY DEF channel, client, nic
<1>2. TypeOK'
  <2>1. ManagerTypeOK'
    BY <1>0, <1>1, TypeParts DEF ManagerTypeOK, ServerEvents, LinkStates
  <2>2. ProgramTypeOK'
    BY <1>0, <1>1, TypeParts DEF ProgramTypeOK
  <2>3. DataTypeOK'
    BY <1>0, <1>1, TypeParts DEF DataTypeOK
  <2>. QED
    BY <1>0, <1>1, <2>1, <2>2, <2>3, TypeParts, TypeNext, ChannelFrame
<1>3. Proc("server")'
  <2>1. Phase("server")' = "over"
    BY DEF Phase
  <2>2. Balanced("server")' /\ Woken("server")'
    BY <1>1, <2>1 DEF Balanced, Woken
  <2>3. Called("server")'
    BY <1>0, <1>1 DEF Proc, Called
  <2>. QED
    BY <2>2, <2>3 DEF Proc
<1>4. Told'
  <2>1. ASSUME NEW c \in Clients
        PROVE  /\ link'[c] \in {"accepted", "replied", "ready", "up", "disconnecting"} => peer' = c
               /\ link'[c] = "disconnecting" => cpc'[c] \in Leaving
    BY <1>0, <1>1 DEF Told
  <2>. QED
    BY <2>1 DEF Told
<1>. QED
  BY <1>1, <1>2, <1>3, <1>4, ProcessKinds, ServerRest

LEMMA ServerFailsStep ==
    ASSUME IInv, server_unexpected \/ server_fails \/ \E c \in Clients : server_accept_fails(c)
    PROVE  IInv'
<1>0. /\ TypeOK /\ Proc("server") /\ Told /\ Answered
      /\ schan \in Seq(ServerEvents \X Clients) /\ link \in [Clients -> LinkStates]
  BY ProcessKinds, SchanTyped DEF IInv, Proc, Requests, TypeOK, LinkStates, ServerEvents
<1>1. /\ spc' = "failed"
      /\ UNCHANGED <<sound, channel, users, client, peer, cpc, cchan, link, buf, nic, flight>>
  BY DEF server_unexpected, Unexpected, server_fails, server_accept_fails, client, cm, nic
<1>2. spc \in {"listen", "accepted", "metadata", "sending", "serving"}
  BY DEF server_unexpected, Unexpected, server_fails, server_accept_fails, Expected
<1>3. io["server"] \in {"idle", "success", "error"}
  <2>1. CASE server_fails
    BY <2>1 DEF server_fails, Returned
  <2>2. CASE spc \in {"listen", "accepted", "serving"}
    <3>1. Phase("server") \in {"new", "ready", "over"}
      BY <2>2 DEF Phase
    <3>. QED
      BY <1>0, <3>1 DEF Proc, Balanced
  <2>. QED
    BY <2>1, <2>2 DEF server_unexpected, Unexpected, server_accept_fails, Expected
<1>4. Answered'
  BY <1>0, <1>1 DEF Answered
<1>5. /\ schan' \in Seq(ServerEvents \X Clients)
      /\ (\A k \in 1 .. Len(schan) : Honest(schan[k]))'
  <2>1. CASE schan' = schan
    BY <1>0, <1>1, <2>1 DEF Told, Honest
  <2>2. CASE schan # <<>> /\ schan' = Tail(schan)
    BY <1>0, <1>1, <2>2, TailHonest
  <2>. QED
    BY <2>1, <2>2 DEF server_unexpected, Unexpected, server_fails, server_accept_fails, ServerGets, cm
<1>6. buf' \in {"none", "zero", "written"}
  BY <1>0, <1>1, Types
<1>7. \/ \A c \in Clients : ~(peer = c /\ buf # "none" /\ spc \in {"sending", "serving", "failed"})
      \/ UNCHANGED <<peer, buf>> /\ spc \in {"sending", "serving"} /\ spc' \in {"serving", "failed"}
  BY <1>1, <1>2
<1>8. \A c \in Clients : Unheard(c)'
  <2>1. /\ UNCHANGED <<cpc, unposted, peer, buf>> /\ rq'["server"] = rq["server"]
        /\ Clean("server")' = Clean("server")
    BY <1>1, CleanSame DEF channel, client, nic
  <2>. QED
    BY <1>1, <2>1, UnheardFrame DEF IInv, Untold
<1>. QED
  BY <1>0, <1>1, <1>3, <1>4, <1>5, <1>6, <1>7, <1>8, ServerPlain

LEMMA ServesStep ==
    ASSUME IInv, print_buffer \/ server_destroy
    PROVE  IInv'
<1>0. /\ TypeOK /\ Proc("server") /\ Told /\ Answered /\ "server" \in Processes
      /\ schan \in Seq(ServerEvents \X Clients) /\ link \in [Clients -> LinkStates]
  BY ProcessKinds, SchanTyped DEF IInv, Proc, Requests, TypeOK, LinkStates, ServerEvents
<1>1. /\ spc' \in {"serving", "done"}
      /\ UNCHANGED <<sound, channel, users, client, peer, cpc, cchan, schan, link, buf, nic, flight>>
  BY DEF print_buffer, server_destroy, client, cm, nic
<1>2. io["server"] \in {"idle", "success", "error"} /\ flight["server"] = "none"
  <2>1. CASE print_buffer
    <3>1. Phase("server") = "waiting" /\ io["server"] = "success"
      BY <2>1 DEF print_buffer, Phase, Returned
    <3>. QED
      BY <1>0, <3>1, Succeeded DEF Foiled, Untold
  <2>2. CASE server_destroy
    <3>1. spc = "destroy_cq" /\ Phase("server") = "over"
      BY <2>2 DEF server_destroy, Phase
    <3>. QED
      BY <1>0, <3>1 DEF Proc, Balanced, Answered
  <2>. QED
    BY <2>1, <2>2
<1>3. Answered'
  BY <1>1, <1>2 DEF Answered
<1>4. (\A k \in 1 .. Len(schan) : Honest(schan[k]))'
  BY <1>0, <1>1 DEF Told, Honest
<1>5. buf' \in {"none", "zero", "written"}
  BY <1>0, <1>1, Types
<1>6. \/ \A c \in Clients : ~(peer = c /\ buf # "none" /\ spc \in {"sending", "serving", "failed"})
      \/ UNCHANGED <<peer, buf>> /\ spc \in {"sending", "serving"} /\ spc' \in {"serving", "failed"}
  BY <1>1 DEF print_buffer, server_destroy
<1>7. spc' \in {"serving", "destroy_cq", "done", "failed"} /\ UNCHANGED <<sound, channel, users, client, peer, cchan, nic>>
  BY <1>1
<1>8. link' \in [Clients -> LinkStates] /\ \A c \in Clients : link'[c] \in {link[c], "down"}
  BY <1>0, <1>1
<1>9. schan' \in Seq(ServerEvents \X Clients)
  BY <1>0, <1>1
<1>10. \A c \in Clients : Unheard(c)'
  <2>1. UNCHANGED <<cpc, unposted, peer>> /\ spc \notin {"accepted", "metadata", "failed"}
    BY <1>1 DEF client, print_buffer, server_destroy
  <2>. QED
    BY <2>1, HeardFrame DEF IInv
<1>. QED
  BY <1>2, <1>3, <1>4, <1>5, <1>6, <1>7, <1>8, <1>9, <1>10, ServerPlain

\* The server goes on without having posted its SEND.
LEMMA ServerGoesOnStep ==
    ASSUME IInv, server_goes_on
    PROVE  IInv'
<1>0. /\ TypeOK /\ Proc("server") /\ Told /\ Answered /\ "server" \in Processes
      /\ schan \in Seq(ServerEvents \X Clients) /\ link \in [Clients -> LinkStates]
  BY ProcessKinds, SchanTyped DEF IInv, Proc, Requests, TypeOK, LinkStates, ServerEvents
<1>1. /\ spc = "metadata" /\ spc' = "serving" /\ io["server"] = "success" /\ buf' = "zero"
      /\ UNCHANGED <<sound, channel, users, client, cpc, unposted, peer, cchan, schan, link, nic, flight>>
  BY DEF server_goes_on, Returned, client, cm, nic
<1>2. flight["server"] = "none" /\ ~rq["server"] /\ Clean("server")
  BY <1>0, <1>1, Succeeded DEF Phase, Foiled, Untold
<1>3. Answered'
  BY <1>1, <1>2 DEF Answered
<1>4. (\A k \in 1 .. Len(schan) : Honest(schan[k]))'
  BY <1>0, <1>1 DEF Told, Honest
<1>5. \A c \in Clients : Unheard(c)'
  BY <1>1, <1>2, HeardFrame DEF IInv
<1>6. /\ spc' \in {"serving", "destroy_cq", "done", "failed"} /\ buf' \in {"none", "zero", "written"}
      /\ io["server"] \in {"idle", "success", "error"}
      /\ schan' \in Seq(ServerEvents \X Clients)
      /\ link' \in [Clients -> LinkStates] /\ \A c \in Clients : link'[c] \in {link[c], "down"}
  BY <1>0, <1>1
<1>7. \A c \in Clients : ~(peer = c /\ buf # "none" /\ spc \in {"sending", "serving", "failed"})
  BY <1>1
<1>. QED
  BY <1>1, <1>3, <1>4, <1>5, <1>6, <1>7, ServerPlain

LEMMA ServerDisconnectedStep ==
    ASSUME IInv, NEW c \in Clients, server_disconnected(c)
    PROVE  IInv'
<1>0. /\ TypeOK /\ Proc("server") /\ Told /\ Answered /\ link \in [Clients -> LinkStates]
  BY ProcessKinds DEF IInv, Proc, Requests, TypeOK, LinkStates
<1>1. /\ spc = "serving" /\ spc' = "destroy_cq" /\ buf' = "none"
      /\ schan # <<>> /\ Head(schan) = <<"DISCONNECTED", c>> /\ schan' = Tail(schan)
      /\ link' = [link EXCEPT ![c] = "down"]
      /\ UNCHANGED <<sound, channel, users, client, peer, cpc, cchan, nic, flight>>
  BY DEF server_disconnected, ServerGets, Link, client, nic
<1>2. /\ schan' \in Seq(ServerEvents \X Clients) /\ Honest(Head(schan))
      /\ (\A k \in 1 .. Len(schan) : Honest(schan[k]))'
  BY <1>0, <1>1, TailHonest
<1>3. peer = c /\ cpc[c] \in Leaving
  BY <1>1, <1>2 DEF Honest
<1>4. io["server"] \in {"idle", "success", "error"}
  BY <1>0, <1>1 DEF Phase, Proc, Balanced
<1>5. Answered'
  BY <1>0, <1>1 DEF Answered
<1>6. link' \in [Clients -> LinkStates] /\ \A d \in Clients : link'[d] \in {link[d], "down"}
  BY <1>0, <1>1 DEF LinkStates
<1>7. \A d \in Clients : peer = d => cpc[d] \in Leaving
  BY <1>3
<1>8. /\ spc' \in {"serving", "destroy_cq", "done", "failed"} /\ buf' \in {"none", "zero", "written"}
      /\ UNCHANGED <<sound, channel, users, client, peer, cchan, nic>>
  BY <1>1
<1>9. \A d \in Clients : Unheard(d)'
  BY <1>1, HeardFrame DEF IInv, client
<1>. QED
  BY <1>2, <1>4, <1>5, <1>6, <1>7, <1>8, <1>9, ServerPlain

LEMMA AcceptStep ==
    ASSUME IInv, NEW c \in Clients, server_accept(c)
    PROVE  IInv'
<1>0. /\ TypeOK /\ Proc("server") /\ Told /\ Answered /\ "server" \in Processes
      /\ link \in [Clients -> LinkStates]
  BY ProcessKinds DEF IInv, Proc, Requests, TypeOK, LinkStates
<1>1. /\ spc = "listen" /\ spc' = "accepted" /\ peer' = c
      /\ schan # <<>> /\ schan' = Tail(schan)
      /\ link' = [link EXCEPT ![c] = "accepted"]
      /\ armed' = [armed EXCEPT !["server"] = TRUE] /\ rq' = [rq EXCEPT !["server"] = TRUE]
      /\ UNCHANGED <<sound, users, cpc, dst, unposted, cchan, buf, flight, landed,
                     cq, events, unacked, io, max_wc, wc>>
  BY DEF server_accept, ServerGets, Link, CreateCq, PostRecv, client
<1>2. /\ rq'["server"] /\ armed'["server"]
      /\ \A q \in Clients : rq'[q] = rq[q] /\ armed'[q] = armed[q]
      /\ rq' \in [Processes -> BOOLEAN] /\ armed' \in [Processes -> BOOLEAN]
  BY <1>0, <1>1, Types, ProcessKinds
<1>3. /\ link' \in [Clients -> LinkStates] /\ link'[c] = "accepted"
      /\ \A d \in Clients \ {c} : link'[d] = link[d]
  BY <1>0, <1>1 DEF LinkStates
<1>4. peer = "none" /\ \A d \in Clients : peer # d
  BY <1>0, <1>1, RdmaExampleAssumption DEF Told
<1>5. /\ schan' \in Seq(ServerEvents \X Clients)
      /\ \A k \in 1 .. Len(schan') : schan'[k][1] = "CONNECT_REQUEST"
  <2>1. /\ Tail(schan) \in Seq(ServerEvents \X Clients)
        /\ \A k \in 1 .. Len(Tail(schan)) :
             k + 1 \in 1 .. Len(schan) /\ Tail(schan)[k] = schan[k + 1]
    BY <1>0, <1>1, TailEvents
  <2>2. \A m \in 1 .. Len(schan) : schan[m][1] = "CONNECT_REQUEST"
    BY <1>0, <1>4, SchanTyped DEF Told, Honest
  <2>. QED
    BY <1>1, <2>1, <2>2
<1>6. TypeOK'
  <2>1. ChannelTypeOK'
    BY <1>0, <1>1, <1>2 DEF TypeOK, ChannelTypeOK
  <2>2. ManagerTypeOK'
    BY <1>0, <1>1, <1>3, <1>5, TypeParts DEF ManagerTypeOK, LinkStates, ServerEvents
  <2>3. ProgramTypeOK'
    BY <1>0, <1>1, TypeParts DEF ProgramTypeOK
  <2>4. DataTypeOK'
    BY <1>0, <1>1, <1>2, TypeParts DEF DataTypeOK
  <2>. QED
    BY <2>1, <2>2, <2>3, <2>4, TypeNext
<1>7. Proc("server")'
  <2>1. Phase("server") = "new" /\ Phase("server")' = "ready"
    BY <1>1 DEF Phase
  <2>2. /\ io["server"] = "idle" /\ max_wc["server"] = 0 /\ cq["server"] = <<>>
        /\ flight["server"] = "none" /\ unacked["server"] = 0
    BY <1>0, <2>1 DEF Proc, Balanced, Called
  <2>3. Len(wc["server"]) = 0 /\ Len(cq["server"]) = 0
    <3>1. Len(wc["server"]) \in Nat /\ Len(wc["server"]) <= max_wc["server"]
      BY <1>0, Types
    <3>. QED
      BY <2>2, <3>1
  <2>4. Outstanding("server")' = 1
    BY <1>1, <1>2, <2>2, <2>3 DEF Outstanding, Receives, Sends
  <2>5. Balanced("server")'
    BY <1>1, <2>1, <2>2, <2>4 DEF Balanced
  <2>6. Called("server")' /\ Woken("server")'
    BY <1>1, <1>2, <2>1, <2>2 DEF Called, Woken
  <2>. QED
    BY <2>5, <2>6 DEF Proc
<1>8. Answered'
  BY <1>0, <1>1 DEF Answered
<1>9. Told'
  <2>1. ASSUME NEW d \in Clients
        PROVE  /\ link'[d] \in {"accepted", "replied", "ready", "up", "disconnecting"} => peer' = d
               /\ link'[d] = "disconnecting" => cpc'[d] \in Leaving
    <3>1. CASE d = c
      BY <1>1, <1>3, <3>1
    <3>2. CASE d # c
      BY <1>0, <1>1, <1>3, <1>4, <3>2 DEF Told
    <3>. QED
      BY <3>1, <3>2
  <2>2. (\A k \in 1 .. Len(schan) : Honest(schan[k]))'
    BY <1>5 DEF Honest
  <2>3. peer' # "none"
    BY <1>1, RdmaExampleAssumption
  <2>. QED
    BY <1>1, <2>1, <2>2, <2>3 DEF Told
<1>10. \A d \in Clients : Unheard(d)'
  BY <1>0, <1>1, <1>2 DEF Told, Unheard
<1>. QED
  BY <1>1, <1>2, <1>4, <1>6, <1>7, <1>8, <1>9, <1>10, ServerRest

\* The server goes into process_work_completion_events.
LEMMA ServerAwaits ==
    ASSUME IInv, Await("server", 1), UNCHANGED <<sound, users, client, peer, cchan, link>>,
           spc \in {"accepted", "metadata"}, spc' \in {"metadata", "sending"},
           io["server"] \in {"idle", "success"},
           Len(cq["server"]) + Receives("server")' + Sends("server")' = 1,
           DataTypeOK', Answered', \A c \in Clients : Unheard(c)',
           \A q \in Clients : rq'[q] = rq[q] /\ flight'[q] = flight[q] /\ landed'[q] = landed[q],
           schan' \in Seq(ServerEvents \X Clients), (\A k \in 1 .. Len(schan) : Honest(schan[k]))'
    PROVE  IInv'
<1>0. TypeOK /\ Proc("server") /\ Told /\ "server" \in Processes
  BY ProcessKinds DEF IInv, Proc
<1>1. UNCHANGED <<users, cpc, dst, unposted, peer, cchan, link>>
  BY DEF client
<1>2. PICK n : n = 1
  OBVIOUS
<1>3. /\ n \in {1, 2} /\ Await("server", n)
      /\ Len(cq["server"]) + Receives("server")' + Sends("server")' = n + 0
  BY <1>2
<1>4. /\ ChannelTypeOK' /\ UNCHANGED <<cq, armed, events, unacked>>
      /\ \A q \in Clients : io'[q] = io[q] /\ max_wc'[q] = max_wc[q] /\ wc'[q] = wc[q]
  BY <1>0, <1>3, AwaitEffect, ProcessKinds
<1>5. TypeOK'
  <2>1. ManagerTypeOK'
    BY <1>0, <1>1, TypeParts DEF ManagerTypeOK, ServerEvents
  <2>2. ProgramTypeOK'
    BY <1>0, <1>1, TypeParts DEF ProgramTypeOK
  <2>. QED
    BY <1>4, <2>1, <2>2, TypeNext
<1>6. Proc("server")'
  <2>1. /\ Phase("server") \in {"ready", "waiting"} /\ Phase("server")' = "waiting"
        /\ Extra("server")' = 0
    BY <1>2 DEF Phase, Extra, Untold
  <2>. QED
    BY <1>0, <1>3, <2>1, AwaitStep
<1>7. Told'
  <2>1. ASSUME NEW c \in Clients
        PROVE  /\ link'[c] \in {"accepted", "replied", "ready", "up", "disconnecting"} => peer' = c
               /\ link'[c] = "disconnecting" => cpc'[c] \in Leaving
    BY <1>0, <1>1 DEF Told
  <2>. QED
    BY <1>0, <1>1, <2>1 DEF Told
<1>. QED
  BY <1>1, <1>4, <1>5, <1>6, <1>7, ServerRest

\* The server takes the event, and waits for the client's metadata, whatever the
\* event is.
LEMMA ServerEstablishedStep ==
    ASSUME IInv, server_mistaken \/ \E c \in Clients : server_established(c)
    PROVE  IInv'
<1>0. /\ TypeOK /\ Proc("server") /\ Told /\ Answered /\ "server" \in Processes
  BY ProcessKinds DEF IInv, Proc, Requests
<1>1. /\ spc = "accepted" /\ spc' = "metadata" /\ Await("server", 1)
      /\ schan # <<>> /\ schan' = Tail(schan)
      /\ UNCHANGED <<sound, users, client, cpc, dst, unposted, peer, cchan, link, buf, nic, rq, flight, landed>>
  BY DEF server_established, server_mistaken, Unexpected, ServerGets, client, nic
<1>2. /\ schan' \in Seq(ServerEvents \X Clients)
      /\ (\A k \in 1 .. Len(schan) : Honest(schan[k]))'
  BY <1>0, <1>1, TailHonest
<1>3. /\ io["server"] = "idle" /\ max_wc["server"] = 0 /\ flight["server"] = "none"
      /\ Outstanding("server") = 1
  BY <1>0, <1>1 DEF Phase, Proc, Balanced
<1>4. Len(cq["server"]) + Receives("server")' + Sends("server")' = 1
  <2>. DEFINE a == Len(cq["server"])
              r == Receives("server")
  <2>1. Len(wc["server"]) = 0
    BY <1>0, <1>3, Types
  <2>2. a \in Nat /\ r \in {0, 1}
    BY <1>0, Types DEF Receives
  <2>3. a + 0 + r + 0 = 1
    BY <1>3, <2>1 DEF Outstanding, Sends
  <2>4. Receives("server")' = r /\ Sends("server")' = 0
    BY <1>1, <1>3 DEF Receives, Sends
  <2>. HIDE DEF a, r
  <2>5. a + r + 0 = 1
    BY <2>2, <2>3
  <2>. QED
    BY <2>4, <2>5 DEF a
<1>5. Answered'
  BY <1>1, <1>3 DEF Answered
<1>6. DataTypeOK'
  BY <1>0, <1>1, TypeParts DEF DataTypeOK
<1>7. \A c \in Clients : Unheard(c)'
  <2>1. wc["server"] = <<>>
    BY <1>0, <1>3, Types
  <2>2. wc'["server"] = <<>> /\ cq' = cq
    BY <1>0, <1>1, Types DEF Await
  <2>3. Clean("server")' = Clean("server")
    BY <2>1, <2>2, CleanSame
  <2>. QED
    BY <1>1, <2>3, UnheardFrame DEF IInv, Untold
<1>. QED
  BY <1>1, <1>2, <1>3, <1>4, <1>5, <1>6, <1>7, ServerAwaits

LEMMA ServerExchangeStep ==
    ASSUME IInv, exchange_metadata_with_client
    PROVE  IInv'
<1>0. /\ TypeOK /\ Proc("server") /\ Told /\ Answered /\ "server" \in Processes
  BY ProcessKinds DEF IInv, Proc, Requests
<1>1. /\ spc = "metadata" /\ io["server"] = "success" /\ spc' = "sending" /\ Await("server", 1)
      /\ buf' = "zero" /\ rq' = rq
      /\ flight' = [flight EXCEPT !["server"] = "SEND"] /\ landed' = [landed EXCEPT !["server"] = FALSE]
      /\ UNCHANGED <<sound, users, client, cpc, dst, unposted, peer, cm, cchan, schan, link>>
  BY DEF exchange_metadata_with_client, Returned, PostSend, client, cm
<1>2. cq["server"] = <<>> /\ ~rq["server"] /\ Clean("server")
  BY <1>0, <1>1, Succeeded DEF Phase, Foiled, Untold
<1>3. /\ flight'["server"] = "SEND"
      /\ \A q \in Clients : rq'[q] = rq[q] /\ flight'[q] = flight[q] /\ landed'[q] = landed[q]
      /\ flight' \in [Processes -> {"none", "SEND", "WRITE", "READ"}] /\ landed' \in [Processes -> BOOLEAN]
  BY <1>0, <1>1, Types, ProcessKinds
<1>4. Len(cq["server"]) + Receives("server")' + Sends("server")' = 1
  BY <1>1, <1>2, <1>3 DEF Receives, Sends
<1>5. Answered'
  BY <1>0, <1>1, <1>3 DEF Answered, Told
<1>6. DataTypeOK'
  BY <1>0, <1>1, <1>3, TypeParts DEF DataTypeOK
<1>7. /\ schan' \in Seq(ServerEvents \X Clients)
      /\ (\A k \in 1 .. Len(schan) : Honest(schan[k]))'
  BY <1>0, <1>1, SchanTyped DEF Told, Honest, ServerEvents
<1>8. \A c \in Clients : Unheard(c)'
  BY <1>1, <1>2, HeardFrame DEF IInv
<1>. QED
  BY <1>1, <1>3, <1>4, <1>5, <1>6, <1>7, <1>8, ServerAwaits

LEMMA ServerStep ==
    ASSUME IInv, main_server
    PROVE  IInv'
BY AcceptStep, ServerFailsStep, ServerEstablishedStep, ServerExchangeStep, ServesStep,
   ServerGoesOnStep, ServerDisconnectedStep DEF main_server

----------------------------------------------------------------------------
(* The theorems.                                                           *)

LEMMA InitIInv == Init => IInv
<1>. SUFFICES ASSUME Init
              PROVE  IInv
  OBVIOUS
<1>1. /\ cq = [p \in Processes |-> <<>>] /\ armed = [p \in Processes |-> FALSE]
      /\ events = [p \in Processes |-> 0] /\ unacked = [p \in Processes |-> 0]
      /\ io = [p \in Processes |-> "idle"] /\ max_wc = [p \in Processes |-> 0]
      /\ wc = [p \in Processes |-> <<>>] /\ sound \in BOOLEAN
      /\ users \in SUBSET Clients
      /\ cpc = [c \in Clients |-> "init"] /\ cchan = [c \in Clients |-> <<>>]
      /\ dst = [c \in Clients |-> "none"] /\ link = [c \in Clients |-> "none"]
      /\ spc = "listen" /\ schan = <<>> /\ peer = "none" /\ buf = "none"
      /\ rq = [p \in Processes |-> FALSE] /\ flight = [p \in Processes |-> "none"]
      /\ landed = [p \in Processes |-> FALSE]
      /\ unposted = [c \in Clients |-> {}]
  BY DEF Init, ChannelInit
<1>2. TypeOK
  <2>1. /\ <<>> \in Seq(Statuses) /\ Len(<<>>) = 0
        /\ <<>> \in Seq({"CONNECT_RESPONSE", "REJECTED", "UNREACHABLE", "DISCONNECTED"})
        /\ <<>> \in Seq({"CONNECT_REQUEST", "ESTABLISHED", "REJECTED", "DISCONNECTED"} \X Clients)
    OBVIOUS
  <2>2. ChannelTypeOK
    BY <1>1, <2>1 DEF ChannelTypeOK
  <2>3. ManagerTypeOK
    BY <1>1, <2>1 DEF ManagerTypeOK
  <2>4. ProgramTypeOK
    BY <1>1 DEF ProgramTypeOK
  <2>5. DataTypeOK
    BY <1>1 DEF DataTypeOK
  <2>. QED
    BY <2>2, <2>3, <2>4, <2>5, TypeParts
<1>3. ASSUME NEW p \in Processes
      PROVE  Balanced(p) /\ Called(p) /\ Woken(p)
  <2>1. Phase(p) = "new"
    BY <1>1 DEF Phase, Processes
  <2>. QED
    BY <1>1, <2>1 DEF Balanced, Called, Woken
<1>4. Requests
  BY <1>1, ProcessKinds DEF Requests, Answered, Requested, Leaving, Untold, Early
<1>5. Told
  BY <1>1 DEF Told
<1>6. \A c \in Clients : Served(c) /\ Data(c) /\ Unheard(c) /\ Foiled(c) /\ Met(c)
  <2>1. \A c \in Clients : peer # c
    BY <1>1, RdmaExampleAssumption
  <2>. QED
    BY <1>1, <2>1, ContainsOne DEF Served, Data, Leaving, Unheard, Foiled, Met, Untold
<1>. QED
  BY <1>2, <1>3, <1>4, <1>5, <1>6 DEF IInv

LEMMA StutterIInv ==
    ASSUME IInv, UNCHANGED vars
    PROVE  IInv'
<1>1. UNCHANGED <<sound, users, channel, cq, armed, events, unacked, io, max_wc, wc,
                  client, cpc, dst, unposted, server, spc, peer, cm, cchan, schan, link, buf, nic, rq, flight, landed>>
  BY DEF vars, channel, client, server, cm, nic
<1>2. TypeOK'
  BY <1>1, TypeParts, TypeNext, ChannelFrame, ManagerFrame, ProgramFrame, DataFrame DEF IInv
<1>3. ASSUME NEW p \in Processes
      PROVE  Balanced(p)' /\ Called(p)' /\ Woken(p)'
  <2>1. ProcSame(p)
    BY <1>1 DEF ProcSame, Phase, Extra, Untold
  <2>. QED
    BY <2>1, ProcFrame DEF IInv, Proc
<1>4. Requests'
  BY <1>1 DEF IInv, Requests, Answered, Requested, Untold
<1>5. Told'
  BY <1>1 DEF IInv, Told, Honest
<1>6. \A c \in Clients : Served(c)' /\ Data(c)' /\ Unheard(c)' /\ Foiled(c)' /\ Met(c)'
  BY <1>1 DEF IInv, Served, Data, Effective, Clean, Unheard, Foiled, Met, Untold
<1>. QED
  BY <1>2, <1>3, <1>4, <1>5, <1>6 DEF IInv

LEMMA NextIInv == IInv /\ [Next]_vars => IInv'
BY ServerStep, ClientStep, ConnectionStep, WaitStep, AdapterStep, StutterIInv DEF Next

\* The inductive invariant holds in every run, with whatever failures and however
\* many clients.
THEOREM Invariance == Spec => []IInv
BY InitIInv, NextIInv, PTL DEF Spec

\* Places, queues, buffers and counters are of their types; in particular no
\* process has more than one event to acknowledge, and none polls more than it
\* has been asked for (process_work_completion_events).
THEOREM TypeCorrect == Spec => []TypeOK
<1>1. IInv => TypeOK
  BY DEF IInv
<1>. QED
  BY <1>1, Invariance, PTL

\* A process that blocks in ibv_get_cq_event without an event has no completion
\* waiting, and its queue is armed: ibv_req_notify_cq comes before ibv_poll_cq.
THEOREM WakeupsAreKept == Spec => []WakeupKept
<1>1. IInv => WakeupKept
  <2>. SUFFICES ASSUME IInv, NEW p \in Processes, io[p] = "event", events[p] = 0
                PROVE  cq[p] = <<>> /\ armed[p]
    BY DEF WakeupKept
  <2>1. Proc(p)
    BY DEF IInv, Proc
  <2>2. Phase(p) = "waiting"
    BY <2>1, CallWaits
  <2>. QED
    BY <2>1, <2>2 DEF Proc, Woken
<1>. QED
  BY <1>1, Invariance, PTL

\* While a client that runs and has sent its metadata WRITEs or READs the buffer of a server that runs, the
\* server has accepted this client and holds the buffer: the server waits for the
\* client to disconnect, and what it is told is of this client.
THEOREM BufferIsServed == Spec => []OneSidedServed
<1>1. IInv => OneSidedServed
  <2>. SUFFICES ASSUME IInv, NEW c \in Clients, flight[c] \in {"WRITE", "READ"}, ~ClientGone(c),
                       "SEND" \notin unposted[c]
                PROVE  peer = c /\ buf # "none"
    BY DEF OneSidedServed
  <2>1. Requested(c) /\ Proc(c) /\ c # "server" /\ TypeOK
    BY ProcessKinds DEF IInv, Requests, Proc
  <2>2. cpc[c] \notin {"init", "connecting", "exchange"}
    BY <2>1 DEF Proc, Balanced, Phase
  <2>3. cpc[c] \in {"writing", "reading"}
    BY <2>1, <2>2, Types DEF Requested, Leaving, ClientGone
  <2>. QED
    BY <2>3, ReachesServer DEF Untold
<1>. QED
  BY <1>1, Invariance, PTL

\* A client that has come to its comparison finds the buffers equal: what it READ
\* is what it has WRITTEN.  With a failure it does not get there, unless a request
\* was not posted and errno was 0.
THEOREM BuffersAreEqual == Spec => []BuffersEqual
<1>1. IInv => BuffersEqual
  BY DEF IInv, Data, BuffersEqual, Leaving
<1>. QED
  BY <1>1, Invariance, PTL
=============================================================================
