--------------------------- MODULE WsPingpongProofs ---------------------------
(***************************************************************************)
(* Proofs about WsPingpong, for every number of rounds, window, server and *)
(* configuration.                                                          *)
(***************************************************************************)
EXTENDS WsPingpong, WsWorkerProofs

\* The types, with the bounds of the histories left to the rounds.
Shape ==
  /\ WsShape
  /\ counter \in 0 .. SampleEvery - 1 /\ answer \in 0 .. MaxRounds
  /\ answers \in Nat /\ lost \in Nat /\ behind \in 0 .. lost

\* Nothing is counted before the main loop, and the way out of it keeps what was.
Done == answers + lost + connection_errors

RoundsInv ==
  /\ pc \in BeforeLoop \cup {"failed"} => rounds = 0 /\ answers = 0 /\ lost = 0
  /\ pc \in BeforeLoop => connection_errors = 0
  /\ pc \in {"close", "flush"} => rounds = Done \/ rounds = Done + 1
  /\ pc # "join"
  /\ RoundsAccountedFor

\* Where the answer that is read next is still counted on: the stream is intact, or it
\* is reset and the message of the round has gone out before.  A round whose answer is
\* not read (a refused or failed send, an ended stream) is never followed by one that
\* reads an answer.
Tracking ==
  /\ ~net.ended /\ net.state = "active"
  /\ ~net.rst \/ pc = "read" \/ (pc = "send" /\ net.out = <<>>)

NextAnswer == (IF pc \in {"send", "read"} THEN rounds ELSE rounds + 1) - behind

InOrder ==
  pc \in MainLoop /\ Tracking => Ordered(net, NextAnswer, rounds + 1, rounds + 1)

OrderInv ==
  EchoServer =>
    /\ Before
    /\ pc \in {"send", "read"} => net.state = "active"
    /\ InOrder
    /\ LatencyLag

IInv == Shape /\ RoundsInv /\ OrderInv

-----------------------------------------------------------------------------
(***************************************************************************)
(* Types.                                                                  *)
(***************************************************************************)

\* The steps of the rounds that WsWorker does not know keep the types.
LEMMA RoundKeeps ==
  ASSUME Shape,
         Sent \/ ReadBinary \/ ReadOther \/ ReadNone \/ ReadFails \/ RecordLatency
           \/ RecordRequest \/ Close
  PROVE  Shape'
<1> USE DEF Shape, frozen, mine, benchVars, Goes
<1>0. net \in StreamType /\ WsTypeOK
  BY DEF WsShape
<1>1. net' \in StreamType
  <2>1. CASE Sent
    BY <1>0, <2>1, FlushedKeeps DEF Sent
  <2>2. CASE ReadBinary \/ ReadOther
    BY <1>0, <2>2, YieldsKeeps DEF ReadBinary, ReadOther
  <2>3. CASE ReadNone
    BY <1>0, <2>3, YieldsNoneKeeps DEF ReadNone
  <2>4. CASE ReadFails
    BY <1>0, <2>4, YieldsErrorKeeps DEF ReadFails
  <2>5. CASE RecordLatency \/ RecordRequest
    BY <1>0, <2>5 DEF RecordLatency, RecordRequest
  <2>6. CASE Close
    BY <1>0, <2>6, FlushedKeeps DEF Close
  <2> QED
    BY <2>1, <2>2, <2>3, <2>4, <2>5, <2>6
<1>2. /\ BenchTypeOK' /\ pc' \in Places
      /\ UNCHANGED <<frozen, expired, rounds>>
  <2> USE <1>0 DEF WsTypeOK, BenchTypeOK, Places, BeforeLoop, MainLoop, Phases
  <2>1. CASE Sent \/ ReadBinary \/ ReadOther \/ ReadNone
    BY <2>1 DEF Sent, ReadBinary, ReadOther, ReadNone
  <2>2. CASE ReadFails
    BY <2>2 DEF ReadFails, CountError, record_connection_error
  <2>3. CASE RecordLatency \/ RecordRequest
    BY <2>3 DEF RecordLatency, RecordRequest, CountLatency, record_latency, CountRequest,
       record_request
  <2>4. CASE Close
    BY <2>4 DEF Close, CountSuccess
  <2> QED
    BY <2>1, <2>2, <2>3, <2>4
<1>3. WsShape'
  BY <1>0, <1>1, <1>2, StreamIsNet DEF WsShape, WsTypeOK
<1>4. /\ counter' \in 0 .. SampleEvery - 1 /\ answer' \in 0 .. MaxRounds
      /\ answers' \in Nat /\ lost' \in Nat /\ behind' \in 0 .. lost'
  <2>1. CASE Sent
    BY <2>1, SampleEveryAssumption DEF Sent
  <2>2. CASE ReadBinary
    BY <1>0, <2>2, YieldsKeeps DEF ReadBinary, Numbered
  <2>3. CASE ReadOther \/ ReadNone
    BY <2>3 DEF ReadOther, ReadNone
  <2>4. CASE ReadFails \/ RecordLatency \/ RecordRequest \/ Close
    BY <2>4 DEF ReadFails, RecordLatency, RecordRequest, Close
  <2> QED
    BY <2>1, <2>2, <2>3, <2>4
<1> QED
  BY <1>3, <1>4

\* Every step keeps the types; the counter is taken modulo SampleEvery.
LEMMA ShapeNext == Shape /\ [Next]_vars => Shape'
<1> SUFFICES ASSUME Shape, [Next]_vars PROVE Shape'
  OBVIOUS
<1> USE DEF Shape, mine
<1>1. CASE WorkerStep
  <2>1. CASE Prepare
    BY <2>1, SetUpKeeps DEF Prepare
  <2>2. CASE StartRound \/ FlushStep \/ PaceStep \/ LeaveLoop
    <3>1. Edge /\ UNCHANGED <<frozen, expired, mine>>
      BY <2>2 DEF StartRound, FlushStep, PaceStep, LeaveLoop, Edge
    <3> QED
      BY <3>1, EdgeKeeps
  <2>3. CASE Sent \/ ReadBinary \/ ReadOther \/ ReadNone \/ ReadFails \/ RecordLatency
               \/ RecordRequest \/ Close
    BY <2>3, RoundKeeps
  <2> QED
    BY <1>1, <2>1, <2>2, <2>3 DEF WorkerStep
<1>2. CASE ByServer(ServerStep)
  <2>1. net' \in StreamType
    BY <1>2, ServerKeeps DEF ByServer, WsShape
  <2> QED
    BY <1>2, <2>1, StreamIsNet DEF ByServer, WsShape, WsTypeOK, BenchTypeOK, benchVars, frozen
<1>3. CASE ByMain(MainStep)
  BY <1>3, MainKeeps DEF ByMain
<1>4. CASE Expires
  BY <1>4 DEF Expires, Expire, WsShape, WsTypeOK, BenchTypeOK, benchVars, frozen
<1>5. CASE UNCHANGED vars
  BY <1>5 DEF vars, WsShape, WsTypeOK, BenchTypeOK, benchVars, frozen
<1> QED
  BY <1>1, <1>2, <1>3, <1>4, <1>5 DEF Next

-----------------------------------------------------------------------------
(***************************************************************************)
(* Rounds.                                                                 *)
(***************************************************************************)

\* Nothing is answered, and no error is recorded, before the main loop begins.
LEMMA PrepareKeepsRounds ==
  ASSUME Shape, RoundsInv, Prepare
  PROVE  RoundsInv'
<1> USE DEF Shape, WsShape, WsTypeOK, BenchTypeOK, RoundsInv, RoundsAccountedFor,
            BeforeLoop, Done, Goes, benchVars, mine, Prepare
<1>1. CASE Begin \/ Connect \/ FirstSent
  BY <1>1 DEF Begin, Connect, FirstSent, CountConnection, MainStop
<1>2. CASE FirstAnswer
  BY <1>2 DEF FirstAnswer, CountLatency
<1>3. CASE ConnectFails \/ FirstSendFails \/ FirstAnswerUnusable
  BY <1>3 DEF ConnectFails, FirstSendFails, FirstAnswerUnusable, GiveUp
<1>4. CASE FirstRequest
  BY <1>4 DEF FirstRequest, CountRequest, MainStop
<1> QED
  BY <1>1, <1>2, <1>3, <1>4 DEF SetUp

\* A round begins once, and each of its ends adds one answer, one loss or one error.
LEMMA RoundsNext == Shape /\ RoundsInv /\ [Next]_vars => RoundsInv'
<1> SUFFICES ASSUME Shape, RoundsInv, [Next]_vars PROVE RoundsInv'
  OBVIOUS
<1> USE DEF Shape, WsShape, WsTypeOK, BenchTypeOK, RoundsInv, RoundsAccountedFor,
            BeforeLoop, Done, Goes, benchVars, mine
<1>1. CASE WorkerStep
  <2>1. CASE Prepare
    BY <2>1, PrepareKeepsRounds
  <2>2. CASE StartRound
    BY <2>2 DEF StartRound, BeginSend, SendRefused, SendFails, CanStart, CountError,
       record_connection_error
  <2>3. CASE FlushStep
    BY <2>3 DEF FlushStep, Flush
  <2>4. CASE Sent \/ ReadBinary
    BY <2>4 DEF Sent, ReadBinary
  <2>5. CASE ReadOther \/ ReadNone
    BY <2>5 DEF ReadOther, ReadNone
  <2>6. CASE ReadFails
    BY <2>6 DEF ReadFails, CountError, record_connection_error
  <2>7. CASE RecordLatency \/ RecordRequest \/ PaceStep
    BY <2>7 DEF RecordLatency, RecordRequest, PaceStep, Pace, CountLatency, CountRequest
  <2>8. CASE LeaveLoop
    BY <2>8 DEF LeaveLoop, Leave, LifetimeEnds, ShutdownEnds, SendClose, Waiting
  <2>9. CASE Close
    BY <2>9 DEF Close, CountSuccess
  <2> QED
    BY <1>1, <2>1, <2>2, <2>3, <2>4, <2>5, <2>6, <2>7, <2>8, <2>9 DEF WorkerStep
<1>2. CASE ByServer(ServerStep) \/ Expires
  BY <1>2 DEF ByServer, Expires
<1>3. CASE ByMain(MainStep)
  BY <1>3 DEF ByMain, MainStep, end_warmup, set_shutting_down, NotifyShutdown
<1>4. CASE UNCHANGED vars
  BY <1>4 DEF vars
<1> QED
  BY <1>1, <1>2, <1>3, <1>4 DEF Next

-----------------------------------------------------------------------------
(***************************************************************************)
(* The order of the answers.                                               *)
(***************************************************************************)

\* The numbers the order is stated with.
LEMMA Whole ==
  ASSUME Shape
  PROVE  /\ net \in StreamType /\ rounds \in Nat /\ behind \in Nat
         /\ NextAnswer \in Int /\ rounds + 1 \in Int
BY BoundsAssumption DEF Shape, WsShape, WsTypeOK, NextAnswer

\* The main loop begins with the stream in order.
LEMMA PrepareOrders ==
  ASSUME Shape, RoundsInv, OrderInv, EchoServer, Prepare
  PROVE  OrderInv'
<1>1. /\ Before'
      /\ pc' \in MainLoop => Ordered(net', 1, 1, 1)
  BY Whole, SetUpBefore DEF Prepare, OrderInv
<1>2. /\ pc \in BeforeLoop
      /\ pc' \notin {"send", "read", "latency", "request"}
      /\ UNCHANGED <<rounds, behind>>
  BY DEF Prepare, SetUp, Begin, Connect, ConnectFails, FirstSent, FirstSendFails, FirstAnswer,
     FirstRequest, FirstAnswerUnusable, GiveUp, Goes, MainStop, BeforeLoop, mine
<1>3. NextAnswer' = 1 /\ rounds' + 1 = 1
  BY <1>2 DEF RoundsInv, NextAnswer, Shape
<1> QED
  BY <1>1, <1>2, <1>3 DEF OrderInv, InOrder, LatencyLag

\* A step within the main loop that leaves the stream's order as it is, and what is read
\* next, keeps the order.
LEMMA SteadyOrders ==
  ASSUME OrderInv, EchoServer, pc \in MainLoop, pc' \in MainLoop,
         pc' \in {"send", "read"} => net'.state = "active",
         Tracking' => Tracking /\ NextAnswer' = NextAnswer /\ rounds' = rounds,
         Ordered(net, NextAnswer, rounds + 1, rounds + 1) =>
           Ordered(net', NextAnswer, rounds + 1, rounds + 1),
         LatencyLag'
  PROVE  OrderInv'
BY DEF OrderInv, InOrder, Before, MainLoop

\* A round adds its message at the end of the messages, if the stream takes it.
LEMMA StartOrders ==
  ASSUME Shape, OrderInv, EchoServer, StartRound
  PROVE  OrderInv'
<1>0. net \in StreamType /\ rounds \in Nat /\ behind \in Nat
  BY Whole
<1> USE DEF Goes
<1>1. CASE BeginSend
  <2>1. /\ pc = "loop" /\ pc' = "send" /\ rounds' = rounds + 1 /\ behind' = behind
        /\ net.state = "active"
    BY <1>1 DEF StartRound, BeginSend, CanStart, Buffer, mine
  <2>2. /\ net'.state = "active" /\ net'.out # <<>>
        /\ net'.rst = net.rst /\ net'.ended = net.ended
    <3> DEFINE f == Carries("binary", rounds + 1)
    <3>0. f.kind = "binary"
      BY DEF Carries
    <3> HIDE DEF f
    <3>1. net' = [net EXCEPT !.out = Append(@, f), !.state = @]
      BY <1>1, <3>0 DEF BeginSend, Buffer, f
    <3>2. net'.out = Append(net.out, f)
      BY <1>0, <3>1 DEF StreamType
    <3>3. net.out \in Seq(Numbered)
      BY <1>0 DEF StreamType
    <3>4. Append(net.out, f) # <<>>
      BY <3>3
    <3> QED
      BY <1>0, <2>1, <3>1, <3>2, <3>4 DEF StreamType
  <2>3. ASSUME Tracking'
        PROVE  Ordered(net', NextAnswer', rounds' + 1, rounds' + 1)
    <3>1. Tracking
      BY <2>1, <2>2, <2>3 DEF Tracking
    <3>2. Ordered(net, NextAnswer, rounds + 1, rounds + 1) /\ NextAnswer \in Int
      BY <2>1, <3>1, Whole DEF OrderInv, InOrder, MainLoop
    <3>3. NextAnswer' = NextAnswer
      BY <1>0, <2>1 DEF NextAnswer
    <3> QED
      BY <1>0, <1>1, <3>2, <3>3, BeginOrders
  <2> QED
    BY <2>1, <2>2, <2>3 DEF OrderInv, InOrder, Before, LatencyLag, MainLoop
<1>2. CASE SendRefused
  <2>1. pc' = "loop" /\ net'.state # "active"
    BY <1>2 DEF SendRefused, CanStart
  <2> QED
    BY <2>1 DEF OrderInv, InOrder, Before, LatencyLag, Tracking, MainLoop
<1>3. CASE SendFails
  <2>1. pc' = "loop" /\ net'.rst
    BY <1>0, <1>3 DEF SendFails, FlushFails, StreamType
  <2> QED
    BY <2>1 DEF OrderInv, InOrder, Before, LatencyLag, Tracking, MainLoop
<1> QED
  BY <1>1, <1>2, <1>3 DEF StartRound

\* A frame goes out, be it that of the first message, of a round, or of the end.
LEMMA FlushStepOrders ==
  ASSUME Shape, OrderInv, EchoServer, FlushStep
  PROVE  OrderInv'
<1>0. net \in StreamType /\ NextAnswer \in Int /\ rounds + 1 \in Int
  BY Whole
<1>1. /\ Flush /\ UNCHANGED <<pc, rounds, answer, behind>> /\ pc \in {"first_send", "send", "flush"}
      /\ net'.state = net.state /\ net'.ended = net.ended /\ ~net.rst
  BY <1>0 DEF FlushStep, Flush, mine, StreamType
<1>2. CASE pc = "first_send"
  BY <1>0, <1>1, <1>2, FlushFirst DEF OrderInv, Before, InOrder, LatencyLag, MainLoop
<1>3. CASE pc = "send"
  <2>1. Ordered(net, NextAnswer, rounds + 1, rounds + 1) =>
          Ordered(net', NextAnswer, rounds + 1, rounds + 1)
    BY <1>0, <1>1, StreamOrders
  <2> QED
    BY <1>1, <1>3, <2>1, SteadyOrders DEF OrderInv, Tracking, NextAnswer, LatencyLag, MainLoop
<1>4. CASE pc = "flush"
  BY <1>1, <1>4 DEF OrderInv, Before, InOrder, LatencyLag, MainLoop
<1> QED
  BY <1>1, <1>2, <1>3, <1>4

\* A round that reads an answer reads the one that is next; a frame that is none leaves
\* the answer of the round for a later one.
LEMMA ReadStepOrders ==
  ASSUME Shape, OrderInv, EchoServer, ReadBinary \/ ReadOther
  PROVE  OrderInv'
<1>0. /\ net \in StreamType /\ rounds \in Nat /\ behind \in Nat
      /\ NextAnswer \in Int /\ rounds + 1 \in Int
  BY Whole
<1>1. /\ pc = "read" /\ net.state = "active" /\ ~net.ended /\ UNCHANGED rounds
  BY DEF ReadBinary, ReadOther, Goes, Yields, OrderInv
<1>2. Ordered(net, NextAnswer, rounds + 1, rounds + 1) /\ NextAnswer = rounds - behind
  BY <1>1 DEF OrderInv, InOrder, Tracking, NextAnswer, MainLoop
<1>3. IF Counts(Head(net.s2c))
      THEN Head(net.s2c).of = NextAnswer /\ Ordered(net', NextAnswer + 1, rounds + 1, rounds + 1)
      ELSE Head(net.s2c).of = 0 /\ Ordered(net', NextAnswer, rounds + 1, rounds + 1)
  BY <1>0, <1>2, ReadOrders DEF ReadBinary, ReadOther
<1>4. CASE ReadBinary
  <2>1. /\ pc' = "latency" /\ answer' = Head(net.s2c).of /\ behind' = behind
        /\ Counts(Head(net.s2c))
    BY <1>4 DEF ReadBinary, Goes, Yields, Counts
  <2>2. NextAnswer' = NextAnswer + 1 /\ answer' + behind' = rounds'
    BY <1>0, <1>1, <1>2, <1>3, <2>1 DEF NextAnswer
  <2> QED
    BY <1>1, <1>3, <2>1, <2>2 DEF OrderInv, Before, InOrder, LatencyLag
<1>5. CASE ReadOther
  <2>1. /\ pc' = "pace" /\ Yields({"other", "close"})
        /\ behind' = IF Head(net.s2c).of = 0 THEN behind + 1 ELSE behind
    BY <1>5 DEF ReadOther, Goes
  <2>2. ASSUME net'.state = "active"
        PROVE  Ordered(net', NextAnswer', rounds' + 1, rounds' + 1)
    <3>1. Head(net.s2c).kind = "other"
      BY <1>0, <1>1, <2>1, <2>2 DEF Yields, StreamType
    <3>2. Counts(Head(net.s2c)) <=> Head(net.s2c).of # 0
      BY <3>1 DEF Counts
    <3>3. CASE Head(net.s2c).of # 0
      <4>1. NextAnswer' = NextAnswer + 1
        BY <1>0, <1>1, <1>2, <2>1, <3>3 DEF NextAnswer
      <4> QED
        BY <1>1, <1>3, <3>2, <3>3, <4>1
    <3>4. CASE Head(net.s2c).of = 0
      <4>1. NextAnswer' = NextAnswer
        BY <1>0, <1>1, <1>2, <2>1, <3>4 DEF NextAnswer
      <4> QED
        BY <1>1, <1>3, <3>2, <3>4, <4>1
    <3> QED
      BY <3>3, <3>4
  <2> QED
    BY <1>1, <2>1, <2>2 DEF OrderInv, Before, InOrder, LatencyLag, Tracking
<1> QED
  BY <1>4, <1>5

\* The rest of a round, and the ways out of the loop.
LEMMA RestOrders ==
  ASSUME Shape, OrderInv, EchoServer,
         Sent \/ ReadNone \/ ReadFails \/ RecordLatency \/ RecordRequest \/ PaceStep
           \/ LeaveLoop \/ Close
  PROVE  OrderInv'
<1>0. net \in StreamType
  BY Whole
<1> USE DEF Goes
<1>1. CASE Sent
  BY <1>1, SteadyOrders DEF Sent, Flushed, OrderInv, Tracking, NextAnswer, LatencyLag, MainLoop
<1>2. CASE ReadNone \/ ReadFails
  <2>1. net'.ended /\ pc' \in {"pace", "loop"}
    BY <1>0, <1>2 DEF ReadNone, ReadFails, YieldsNone, YieldsError, StreamType
  <2> QED
    BY <2>1 DEF OrderInv, Before, InOrder, LatencyLag, Tracking
<1>3. CASE RecordLatency \/ RecordRequest \/ PaceStep
  <2>1. /\ net' = net /\ UNCHANGED <<rounds, answer, behind>>
        /\ pc \in {"latency", "request", "pace"} /\ pc' \in {"request", "pace", "loop"}
        /\ pc' = "request" => pc = "latency"
    BY <1>3 DEF RecordLatency, RecordRequest, PaceStep, Pace, mine
  <2> QED
    BY <2>1, SteadyOrders DEF OrderInv, Tracking, NextAnswer, LatencyLag, MainLoop
<1>4. CASE LeaveLoop \/ Close
  <2>1. pc' \in {"close", "flush", "closed"}
    BY <1>4 DEF LeaveLoop, Leave, LifetimeEnds, ShutdownEnds, SendClose, Close
  <2> QED
    BY <2>1 DEF OrderInv, Before, InOrder, LatencyLag, MainLoop
<1> QED
  BY <1>1, <1>2, <1>3, <1>4

\* The server keeps the order, and does nothing before there is a connection.
LEMMA ServerStepOrders ==
  ASSUME Shape, OrderInv, EchoServer, ByServer(ServerStep)
  PROVE  OrderInv'
<1>0. net \in StreamType /\ NextAnswer \in Int /\ rounds + 1 \in Int
  BY Whole
<1>1. /\ ServerStep /\ UNCHANGED <<pc, rounds, answer, behind>>
      /\ NextAnswer' = NextAnswer
  BY DEF ByServer, mine, NextAnswer
<1>2. /\ net'.state = net.state /\ net'.ended = net.ended /\ net'.out = net.out
      /\ net.rst => net'.rst
  BY <1>0, <1>1, ServerServes DEF Serves
<1>3. pc \notin {"start", "connect"}
  <2>1. ~ServerUp => net.eof
    BY <1>1 DEF ServerStep, ServerReads, ServerAnswers, ServerIgnores, ServerCloses, Takes,
       ServerPings, ServerChats, ServerSays, ServerFails, ServerHangsUp, ServerRefuses
  <2> QED
    BY <2>1 DEF OrderInv, Before, Fresh, Up, ServerUp
<1>4. Before'
  <2>1. Ordered(net, 1, 1, 1) => Ordered(net', 1, 1, 1)
    BY <1>0, <1>1, ServerOrders
  <2> QED
    BY <1>0, <1>1, <1>2, <1>3, <2>1, ServerFirst DEF OrderInv, Before
<1>5. Ordered(net, NextAnswer, rounds + 1, rounds + 1) =>
        Ordered(net', NextAnswer, rounds + 1, rounds + 1)
  BY <1>0, <1>1, ServerOrders
<1>6. Tracking' => Tracking
  BY <1>1, <1>2 DEF Tracking
<1> QED
  BY <1>1, <1>2, <1>4, <1>5, <1>6 DEF OrderInv, InOrder, LatencyLag

\* Every step keeps the order.
LEMMA OrderNext == Shape /\ RoundsInv /\ OrderInv /\ [Next]_vars => OrderInv'
<1> SUFFICES ASSUME Shape, RoundsInv, OrderInv, [Next]_vars PROVE OrderInv'
  OBVIOUS
<1>0. UNCHANGED frozen
  BY DEF Next, WorkerStep, Prepare, StartRound, FlushStep, Sent, ReadBinary, ReadOther,
     ReadNone, ReadFails, RecordLatency, RecordRequest, PaceStep, LeaveLoop, Close, ByServer,
     ByMain, Expires, vars
<1>1. CASE ~EchoServer
  BY <1>0, <1>1 DEF OrderInv, EchoServer, frozen
<1>2. CASE EchoServer
  <2>1. CASE WorkerStep
    BY <1>2, <2>1, PrepareOrders, StartOrders, FlushStepOrders, ReadStepOrders, RestOrders
       DEF WorkerStep
  <2>2. CASE ByServer(ServerStep)
    BY <1>2, <2>2, ServerStepOrders
  <2>3. CASE ByMain(MainStep) \/ Expires \/ UNCHANGED vars
    <3>1. UNCHANGED <<frozen, pc, rounds, net, mine>>
      BY <2>3 DEF ByMain, Expires, vars
    <3> QED
      BY <3>1 DEF OrderInv, Before, InOrder, Tracking, NextAnswer, LatencyLag, EchoServer,
         frozen, mine
  <2> QED
    BY <2>1, <2>2, <2>3 DEF Next
<1> QED
  BY <1>1, <1>2

-----------------------------------------------------------------------------
(***************************************************************************)
(* The theorems.                                                           *)
(***************************************************************************)

\* The initial state satisfies the inductive invariant.
LEMMA InductiveInit == Init => IInv
<1> SUFFICES ASSUME Init PROVE IInv
  OBVIOUS
<1>1. Shape
  BY WsShapeInit, SampleEveryAssumption, BoundsAssumption DEF Init, Shape
<1>2. RoundsInv
  BY DEF Init, WsInit, BenchInit, RoundsInv, RoundsAccountedFor, BeforeLoop
<1>3. OrderInv
  BY DEF Init, WsInit, OrderInv, Before, Fresh, Up, InOrder, LatencyLag, MainLoop
<1> QED
  BY <1>1, <1>2, <1>3 DEF IInv

\* Every behaviour of the ping-pong worker satisfies the inductive invariant.
THEOREM Inductive == Spec => []IInv
<1>1. IInv /\ [Next]_vars => IInv'
  BY ShapeNext, RoundsNext, OrderNext DEF IInv
<1> QED
  BY InductiveInit, <1>1, PTL DEF Spec

\* Every variable keeps its type: the stream carries numbers of rounds that have begun,
\* and a round takes one frame off the stream at most, so that there are no more
\* answers and losses than rounds.
THEOREM TypeCorrect == Spec => []TypeOK
<1>1. ASSUME IInv PROVE TypeOK
  <2> USE <1>1 DEF IInv, Shape, WsShape
  <2>1. answers + lost <= rounds
    BY DEF WsTypeOK, BenchTypeOK, Places, MainLoop, RoundsInv, RoundsAccountedFor, BeforeLoop,
       Done
  <2>2. rounds \in 0 .. MaxRounds
    BY DEF WsTypeOK
  <2> QED
    BY <2>1, <2>2, BoundsAssumption DEF TypeOK
<1> QED
  BY Inductive, <1>1, PTL

\* Whatever the server sends and wherever the shutdown breaks a round off, the round is
\* accounted for exactly once: by a binary answer, as lost, by a recorded error, or as
\* the one under way.
THEOREM RoundsCorrect == Spec => []RoundsAccountedFor
<1>1. IInv => RoundsAccountedFor
  BY DEF IInv, RoundsInv
<1> QED
  BY Inductive, <1>1, PTL

\* At an echo server, however many pings and unusable answers the rounds took for their
\* own, the answer a latency is recorded for is as many rounds old as there were frames
\* nobody asked for, and never one of a round that is still to come.
THEOREM LatencyLagCorrect == Spec => []LatencyLag
<1>1. IInv => LatencyLag
  BY DEF IInv, OrderInv, LatencyLag
<1> QED
  BY Inductive, <1>1, PTL

-----------------------------------------------------------------------------
(***************************************************************************)
(* The refinement of Connection.                                           *)
(***************************************************************************)

\* Every step of the worker and of the benchmark is one of Connection, or none.
LEMMA Refines == [Next]_vars => [Conn!Next]_Conn!connVars
<1> SUFFICES ASSUME [Next]_vars PROVE Conn!Next \/ UNCHANGED Conn!connVars
  OBVIOUS
<1> USE DEF Goes, ConnOf, WorkerEnded
<1>1. CASE WorkerStep
  <2>1. CASE Prepare
    BY <2>1, SetUpRefines DEF Prepare
  <2>2. CASE StartRound \/ FlushStep \/ PaceStep \/ LeaveLoop
    <3>1. Edge
      BY <2>2 DEF StartRound, FlushStep, PaceStep, LeaveLoop, Edge
    <3> QED
      BY <3>1, EdgeRefines
  <2>3. CASE Sent \/ ReadBinary \/ ReadOther \/ ReadNone
    BY <2>3, Stutter DEF Sent, ReadBinary, ReadOther, ReadNone, Counters, benchVars
  <2>4. CASE ReadFails
    BY <2>4, ErrorRefines DEF ReadFails
  <2>5. CASE RecordLatency
    BY <2>5, Stutter DEF RecordLatency, CountLatency, Counters
  <2>6. CASE RecordRequest
    BY <2>6, RequestRefines DEF RecordRequest, CountRequest
  <2>7. CASE Close
    BY <2>7, SuccessRefines DEF Close
  <2> QED
    BY <1>1, <2>1, <2>2, <2>3, <2>4, <2>5, <2>6, <2>7 DEF WorkerStep
<1>2. CASE ByServer(ServerStep) \/ Expires
  BY <1>2, Stutter DEF ByServer, Expires, Counters, benchVars
<1>3. CASE ByMain(MainStep)
  BY <1>3, MainRefines DEF ByMain
<1>4. CASE UNCHANGED vars
  BY <1>4, Stutter DEF vars, Counters, benchVars
<1> QED
  BY <1>1, <1>2, <1>3, <1>4 DEF Next

\* The worker is a connection task as the runner knows it: whatever frames and errors
\* the stream yields, it begins once, ends once, and touches no counter after that.
THEOREM ImplementsConnection == Spec => ConnectionSpec
<1>1. Init => Conn!Init
  BY DEF Init, WsInit, BenchInit, Conn!Init, ConnOf, WorkerEnded
<1>2. ConnectionSpec <=> Conn!Init /\ [][Conn!Next]_Conn!connVars
  BY DEF ConnectionSpec, Conn!Spec
<1> QED
  BY <1>1, <1>2, Refines, PTL DEF Spec
=============================================================================
