--------------------------- MODULE WsPipelineProofs ---------------------------
(***************************************************************************)
(* Proofs about WsPipeline, for every number of rounds, window, server and *)
(* configuration.                                                          *)
(***************************************************************************)
EXTENDS WsPipeline, WsWorkerProofs

Shape == Types /\ net \in StreamType

\* The reader lives from the beginning of the main loop to the end of the worker.
BeforeReader == BeforeLoop \cup {"failed"}

LifeInv ==
  /\ pc \in BeforeReader <=> rpc = "off"
  /\ pc = "closed" => rpc = "done"
  /\ pc \in {"first_send", "first_read", "first_request"} => config.first_message

\* A time in the queue, or in the reader's hand, pays for one request.
InHand == IF rpc \in {"latency", "request"} THEN 1 ELSE 0
Sends == rounds + (IF config.first_message THEN 1 ELSE 0)

CountInv ==
  /\ rpc = "off" => total_requests = 0 /\ rounds = 0 /\ sent_times = <<>>
  /\ total_requests + (Len(sent_times) + InHand) <= Sends

\* At an echo server the answer that is read next is that of the round behind the last
\* one.  The messages reach to the latest round until a Close has been seen, and at an
\* orderly server to the end.
Orderly == EchoServer /\ ~server.fails /\ server.closes

Latest == IF net.state = "active" \/ Orderly THEN rounds + 1 ELSE 1

OrderInv ==
  EchoServer =>
    /\ Before
    /\ rpc \notin {"off", "done"} => Ordered(net, answer + 1, Latest, rounds + 1)

\* The queue holds the latest rounds, and for every answer a time has been taken, or it
\* has gone by unmatched, or it is the one in hand.
Taken == rounds - Len(sent_times)
Pending == IF rpc = "steal" THEN 1 ELSE 0

QueueInv ==
  /\ rpc = "off" => answer = 0 /\ unmatched = 0
  /\ \A i \in 1 .. Len(sent_times) : sent_times[i] = Taken + i
  /\ EchoServer /\ rpc # "done" => (Taken + unmatched) + Pending = answer
  /\ EchoServer /\ rpc \in {"latency", "request"} => sent_time + unmatched = answer

\* An orderly server speaks of the end only when it has read the Close, which is the
\* last frame it is sent.
Avoids(q, kind) == \A i \in 1 .. Len(q) : q[i].kind # kind
CloseLast(q) == \A i \in 1 .. Len(q) : q[i].kind = "close" => i = Len(q)

Closing(s) ==
  /\ ~s.bye /\ ~s.rst /\ s.state \in {"active", "by_us", "acked"}
  /\ s.state = "active" => Avoids(s.out, "close") /\ Avoids(s.c2s, "close") /\ ~s.eof
  /\ CloseLast(s.out) /\ CloseLast(s.c2s)
  /\ Avoids(s.c2s, "close") \/ s.out = <<>>
  /\ Avoids(s.s2c, "invalid")
  /\ s.eof => /\ s.c2s = <<>> /\ s.out = <<>>
              /\ s.state = "acked" \/ (s.s2c # <<>> /\ s.s2c[Len(s.s2c)].kind = "close")
  /\ ~s.eof => Avoids(s.s2c, "close") /\ s.state # "acked"

DrainInv ==
  Orderly /\ pc # "failed" =>
    /\ Closing(net)
    /\ net.ended => rpc = "done"
    /\ net.state = "active" <=> pc \notin {"flush", "join", "closed"}
    /\ rpc \notin {"off", "done"} /\ net.eof => Numbers(net.s2c, answer + 1, rounds + 1)
    /\ rpc = "done" => answer = rounds /\ net.eof

IInv == Shape /\ LifeInv /\ CountInv /\ OrderInv /\ QueueInv /\ DrainInv

-----------------------------------------------------------------------------
(***************************************************************************)
(* Types.                                                                  *)
(***************************************************************************)

\* The steps of the worker's own task keep the types; a time that is queued is the
\* number of a round.
LEMMA WriterKeeps ==
  ASSUME Shape, WriterStep
  PROVE  Shape'
<1> USE DEF Shape, readerVars, ByWriter
<1>0. WsShape
  BY DEF Types, WsShape
<1>1. CASE Prepare
  <2>1. WsShape'
    BY <1>0, <1>1, SetUpKeeps DEF Prepare
  <2> QED
    BY <1>1, <2>1 DEF Prepare, Types, WsShape
<1>2. CASE StartRound
  <2>1. Edge /\ UNCHANGED <<frozen, expired, readerVars>>
    BY <1>2 DEF StartRound, Edge
  <2>2. WsShape'
    BY <1>0, <2>1, EdgeKeeps
  <2>3. rounds' \in 1 .. MaxRounds
    BY <1>2, BoundsAssumption DEF StartRound, BeginSend, SendRefused, CanStart, Types, WsTypeOK
  <2>4. sent_times' \in Seq(1 .. MaxRounds)
    BY <1>2, <2>3 DEF StartRound, Types
  <2> QED
    BY <2>1, <2>2, <2>4 DEF Types, WsShape
<1>3. CASE ByWriter(SendFails \/ Flush \/ Pace \/ Leave) /\ UNCHANGED sent_times
  <2>1. WsShape'
    BY <1>0, <1>3, EdgeKeeps DEF Edge
  <2> QED
    BY <1>3, <2>1 DEF Types, WsShape
<1>4. CASE /\ ByWriter((SendEnds /\ ~SendFails) \/ DropWriter \/ Join)
           /\ UNCHANGED sent_times
  <2>1. net' \in StreamType
    BY <1>4, FlushedKeeps DEF SendEnds, DropWriter, Join
  <2>2. /\ BenchTypeOK' /\ pc' \in Places
        /\ UNCHANGED <<frozen, expired, rounds>>
    BY <1>4 DEF SendEnds, DropWriter, Join, Goes, CountSuccess, Types, WsTypeOK, BenchTypeOK,
       Places, BeforeLoop, MainLoop, benchVars
  <2>3. WsTypeOK'
    BY <2>1, <2>2, StreamIsNet DEF Types, WsTypeOK, frozen
  <2> QED
    BY <1>4, <2>1, <2>3 DEF Types
<1> QED
  BY <1>1, <1>2, <1>3, <1>4 DEF WriterStep, SendEnds

\* The reader takes round numbers from the stream and from the queue.
LEMMA ReaderKeepsTypes ==
  ASSUME Shape, ReaderStep
  PROVE  Shape'
<1> USE DEF Shape, ReaderGoes, ReaderKeeps
<1>1. net' \in StreamType
  <2>1. CASE ReadBinary \/ ReadOther
    BY <2>1, YieldsKeeps DEF ReadBinary, ReadOther
  <2>2. CASE ReadNone
    BY <2>2, YieldsNoneKeeps DEF ReadNone
  <2>3. CASE ReadFails
    BY <2>3, YieldsErrorKeeps DEF ReadFails
  <2>4. CASE Steal \/ StealMisses \/ RecordLatency \/ RecordRequest
    BY <2>4 DEF Steal, StealMisses, RecordLatency, RecordRequest
  <2> QED
    BY <2>1, <2>2, <2>3, <2>4 DEF ReaderStep
<1>2. BenchTypeOK' /\ UNCHANGED <<frozen, pc, expired, rounds>>
  <2> USE DEF Types, WsTypeOK, BenchTypeOK, benchVars
  <2>1. CASE ReadBinary \/ ReadOther \/ ReadNone \/ Steal \/ StealMisses
    BY <2>1 DEF ReadBinary, ReadOther, ReadNone, Steal, StealMisses
  <2>2. CASE ReadFails
    BY <2>2 DEF ReadFails, CountError, record_connection_error
  <2>3. CASE RecordLatency
    BY <2>3 DEF RecordLatency, CountLatency, record_latency
  <2>4. CASE RecordRequest
    BY <2>4 DEF RecordRequest, CountRequest, record_request
  <2> QED
    BY <2>1, <2>2, <2>3, <2>4 DEF ReaderStep
<1>3. WsTypeOK'
  BY <1>1, <1>2, StreamIsNet DEF Types, WsTypeOK, frozen
<1>4. /\ rpc' \in {"off", "read", "steal", "latency", "request", "done"}
      /\ sent_times' \in Seq(1 .. MaxRounds) /\ sent_time' \in 0 .. MaxRounds
      /\ counter' \in 0 .. SampleEvery - 1
      /\ answer' \in 0 .. MaxRounds /\ unmatched' \in Nat
  <2> USE DEF Types
  <2>1. CASE ReadBinary
    BY <2>1, YieldsKeeps, SampleEveryAssumption DEF ReadBinary, Numbered
  <2>2. CASE ReadOther
    BY <2>2, YieldsKeeps DEF ReadOther, Numbered
  <2>3. CASE Steal
    <3>1. sent_times \in Seq(1 .. MaxRounds) /\ sent_times # <<>>
      BY <2>3 DEF Steal
    <3>2. Head(sent_times) \in 1 .. MaxRounds /\ Tail(sent_times) \in Seq(1 .. MaxRounds)
      BY <3>1, HeadTailProperties
    <3>3. Head(sent_times) \in 0 .. MaxRounds
      BY <3>2
    <3> QED
      BY <2>3, <3>2, <3>3 DEF Steal
  <2>4. CASE ReadNone \/ ReadFails \/ StealMisses \/ RecordLatency \/ RecordRequest
    BY <2>4 DEF ReadNone, ReadFails, StealMisses, RecordLatency, RecordRequest
  <2> QED
    BY <2>1, <2>2, <2>3, <2>4 DEF ReaderStep
<1> QED
  BY <1>1, <1>3, <1>4 DEF Types

\* Every step keeps the types.
LEMMA ShapeNext == Shape /\ [Next]_vars => Shape'
<1> SUFFICES ASSUME Shape, [Next]_vars PROVE Shape'
  OBVIOUS
<1> USE DEF Shape, Types, readerVars, Others
<1>1. CASE WriterStep
  BY <1>1, WriterKeeps
<1>2. CASE ReaderStep
  BY <1>2, ReaderKeepsTypes
<1>3. CASE ByServer(ServerStep)
  <2>1. net' \in StreamType
    BY <1>3, ServerKeeps DEF ByServer
  <2> QED
    BY <1>3, <2>1, StreamIsNet DEF ByServer, WsTypeOK, BenchTypeOK, benchVars, frozen
<1>4. CASE ByMain(MainStep)
  BY <1>4, MainKeeps DEF ByMain, WsShape
<1>5. CASE Expires
  BY <1>5 DEF Expires, Expire, WsTypeOK, BenchTypeOK, benchVars, frozen
<1>6. CASE UNCHANGED vars
  BY <1>6 DEF vars, WsTypeOK, BenchTypeOK, benchVars, frozen
<1> QED
  BY <1>1, <1>2, <1>3, <1>4, <1>5, <1>6 DEF Next

-----------------------------------------------------------------------------
(***************************************************************************)
(* The reader's life.                                                      *)
(***************************************************************************)

\* The reader is spawned with the main loop, and the worker waits for its end.
LEMMA LifeNext == Shape /\ LifeInv /\ [Next]_vars => LifeInv'
<1> SUFFICES ASSUME Shape, LifeInv, [Next]_vars PROVE LifeInv'
  OBVIOUS
<1> USE DEF LifeInv, BeforeReader, BeforeLoop, Goes, readerVars, frozen, Others
<1>1. CASE WriterStep
  <2>1. CASE Prepare
    BY <2>1 DEF Prepare, SetUp, Begin, Connect, ConnectFails, FirstSent, FirstSendFails,
       FirstAnswer, FirstRequest, FirstAnswerUnusable, GiveUp, MainStop, MainLoop
  <2>2. CASE StartRound
    BY <2>2 DEF StartRound, ByWriter, BeginSend, SendRefused, CanStart
  <2>3. CASE ByWriter(Flush)
    BY <2>3 DEF ByWriter, Flush
  <2>4. CASE ByWriter(SendEnds \/ Pace \/ Leave \/ DropWriter \/ Join)
    BY <2>4 DEF ByWriter, SendEnds, SendFails, Pace, Leave, LifetimeEnds, ShutdownEnds, Waiting,
       SendClose, DropWriter, Join
  <2> QED
    BY <1>1, <2>1, <2>2, <2>3, <2>4 DEF WriterStep, ByWriter
<1>2. CASE ReaderStep
  BY <1>2 DEF ReaderStep, ReadBinary, ReadOther, ReadNone, ReadFails, Steal, StealMisses,
     RecordLatency, RecordRequest, ReaderGoes
<1>3. CASE ByServer(ServerStep) \/ ByMain(MainStep) \/ Expires
  BY <1>3 DEF ByServer, ByMain, Expires
<1>4. CASE UNCHANGED vars
  BY <1>4 DEF vars
<1> QED
  BY <1>1, <1>2, <1>3, <1>4 DEF Next

-----------------------------------------------------------------------------
(***************************************************************************)
(* Counts.                                                                 *)
(***************************************************************************)

\* A round pays for the time it queues, a time for the request it is taken for.
LEMMA CountNext == Shape /\ LifeInv /\ CountInv /\ [Next]_vars => CountInv'
<1> SUFFICES ASSUME Shape, LifeInv, CountInv, [Next]_vars PROVE CountInv'
  OBVIOUS
<1>0. /\ total_requests \in Nat /\ rounds \in Nat
      /\ sent_times \in Seq(1 .. MaxRounds) /\ Len(sent_times) \in Nat
  BY BoundsAssumption DEF Shape, Types, WsTypeOK, BenchTypeOK
<1> USE <1>0 DEF CountInv, Sends, InHand, readerVars, frozen, Others, benchVars, Goes
<1>1. CASE WriterStep
  <2>1. CASE Prepare
    <3>1. rpc = "off" /\ rpc' \in {"off", "read"} /\ UNCHANGED <<sent_times, config, rounds>>
      BY <2>1 DEF Prepare, SetUp, Begin, Connect, ConnectFails, FirstSent, FirstSendFails,
         FirstAnswer, FirstRequest, FirstAnswerUnusable, GiveUp, LifeInv, BeforeReader, BeforeLoop
    <3>2. CASE FirstRequest
      <4>1. total_requests' \in {0, 1} /\ config.first_message /\ rpc' = "read"
        BY <2>1, <3>1, <3>2 DEF FirstRequest, CountRequest, record_request, LifeInv,
           MainStop, MainLoop, Prepare
      <4>2. Len(sent_times') = 0 /\ rounds' = 0 /\ sent_times' = <<>> /\ config' = config
        BY <3>1
      <4>3. total_requests' \in Nat /\ total_requests' <= 1
        BY <4>1
      <4>4. InHand' = 0
        BY <4>1
      <4>5. Sends' = 1
        BY <4>1, <4>2
      <4>6. Len(sent_times') + InHand' = 0
        BY <4>2, <4>4
      <4>7. total_requests' + (Len(sent_times') + InHand') <= Sends'
        BY <4>3, <4>5, <4>6
      <4> QED
        BY <4>1, <4>7
    <3>3. CASE ~FirstRequest
      <4>1. UNCHANGED total_requests
        BY <2>1, <3>3 DEF Prepare, SetUp, Begin, Connect, ConnectFails, FirstSent,
           FirstSendFails, FirstAnswer, FirstAnswerUnusable, GiveUp, CountError, CountConnection,
           CountLatency
      <4> QED
        BY <3>1, <4>1
    <3> QED
      BY <3>2, <3>3
  <2>2. CASE StartRound
    <3>1. /\ rounds' = rounds + 1 /\ Len(sent_times') = Len(sent_times) + 1
          /\ UNCHANGED <<total_requests, config, rpc>>
      BY <2>2 DEF StartRound, ByWriter, BeginSend, SendRefused, CountError
    <3>2. rpc # "off"
      BY <2>2 DEF StartRound, ByWriter, BeginSend, SendRefused, CanStart, LifeInv,
         BeforeReader, BeforeLoop
    <3> QED
      BY <3>1, <3>2
  <2>3. CASE /\ ByWriter(Flush \/ SendEnds \/ Pace \/ Leave \/ DropWriter \/ Join)
             /\ UNCHANGED sent_times
    BY <2>3 DEF ByWriter, Flush, SendEnds, SendFails, Pace, Leave, LifetimeEnds, ShutdownEnds,
       SendClose, DropWriter, Join, CountError, CountSuccess
  <2> QED
    BY <1>1, <2>1, <2>2, <2>3 DEF WriterStep
<1>2. CASE ReaderStep
  <2> USE DEF ReaderGoes, ReaderKeeps
  <2>1. CASE ReadBinary \/ ReadOther \/ ReadNone \/ ReadFails \/ StealMisses
    BY <2>1 DEF ReadBinary, ReadOther, ReadNone, ReadFails, StealMisses, CountError
  <2>2. CASE Steal
    <3>1. Len(sent_times') = Len(sent_times) - 1 /\ UNCHANGED <<total_requests, config, rounds>>
      BY <2>2 DEF Steal
    <3> QED
      BY <2>2, <3>1 DEF Steal
  <2>3. CASE RecordLatency
    BY <2>3 DEF RecordLatency, CountLatency
  <2>4. CASE RecordRequest
    BY <2>4 DEF RecordRequest, CountRequest, record_request
  <2> QED
    BY <1>2, <2>1, <2>2, <2>3, <2>4 DEF ReaderStep
<1>3. CASE ByServer(ServerStep) \/ Expires
  BY <1>3 DEF ByServer, Expires
<1>4. CASE ByMain(MainStep)
  BY <1>4 DEF ByMain, MainStep, end_warmup, set_shutting_down, NotifyShutdown
<1>5. CASE UNCHANGED vars
  BY <1>5 DEF vars
<1> QED
  BY <1>1, <1>2, <1>3, <1>4, <1>5 DEF Next

-----------------------------------------------------------------------------
(***************************************************************************)
(* The order of the answers.                                               *)
(***************************************************************************)

\* The numbers the order is stated with.
LEMMA Whole ==
  ASSUME Shape
  PROVE  /\ net \in StreamType /\ rounds \in Nat /\ answer \in Nat /\ unmatched \in Nat
         /\ rounds + 1 \in Int /\ answer + 1 \in Int
         /\ Latest \in Int /\ 1 <= Latest /\ Latest <= rounds + 1
<1>1. rounds \in Nat /\ answer \in Nat /\ unmatched \in Nat /\ net \in StreamType
  BY BoundsAssumption DEF Shape, Types, WsTypeOK
<1> QED
  BY <1>1 DEF Latest

\* A frame that is read is no answer, or that of the round behind the last one; and it
\* is that of a round that has begun.
LEMMA ReadFollows ==
  ASSUME Shape, OrderInv, EchoServer, ReadBinary \/ ReadOther
  PROVE  /\ Ordered(net', answer' + 1, Latest', rounds' + 1)
         /\ ReadBinary => answer' = answer + 1
         /\ Head(net.s2c).of # 0 => answer' = answer + 1
         /\ IF Counts(Head(net.s2c)) THEN answer' = answer + 1 ELSE answer' = answer
<1> DEFINE n == answer + 1
           high == rounds + 1
<1>0. /\ net \in StreamType /\ rounds \in Nat /\ answer \in Nat
      /\ n \in Int /\ high \in Int /\ Latest \in Int /\ 1 <= Latest /\ Latest <= high
  BY Whole
<1>1. /\ rpc = "read" /\ UNCHANGED <<frozen, rounds>>
      /\ \E kinds \in {{"binary"}, {"other", "close"}} : Yields(kinds)
  BY DEF ReadBinary, ReadOther, ReaderGoes
<1>2. Ordered(net, n, Latest, high)
  BY <1>1 DEF OrderInv
<1> HIDE DEF n, high
<1>3. IF Counts(Head(net.s2c))
      THEN Head(net.s2c).of = n /\ Ordered(net', n + 1, Latest, high)
      ELSE Head(net.s2c).of = 0 /\ Ordered(net', n, Latest, high)
  BY <1>0, <1>1, <1>2, ReadOrders
<1>4. net'.state = "active" => net.state = "active"
  BY <1>0, <1>1 DEF Yields, StreamType
<1>5. Latest' \in Int /\ Latest' <= Latest /\ high' = high
  BY <1>0, <1>1, <1>4 DEF Latest, Orderly, EchoServer, frozen, high
<1>6. /\ ReadBinary => Counts(Head(net.s2c))
      /\ Head(net.s2c).of # 0 => Counts(Head(net.s2c))
      /\ answer' = IF Counts(Head(net.s2c)) THEN n ELSE answer
  <2>1. CASE ReadBinary
    BY <1>3, <2>1 DEF ReadBinary, Yields, Counts
  <2>2. CASE ReadOther
    <3>1. /\ Head(net.s2c).kind # "binary"
          /\ answer' = IF Head(net.s2c).of = 0 THEN answer ELSE Head(net.s2c).of
      BY <2>2 DEF ReadOther, Yields
    <3>2. Counts(Head(net.s2c)) => Head(net.s2c).of # 0
      BY <3>1 DEF Counts
    <3>3. ~ReadBinary
      BY <3>1 DEF ReadBinary, Yields
    <3> QED
      BY <1>3, <3>1, <3>2, <3>3
  <2> QED
    BY <2>1, <2>2
<1>7. Ordered(net', answer' + 1, Latest, high)
  <2>1. CASE Counts(Head(net.s2c))
    <3>1. answer' + 1 = n + 1
      BY <1>6, <2>1
    <3> QED
      BY <1>3, <2>1, <3>1
  <2>2. CASE ~Counts(Head(net.s2c))
    <3>1. answer' + 1 = n
      BY <1>6, <2>2 DEF n
    <3> QED
      BY <1>3, <2>2, <3>1
  <2> QED
    BY <2>1, <2>2
<1>8. Ordered(net', answer' + 1, Latest', high)
  BY <1>0, <1>5, <1>7, OrderedWeaken
<1>9. high = rounds' + 1
  BY <1>1 DEF high
<1> QED
  BY <1>6, <1>8, <1>9 DEF n

\* The main loop begins with the stream in order, and so does the reader.
LEMMA PrepareOrders ==
  ASSUME Shape, LifeInv, CountInv, QueueInv, OrderInv, EchoServer, Prepare
  PROVE  OrderInv'
<1>1. /\ Before'
      /\ pc' \in MainLoop => Ordered(net', 1, 1, 1) /\ net'.state = "active"
  BY Whole, SetUpBefore DEF Prepare, OrderInv
<1>2. /\ rpc = "off" /\ UNCHANGED <<rounds, answer>>
      /\ rpc' = IF pc' \in MainLoop THEN "read" ELSE "off"
  BY DEF Prepare, SetUp, Begin, Connect, ConnectFails, FirstSent, FirstSendFails, FirstAnswer,
     FirstRequest, FirstAnswerUnusable, GiveUp, Goes, LifeInv, BeforeReader, BeforeLoop
<1>3. answer' + 1 = 1 /\ rounds' + 1 = 1
  BY <1>2 DEF CountInv, QueueInv
<1>4. net'.state = "active" => Latest' = 1
  BY <1>3 DEF Latest
<1> QED
  BY <1>1, <1>2, <1>3, <1>4 DEF OrderInv

\* A round adds its message at the end of the messages; a round that is refused adds
\* none, and leaves no more to be expected.
LEMMA StartOrders ==
  ASSUME Shape, LifeInv, OrderInv, DrainInv, EchoServer, StartRound
  PROVE  OrderInv'
<1> DEFINE n == answer + 1
           high == rounds + 1
<1>0. /\ net \in StreamType /\ rounds \in Nat /\ n \in Int /\ high \in Int
      /\ Latest \in Int
  BY Whole
<1>1. /\ pc = "loop" /\ pc' \in {"send", "loop"} /\ rpc' = rpc /\ answer' = answer
      /\ UNCHANGED frozen /\ rounds' = high /\ high' = high + 1
  BY DEF StartRound, ByWriter, BeginSend, SendRefused, CanStart, readerVars
<1>2. CASE rpc = "done"
  BY <1>1, <1>2 DEF OrderInv, Before
<1>3. CASE rpc # "done"
  <2>0. rpc \notin {"off", "done"} /\ Ordered(net, n, Latest, high)
    BY <1>1, <1>3 DEF OrderInv, LifeInv, BeforeReader, BeforeLoop
  <2>1. CASE BeginSend
    <3>1. net.state = "active" /\ Latest = high
      BY <2>1 DEF BeginSend, Buffer, Latest
    <3>2. Ordered(net', n, rounds' + 1, rounds' + 1)
      BY <1>0, <2>0, <2>1, <3>1, BeginOrders
    <3>3. net'.state = "active"
      <4> DEFINE f == Carries("binary", rounds + 1)
      <4>0. f.kind = "binary"
        BY DEF Carries
      <4> HIDE DEF f
      <4>1. net' = [net EXCEPT !.out = Append(@, f), !.state = @]
        BY <2>1, <4>0 DEF BeginSend, Buffer, f
      <4> QED
        BY <1>0, <3>1, <4>1 DEF StreamType
    <3>4. Latest' = rounds' + 1
      BY <3>3 DEF Latest
    <3> QED
      BY <1>1, <3>2, <3>4 DEF OrderInv, Before
  <2>2. CASE SendRefused
    <3>1. net.state # "active" /\ UNCHANGED net
      BY <2>2 DEF SendRefused
    <3>2. ~Orderly
      BY <1>1, <3>1 DEF DrainInv
    <3>3. Latest = 1 /\ Latest' = 1
      BY <1>1, <3>1, <3>2 DEF Latest, Orderly, EchoServer, frozen
    <3> HIDE DEF n, high
    <3>4. Ordered(net, n, 1, high + 1)
      BY <1>0, <2>0, <3>3, OrderedWeaken
    <3> QED
      BY <1>1, <3>1, <3>3, <3>4 DEF OrderInv, Before, n, high
  <2> QED
    BY <2>1, <2>2 DEF StartRound, ByWriter
<1> QED
  BY <1>2, <1>3

\* The rest of the writer: what it sends goes out in the order of the rounds.
LEMMA WriterOrders ==
  ASSUME Shape, LifeInv, OrderInv, DrainInv, EchoServer,
         ByWriter(Flush \/ SendEnds \/ Pace \/ Leave \/ DropWriter \/ Join)
  PROVE  OrderInv'
<1> USE DEF Goes
<1>0. /\ net \in StreamType /\ rounds + 1 \in Int /\ answer + 1 \in Int /\ Latest \in Int
      /\ 1 <= Latest /\ Latest <= rounds + 1
  BY Whole
<1>1. UNCHANGED <<frozen, rounds, rpc, answer>>
  BY DEF ByWriter, Flush, SendEnds, SendFails, Pace, Leave, LifetimeEnds, ShutdownEnds,
     SendClose, DropWriter, Join, readerVars
<1>2. CASE pc = "first_send"
  <2>1. Flush /\ pc' = pc
    BY <1>2 DEF ByWriter, Flush, SendEnds, SendFails, Pace, Leave, LifetimeEnds, ShutdownEnds,
       Waiting, SendClose, DropWriter, Join
  <2>2. rpc' = "off"
    BY <1>1, <1>2 DEF LifeInv, BeforeReader, BeforeLoop
  <2>3. net'.state = net.state /\ net'.ended = net.ended
    BY <1>0, <2>1 DEF Flush, StreamType
  <2> QED
    BY <1>0, <1>2, <2>1, <2>2, <2>3, FlushFirst DEF OrderInv, Before
<1>3. CASE pc # "first_send"
  <2>1. Before'
    BY <1>3 DEF ByWriter, Flush, SendEnds, SendFails, Pace, Leave, LifetimeEnds, ShutdownEnds,
       Waiting, SendClose, DropWriter, Join, Before
  <2>2. CASE rpc \in {"off", "done"}
    BY <1>1, <2>1, <2>2 DEF OrderInv
  <2>3. CASE rpc \notin {"off", "done"}
    <3>0. Ordered(net, answer + 1, Latest, rounds + 1)
      BY <2>3 DEF OrderInv
    <3>1. CASE Flush \/ Flushed \/ FlushFails
      <4>1. Ordered(net', answer + 1, Latest, rounds + 1)
        BY <1>0, <3>0, <3>1, StreamOrders
      <4>2. net'.state = net.state
        BY <1>0, <3>1 DEF Flush, Flushed, FlushFails, StreamType
      <4>3. Latest' = Latest
        BY <1>1, <4>2 DEF Latest, Orderly, EchoServer, frozen
      <4> QED
        BY <1>1, <2>1, <4>1, <4>3 DEF OrderInv
    <3>2. CASE SendClose
      <4> DEFINE low == IF net.state = "active" THEN Latest ELSE 1
      <4>1. Ordered(net', answer + 1, low, rounds + 1)
        BY <1>0, <3>0, <3>2, CloseOrders
      <4>2. net'.state # "active"
        <5>1. CASE Buffer(Carries("close", 0))
          <6>1. net'.state = "by_us"
            BY <1>0, <5>1 DEF Buffer, Carries, StreamType
          <6> QED
            BY <6>1
        <5>2. CASE net.state # "active" /\ net' = [net EXCEPT !.out = <<>>]
          BY <1>0, <5>2 DEF StreamType
        <5> QED
          BY <3>2, <5>1, <5>2 DEF SendClose
      <4>3. pc = "close"
        BY <3>2 DEF SendClose
      <4>4. Orderly => net.state = "active"
        BY <4>3 DEF DrainInv
      <4>5. low \in Int /\ Latest' \in Int /\ Latest' <= low
        BY <1>0, <1>1, <4>2, <4>4 DEF Latest, Orderly, EchoServer, frozen
      <4> HIDE DEF low
      <4>6. Ordered(net', answer + 1, Latest', rounds + 1)
        BY <1>0, <4>1, <4>5, OrderedWeaken
      <4> QED
        BY <1>1, <2>1, <4>6 DEF OrderInv
    <3>3. CASE UNCHANGED net
      BY <1>1, <2>1, <3>0, <3>3 DEF OrderInv, Latest, Orderly, EchoServer, frozen
    <3> QED
      BY <3>1, <3>2, <3>3 DEF ByWriter, SendEnds, SendFails, Pace, Leave, LifetimeEnds,
         ShutdownEnds, DropWriter, Join
  <2> QED
    BY <2>2, <2>3
<1> QED
  BY <1>2, <1>3

\* The reader takes the answers in their order, until it is done.
LEMMA ReaderOrders ==
  ASSUME Shape, LifeInv, OrderInv, EchoServer, ReaderStep
  PROVE  OrderInv'
<1>0. /\ UNCHANGED <<frozen, pc, rounds>> /\ rpc \notin {"off", "done"} /\ rpc' # "off"
  BY DEF ReaderStep, ReadBinary, ReadOther, ReadNone, ReadFails, Steal, StealMisses,
     RecordLatency, RecordRequest, ReaderGoes
<1>1. Before'
  <2>1. pc \notin {"start", "connect", "first_send", "first_read", "first_request"}
    BY <1>0 DEF LifeInv, BeforeReader, BeforeLoop
  <2> QED
    BY <1>0, <2>1 DEF Before
<1>2. CASE ReadBinary \/ ReadOther
  BY <1>1, <1>2, ReadFollows DEF OrderInv
<1>3. CASE ReadNone \/ ReadFails
  <2>1. rpc' = "done"
    BY <1>3 DEF ReadNone, ReadFails, ReaderGoes
  <2> QED
    BY <1>1, <2>1 DEF OrderInv
<1>4. CASE Steal \/ StealMisses \/ RecordLatency \/ RecordRequest
  <2>1. UNCHANGED <<net, answer>>
    BY <1>4 DEF Steal, StealMisses, RecordLatency, RecordRequest, ReaderKeeps
  <2> QED
    BY <1>0, <1>1, <2>1 DEF OrderInv, Latest, Orderly, EchoServer, frozen
<1> QED
  BY <1>2, <1>3, <1>4 DEF ReaderStep

\* The server keeps the order, and does nothing before there is a connection.
LEMMA ServerStepOrders ==
  ASSUME Shape, OrderInv, EchoServer, ByServer(ServerStep)
  PROVE  OrderInv'
<1>0. net \in StreamType /\ answer + 1 \in Int /\ rounds + 1 \in Int /\ Latest \in Int
  BY Whole
<1>1. ServerStep /\ UNCHANGED <<frozen, pc, rpc, rounds, answer>>
  BY DEF ByServer, Others, readerVars
<1>2. net'.state = net.state /\ net'.ended = net.ended
  BY <1>0, <1>1, ServerServes DEF Serves
<1>3. pc \notin {"start", "connect"}
  <2>1. ~ServerUp => net.eof
    BY <1>1 DEF ServerStep, ServerReads, ServerAnswers, ServerIgnores, ServerCloses, Takes,
       ServerPings, ServerChats, ServerSays, ServerFails, ServerHangsUp, ServerRefuses
  <2> QED
    BY <2>1 DEF OrderInv, Before, Fresh, Up, ServerUp
<1>4. Before'
  <2>1. Ordered(net, 1, 1, 1) => Ordered(net', 1, 1, 1)
    BY <1>0, <1>1, ServerOrders
  <2> QED
    BY <1>0, <1>1, <1>2, <1>3, <2>1, ServerFirst DEF OrderInv, Before
<1>5. Ordered(net, answer + 1, Latest, rounds + 1) =>
        Ordered(net', answer + 1, Latest, rounds + 1)
  BY <1>0, <1>1, ServerOrders
<1>6. Latest' = Latest
  BY <1>1, <1>2 DEF Latest, Orderly, EchoServer, frozen
<1> QED
  BY <1>1, <1>4, <1>5, <1>6 DEF OrderInv

\* Every step keeps the order.
LEMMA OrderNext == IInv /\ [Next]_vars => OrderInv'
<1> SUFFICES ASSUME IInv, [Next]_vars PROVE OrderInv'
  OBVIOUS
<1> USE DEF IInv
<1>0. UNCHANGED frozen
  BY DEF Next, WriterStep, Prepare, StartRound, ByWriter, ReaderStep, ReadBinary, ReadOther,
     ReadNone, ReadFails, Steal, StealMisses, RecordLatency, RecordRequest, ReaderGoes,
     ByServer, ByMain, Expires, Others, vars
<1>1. CASE ~EchoServer
  BY <1>0, <1>1 DEF OrderInv, EchoServer, frozen
<1>2. CASE EchoServer
  <2>1. CASE WriterStep
    BY <1>2, <2>1, PrepareOrders, StartOrders, WriterOrders DEF WriterStep
  <2>2. CASE ReaderStep
    BY <1>2, <2>2, ReaderOrders
  <2>3. CASE ByServer(ServerStep)
    BY <1>2, <2>3, ServerStepOrders
  <2>4. CASE ByMain(MainStep) \/ Expires \/ UNCHANGED vars
    <3>1. UNCHANGED <<frozen, pc, rounds, net, rpc, answer>>
      BY <2>4 DEF ByMain, Expires, Others, readerVars, vars
    <3> QED
      BY <3>1 DEF OrderInv, Before, Latest, Orderly, EchoServer, frozen
  <2> QED
    BY <2>1, <2>2, <2>3, <2>4 DEF Next
<1> QED
  BY <1>1, <1>2

-----------------------------------------------------------------------------
(***************************************************************************)
(* The queue.                                                              *)
(***************************************************************************)

\* The next answer belongs to a round that has begun.
LEMMA OrderedWithin ==
  ASSUME NEW s \in StreamType, NEW n \in Int, NEW low, NEW high \in Int,
         Ordered(s, n, low, high)
  PROVE  n <= high
<1>1. PICK m \in Int : Numbers(s.s2c, n, m) /\ m <= high
  BY DEF Ordered
<1>2. n <= m
  BY <1>1, NumbersBounds DEF StreamType
<1> QED
  BY <1>1, <1>2

\* The time that is next in the queue is that of the first round nobody has taken.
LEMMA HeadOfQueue ==
  ASSUME NEW q \in Seq(1 .. MaxRounds), NEW k \in Int, q # <<>>,
         \A i \in 1 .. Len(q) : q[i] = k + i
  PROVE  /\ Head(q) = k + 1 /\ Len(Tail(q)) = Len(q) - 1
         /\ \A i \in 1 .. Len(Tail(q)) : Tail(q)[i] = (k + 1) + i
<1>1. /\ Len(q) \in Nat /\ Len(q) >= 1 /\ Len(Tail(q)) = Len(q) - 1 /\ Head(q) = q[1]
      /\ \A i \in 1 .. Len(Tail(q)) : Tail(q)[i] = q[i + 1]
  OBVIOUS
<1>2. 1 \in 1 .. Len(q) /\ \A i \in 1 .. Len(Tail(q)) : i + 1 \in 1 .. Len(q)
  BY <1>1
<1>3. \A i \in 1 .. Len(Tail(q)) : Tail(q)[i] = k + (i + 1)
  BY <1>1, <1>2
<1> QED
  BY <1>1, <1>2, <1>3

\* Every answer of an echo server takes a time, lets one go by, or is in hand.
LEMMA QueueNext == IInv /\ [Next]_vars => QueueInv'
<1> SUFFICES ASSUME IInv, [Next]_vars PROVE QueueInv'
  OBVIOUS
<1>0. /\ rounds \in Nat /\ answer \in Nat /\ unmatched \in Nat /\ sent_time \in Nat
      /\ sent_times \in Seq(1 .. MaxRounds) /\ Len(sent_times) \in Nat
  BY BoundsAssumption DEF IInv, Shape, Types, WsTypeOK
<1>q. QueueInv
  BY DEF IInv
<1> DEFINE mineToo == <<rpc, rounds, sent_times, sent_time, answer, unmatched, server>>
<1>1. CASE UNCHANGED mineToo
  BY <1>q, <1>1 DEF QueueInv, Taken, Pending, EchoServer
<1>2. CASE WriterStep
  <2>1. CASE Prepare
    <3>1. /\ rpc = "off" /\ rpc' \in {"off", "read"}
          /\ UNCHANGED <<rounds, sent_times, sent_time, answer, unmatched, server>>
      BY <2>1 DEF Prepare, SetUp, Begin, Connect, ConnectFails, FirstSent, FirstSendFails,
         FirstAnswer, FirstRequest, FirstAnswerUnusable, GiveUp, Goes, IInv, LifeInv, BeforeReader, BeforeLoop, frozen
    <3> QED
      BY <1>q, <3>1 DEF QueueInv, Taken, Pending, EchoServer
  <2>2. CASE StartRound
    <3>1. /\ rounds' = rounds + 1 /\ sent_times' = Append(sent_times, rounds')
          /\ UNCHANGED <<rpc, sent_time, answer, unmatched, server>>
      BY <2>2 DEF StartRound, ByWriter, BeginSend, SendRefused, readerVars, frozen
    <3>2. /\ Len(sent_times') = Len(sent_times) + 1
          /\ sent_times'[Len(sent_times')] = rounds'
          /\ \A i \in 1 .. Len(sent_times) : sent_times'[i] = sent_times[i]
      BY <1>0, <3>1
    <3>3. Taken' = Taken
      BY <1>0, <3>1, <3>2 DEF Taken
    <3>4. \A i \in 1 .. Len(sent_times') : sent_times'[i] = Taken + i
      <4> TAKE i \in 1 .. Len(sent_times')
      <4>1. CASE i \in 1 .. Len(sent_times)
        BY <1>q, <3>2, <4>1 DEF QueueInv
      <4>2. CASE i = Len(sent_times')
        <5>1. Taken + i = rounds'
          BY <1>0, <3>1, <3>2, <4>2 DEF Taken
        <5> QED
          BY <3>2, <4>2, <5>1
      <4> QED
        BY <1>0, <3>2, <4>1, <4>2
    <3> QED
      BY <1>q, <3>1, <3>3, <3>4 DEF QueueInv, Pending, EchoServer
  <2>3. CASE /\ ByWriter(Flush \/ SendEnds \/ Pace \/ Leave \/ DropWriter \/ Join)
             /\ UNCHANGED sent_times
    <3>1. UNCHANGED mineToo
      BY <2>3 DEF ByWriter, Flush, SendEnds, SendFails, Pace, Leave, LifetimeEnds, ShutdownEnds,
         SendClose, DropWriter, Join, readerVars, frozen
    <3> QED
      BY <1>1, <3>1
  <2> QED
    BY <1>2, <2>1, <2>2, <2>3 DEF WriterStep
<1>3. CASE ReaderStep
  <2>0. UNCHANGED <<rounds, server>> /\ (EchoServer <=> EchoServer')
    BY <1>3 DEF ReaderStep, ReadBinary, ReadOther, ReadNone, ReadFails, Steal, StealMisses,
       RecordLatency, RecordRequest, ReaderGoes, frozen, EchoServer
  <2>1. CASE ReadBinary
    <3>1. /\ rpc = "read" /\ rpc' = "steal" /\ UNCHANGED <<sent_times, sent_time, unmatched>>
      BY <2>1 DEF ReadBinary, ReaderGoes
    <3>2. EchoServer => answer' = answer + 1
      BY <2>1, ReadFollows DEF IInv
    <3>3. Taken' = Taken /\ Pending = 0 /\ Pending' = 1 /\ Taken \in Int
      BY <1>0, <2>0, <3>1 DEF Taken, Pending
    <3> QED
      BY <1>0, <1>q, <2>0, <3>1, <3>2, <3>3 DEF QueueInv
  <2>2. CASE ReadOther
    <3>1. /\ rpc = "read" /\ rpc' = "read" /\ UNCHANGED <<sent_times, sent_time>>
          /\ Head(net.s2c).of = 0 => UNCHANGED <<answer, unmatched>>
          /\ Head(net.s2c).of # 0 => unmatched' = unmatched + 1
      BY <2>2 DEF ReadOther, ReaderGoes
    <3>2. EchoServer /\ Head(net.s2c).of # 0 => answer' = answer + 1
      BY <2>2, ReadFollows DEF IInv
    <3>3. Taken' = Taken /\ Pending = 0 /\ Pending' = 0 /\ Taken \in Int
      BY <1>0, <2>0, <3>1 DEF Taken, Pending
    <3>4. CASE Head(net.s2c).of = 0
      BY <1>q, <2>0, <3>1, <3>3, <3>4 DEF QueueInv
    <3>5. CASE Head(net.s2c).of # 0
      <4>1. EchoServer => (Taken + unmatched) + 0 = answer
        BY <1>q, <3>1, <3>3 DEF QueueInv
      <4>2. EchoServer' => (Taken' + unmatched') + Pending' = answer'
        BY <1>0, <2>0, <3>1, <3>2, <3>3, <3>5, <4>1
      <4> QED
        BY <1>q, <2>0, <3>1, <3>3, <4>2 DEF QueueInv
    <3> QED
      BY <3>4, <3>5
  <2>3. CASE ReadNone \/ ReadFails
    <3>1. rpc' = "done" /\ UNCHANGED <<sent_times, sent_time, answer, unmatched>>
      BY <2>3 DEF ReadNone, ReadFails, ReaderGoes, ReaderKeeps
    <3> QED
      BY <1>q, <2>0, <3>1 DEF QueueInv, Taken
  <2>4. CASE Steal
    <3>1. /\ rpc = "steal" /\ rpc' = "latency" /\ sent_times # <<>>
          /\ sent_time' = Head(sent_times) /\ sent_times' = Tail(sent_times)
          /\ UNCHANGED <<answer, unmatched>>
      BY <2>4 DEF Steal, ReaderGoes
    <3>2. Taken \in Int
      BY <1>0 DEF Taken
    <3>3. /\ Head(sent_times) = Taken + 1 /\ Len(Tail(sent_times)) = Len(sent_times) - 1
          /\ \A i \in 1 .. Len(Tail(sent_times)) : Tail(sent_times)[i] = (Taken + 1) + i
      BY <1>0, <1>q, <3>1, <3>2, HeadOfQueue DEF QueueInv
    <3>4. Taken' = Taken + 1 /\ Pending = 1 /\ Pending' = 0
      BY <1>0, <2>0, <3>1, <3>3 DEF Taken, Pending
    <3>5. \A i \in 1 .. Len(sent_times') : sent_times'[i] = Taken' + i
      BY <3>1, <3>3, <3>4
    <3>6. EchoServer => (Taken + unmatched) + 1 = answer
      BY <1>q, <3>1, <3>4 DEF QueueInv
    <3>7. EchoServer => (Taken' + unmatched') + 0 = answer' /\ sent_time' + unmatched' = answer'
      BY <1>0, <3>1, <3>2, <3>3, <3>4, <3>6
    <3> QED
      BY <2>0, <3>1, <3>4, <3>5, <3>7 DEF QueueInv
  <2>5. CASE StealMisses
    <3>1. /\ rpc = "steal" /\ rpc' = "read" /\ unmatched' = unmatched + 1
          /\ UNCHANGED <<sent_times, sent_time, answer>>
      BY <2>5 DEF StealMisses, ReaderGoes
    <3>2. Taken' = Taken /\ Pending = 1 /\ Pending' = 0 /\ Taken \in Int
      BY <1>0, <2>0, <3>1 DEF Taken, Pending
    <3> QED
      BY <1>0, <1>q, <2>0, <3>1, <3>2 DEF QueueInv
  <2>6. CASE RecordLatency \/ RecordRequest
    <3>1. /\ UNCHANGED <<sent_times, sent_time, answer, unmatched>>
          /\ rpc \in {"latency", "request"} /\ rpc' \in {"request", "read"}
      BY <2>6 DEF RecordLatency, RecordRequest, ReaderGoes, ReaderKeeps
    <3>2. Taken' = Taken /\ Pending = 0 /\ Pending' = 0
      BY <2>0, <3>1 DEF Taken, Pending
    <3> QED
      BY <1>q, <2>0, <3>1, <3>2 DEF QueueInv
  <2> QED
    BY <1>3, <2>1, <2>2, <2>3, <2>4, <2>5, <2>6 DEF ReaderStep
<1>4. CASE ByServer(ServerStep) \/ ByMain(MainStep) \/ Expires \/ UNCHANGED vars
  <2>1. UNCHANGED mineToo
    BY <1>4 DEF ByServer, ByMain, Expires, Others, readerVars, frozen, vars
  <2> QED
    BY <1>1, <2>1
<1> QED
  BY <1>2, <1>3, <1>4 DEF Next

-----------------------------------------------------------------------------
(***************************************************************************)
(* The end of an orderly connection.                                       *)
(***************************************************************************)

\* A sequence without frames of a kind, and what becomes of it.
LEMMA AvoidsNone ==
  ASSUME NEW kind
  PROVE  Avoids(<<>>, kind) /\ CloseLast(<<>>)
BY DEF Avoids, CloseLast

LEMMA AvoidsAppend ==
  ASSUME NEW q \in Seq(Numbered), NEW f \in Numbered, NEW kind, Avoids(q, kind)
  PROVE  f.kind # kind => Avoids(Append(q, f), kind)
<1>1. /\ Len(Append(q, f)) = Len(q) + 1 /\ Len(q) \in Nat
      /\ Append(q, f)[Len(q) + 1] = f
      /\ \A i \in 1 .. Len(q) : Append(q, f)[i] = q[i]
  OBVIOUS
<1>2. \A i \in 1 .. Len(q) + 1 : i \in 1 .. Len(q) \/ i = Len(q) + 1
  BY <1>1
<1> QED
  BY <1>1, <1>2 DEF Avoids

LEMMA AvoidsTail ==
  ASSUME NEW q \in Seq(Numbered), q # <<>>, NEW kind, Avoids(q, kind)
  PROVE  Head(q).kind # kind /\ Avoids(Tail(q), kind)
<1>1. /\ Len(q) \in Nat /\ Len(q) >= 1 /\ Len(Tail(q)) = Len(q) - 1 /\ Head(q) = q[1]
      /\ \A i \in 1 .. Len(Tail(q)) : Tail(q)[i] = q[i + 1]
  OBVIOUS
<1>2. 1 \in 1 .. Len(q) /\ \A i \in 1 .. Len(Tail(q)) : i + 1 \in 1 .. Len(q)
  BY <1>1
<1> QED
  BY <1>1, <1>2 DEF Avoids

\* A Close behind frames that are none is the last.
LEMMA CloseLastAppend ==
  ASSUME NEW q \in Seq(Numbered), NEW f \in Numbered, Avoids(q, "close")
  PROVE  CloseLast(Append(q, f))
<1>1. /\ Len(Append(q, f)) = Len(q) + 1 /\ Len(q) \in Nat
      /\ \A i \in 1 .. Len(q) : Append(q, f)[i] = q[i]
  OBVIOUS
<1>2. \A i \in 1 .. Len(q) + 1 : i \in 1 .. Len(q) \/ i = Len(q) + 1
  BY <1>1
<1> QED
  BY <1>1, <1>2 DEF Avoids, CloseLast

\* It is so in what is left when a frame is taken, and alone when it is first.
LEMMA CloseLastTail ==
  ASSUME NEW q \in Seq(Numbered), q # <<>>, CloseLast(q)
  PROVE  CloseLast(Tail(q)) /\ (Head(q).kind = "close" => Tail(q) = <<>>)
<1> DEFINE r == Tail(q)
<1>1. /\ Len(q) = Len(r) + 1 /\ Len(r) \in Nat /\ Head(q) = q[1] /\ r \in Seq(Numbered)
      /\ \A i \in 1 .. Len(r) : r[i] = q[i + 1]
  OBVIOUS
<1> HIDE DEF r
<1>2. ASSUME NEW i \in 1 .. Len(r), r[i].kind = "close"
      PROVE  i = Len(r)
  <2>1. i + 1 \in 1 .. Len(q) /\ q[i + 1].kind = "close"
    BY <1>1, <1>2
  <2>2. i + 1 = Len(q)
    BY <2>1 DEF CloseLast
  <2> QED
    BY <1>1, <2>2
<1>3. Head(q).kind = "close" => Len(r) = 0
  <2>1. 1 \in 1 .. Len(q)
    BY <1>1
  <2>2. Head(q).kind = "close" => 1 = Len(q)
    BY <1>1, <2>1 DEF CloseLast
  <2> QED
    BY <1>1, <2>2
<1>4. CloseLast(r) /\ (Len(r) = 0 => r = <<>>)
  BY <1>1, <1>2 DEF CloseLast
<1> QED
  BY <1>3, <1>4 DEF r

\* The last frame of a sequence is its last until it is the only one.
LEMMA LastOfTail ==
  ASSUME NEW q \in Seq(Numbered), q # <<>>
  PROVE  \/ Tail(q) # <<>> /\ Tail(q)[Len(Tail(q))] = q[Len(q)]
         \/ Tail(q) = <<>> /\ Head(q) = q[Len(q)]
<1>1. /\ Len(q) \in Nat /\ Len(q) >= 1 /\ Len(Tail(q)) = Len(q) - 1 /\ Head(q) = q[1]
      /\ \A i \in 1 .. Len(Tail(q)) : Tail(q)[i] = q[i + 1]
      /\ Tail(q) \in Seq(Numbered)
  OBVIOUS
<1> QED
  BY <1>1

\* A frame leaves the client.
LEMMA FlushCloses ==
  ASSUME net \in StreamType, Closing(net), Flush
  PROVE  Closing(net')
<1>1. /\ net.out # <<>> /\ net.out \in Seq(Numbered) /\ net.c2s \in Seq(Numbered)
      /\ net' = [net EXCEPT !.c2s = Append(@, Head(net.out)), !.out = Tail(@)]
  BY DEF Flush, StreamType
<1>2. Head(net.out) \in Numbered
  BY <1>1, HeadAndTail
<1>3. Avoids(net.c2s, "close") /\ CloseLast(net.out) /\ ~net.eof
  BY <1>1 DEF Closing
<1>4. CloseLast(Append(net.c2s, Head(net.out)))
  BY <1>1, <1>2, <1>3, CloseLastAppend
<1>5. CloseLast(Tail(net.out)) /\ (Head(net.out).kind = "close" => Tail(net.out) = <<>>)
  BY <1>1, <1>3, CloseLastTail
<1>6. Avoids(net.out, "close") =>
        Avoids(Tail(net.out), "close") /\ Head(net.out).kind # "close"
  BY <1>1, AvoidsTail
<1>7. Head(net.out).kind # "close" => Avoids(Append(net.c2s, Head(net.out)), "close")
  BY <1>1, <1>2, <1>3, AvoidsAppend
<1>8. /\ net'.c2s = Append(net.c2s, Head(net.out)) /\ net'.out = Tail(net.out)
      /\ net'.s2c = net.s2c /\ net'.state = net.state
      /\ net'.eof = net.eof /\ net'.bye = net.bye /\ net'.rst = net.rst
  BY <1>1 DEF StreamType
<1> QED
  BY <1>3, <1>4, <1>5, <1>6, <1>7, <1>8 DEF Closing

\* A frame is buffered, and after a Close no other.
LEMMA BufferCloses ==
  ASSUME net \in StreamType, Closing(net), NEW f \in Numbered, Buffer(f)
  PROVE  /\ Closing(net') /\ net'.s2c = net.s2c
         /\ net'.eof = net.eof /\ net'.ended = net.ended
         /\ net'.state = "active" <=> f.kind # "close"
<1>1. /\ net.state = "active" /\ net.out \in Seq(Numbered)
      /\ net' = [net EXCEPT !.out = Append(@, f),
                            !.state = IF f.kind = "close" THEN "by_us" ELSE @]
  BY DEF Buffer, StreamType
<1>2. /\ net'.out = Append(net.out, f) /\ net'.c2s = net.c2s /\ net'.s2c = net.s2c
      /\ net'.eof = net.eof /\ net'.bye = net.bye /\ net'.rst = net.rst
      /\ net'.ended = net.ended
      /\ net'.state = IF f.kind = "close" THEN "by_us" ELSE "active"
  BY <1>1 DEF StreamType
<1>3. Avoids(net.out, "close") /\ Avoids(net.c2s, "close") /\ ~net.eof
  BY <1>1 DEF Closing
<1>4. CloseLast(Append(net.out, f))
  BY <1>1, <1>3, CloseLastAppend
<1>5. f.kind # "close" => Avoids(Append(net.out, f), "close")
  BY <1>1, <1>3, AvoidsAppend
<1> QED
  BY <1>2, <1>3, <1>4, <1>5 DEF Closing

\* A frame is read: a Close only after the worker's own.
LEMMA ReadCloses ==
  ASSUME net \in StreamType, Closing(net), NEW kinds, Yields(kinds)
  PROVE  /\ Closing(net') /\ net'.s2c = Tail(net.s2c) /\ net.s2c # <<>>
         /\ net'.eof = net.eof /\ net'.ended = net.ended
         /\ net'.state = "active" <=> net.state = "active"
<1>1. /\ net.s2c # <<>> /\ net.s2c \in Seq(Numbered)
      /\ net' = [net EXCEPT
           !.s2c = Tail(@),
           !.state = CASE Head(net.s2c).kind = "close" /\ @ = "active" -> "by_peer"
                       [] Head(net.s2c).kind = "close" /\ @ = "by_us" -> "acked"
                       [] OTHER -> @]
  BY DEF Yields, StreamType
<1>2. /\ net'.s2c = Tail(net.s2c) /\ net'.out = net.out /\ net'.c2s = net.c2s
      /\ net'.eof = net.eof /\ net'.bye = net.bye /\ net'.rst = net.rst
      /\ net'.ended = net.ended
      /\ net'.state = CASE Head(net.s2c).kind = "close" /\ net.state = "active" -> "by_peer"
                        [] Head(net.s2c).kind = "close" /\ net.state = "by_us" -> "acked"
                        [] OTHER -> net.state
  BY <1>1 DEF StreamType
<1>3. Avoids(Tail(net.s2c), "invalid")
  BY <1>1, AvoidsTail DEF Closing
<1>4. CASE ~net.eof
  <2>1. Avoids(Tail(net.s2c), "close") /\ Head(net.s2c).kind # "close"
    BY <1>1, <1>4, AvoidsTail DEF Closing
  <2>2. net'.state = net.state
    BY <1>2, <2>1
  <2> QED
    BY <1>1, <1>2, <1>3, <1>4, <2>1, <2>2 DEF Closing
<1>5. CASE net.eof
  <2>1. net.state \in {"by_us", "acked"}
    BY <1>5 DEF Closing
  <2>2. net'.state = IF Head(net.s2c).kind = "close" THEN "acked" ELSE net.state
    BY <1>2, <2>1
  <2>3. \/ net'.state = "acked"
        \/ Tail(net.s2c) # <<>> /\ Tail(net.s2c)[Len(Tail(net.s2c))].kind = "close"
    BY <1>1, <1>5, <2>1, <2>2, LastOfTail DEF Closing
  <2>4. /\ net.c2s = <<>> /\ net.out = <<>> /\ ~net.bye /\ ~net.rst
        /\ CloseLast(net.out) /\ CloseLast(net.c2s)
    BY <1>5 DEF Closing
  <2>5. net'.state \in {"by_us", "acked"}
    BY <2>1, <2>2
  <2>6. /\ ~net'.bye /\ ~net'.rst /\ net'.eof /\ net'.c2s = <<>> /\ net'.out = <<>>
        /\ CloseLast(net'.out) /\ CloseLast(net'.c2s) /\ Avoids(net'.s2c, "invalid")
        /\ \/ net'.state = "acked"
           \/ net'.s2c # <<>> /\ net'.s2c[Len(net'.s2c)].kind = "close"
    BY <1>2, <1>3, <1>5, <2>3, <2>4
  <2>7. Closing(net')
    BY <2>5, <2>6 DEF Closing
  <2> QED
    BY <1>1, <1>2, <2>1, <2>5, <2>7
<1> QED
  BY <1>4, <1>5

\* The stream of an orderly connection yields no error, and it ends when the answers
\* have been read.
LEMMA EndCloses ==
  ASSUME net \in StreamType, Closing(net), ~net.ended
  PROVE  /\ ~YieldsError
         /\ YieldsNone => net.eof /\ net.s2c = <<>>
<1>1. net.s2c # <<>> => Head(net.s2c).kind # "invalid"
  BY AvoidsTail DEF Closing, StreamType
<1>2. NoMore => net.eof /\ net.s2c = <<>> /\ Shaken
  BY DEF NoMore, Shaken, Closing
<1> QED
  BY <1>1, <1>2 DEF YieldsError, YieldsNone

\* An orderly server answers every message, and then the Close.
LEMMA ServerStepCloses ==
  ASSUME net \in StreamType, Closing(net), Orderly, ServerStep
  PROVE  /\ Closing(net') /\ ~net.eof
         /\ net'.state = net.state /\ net'.ended = net.ended
         /\ net'.eof => ServerCloses
<1> USE DEF StreamType
<1>0. /\ net.c2s \in Seq(Numbered) /\ net.s2c \in Seq(Numbered)
      /\ ~net.bye /\ ~net.rst
  BY DEF Closing
<1>1. CASE ServerAnswers
  <2>1. PICK kind \in {"binary"} \cup (IF server.mixed THEN {"other"} ELSE {}) :
          net' = [net EXCEPT !.c2s = Tail(@),
                             !.s2c = Append(@, Carries(kind, Head(net.c2s).of))]
    BY <1>1 DEF ServerAnswers
  <2> DEFINE f == Carries(kind, Head(net.c2s).of)
  <2>2. f \in Numbered /\ f.kind # "close" /\ f.kind # "invalid"
    <3>1. Head(net.c2s) \in Numbered
      BY <1>0, <1>1, HeadAndTail DEF ServerAnswers, Takes
    <3> QED
      BY <3>1 DEF Carries, Numbered
  <2> HIDE DEF f
  <2>3. /\ net'.s2c = Append(net.s2c, f) /\ net'.c2s = Tail(net.c2s) /\ net'.out = net.out
        /\ net'.eof = net.eof /\ net'.bye = net.bye /\ net'.rst = net.rst
        /\ net'.ended = net.ended /\ net'.state = net.state
    BY <2>1 DEF f
  <2>4. ~net.eof /\ net.c2s # <<>>
    BY <1>1 DEF ServerAnswers, Takes, ServerUp
  <2>5. Avoids(net'.s2c, "close") /\ Avoids(net'.s2c, "invalid")
    BY <1>0, <2>2, <2>3, <2>4, AvoidsAppend DEF Closing
  <2>6. /\ CloseLast(net'.c2s)
        /\ Avoids(net.c2s, "close") => Avoids(net'.c2s, "close")
    BY <1>0, <2>3, <2>4, AvoidsTail, CloseLastTail DEF Closing
  <2> QED
    BY <2>3, <2>4, <2>5, <2>6 DEF Closing
<1>2. ~ServerIgnores
  BY <1>0 DEF ServerIgnores, Orderly, EchoServer
<1>3. CASE ServerCloses
  <2> DEFINE f == Carries("close", 0)
  <2>1. f \in Numbered /\ f.kind = "close"
    BY BoundsAssumption DEF Carries, Numbered
  <2> HIDE DEF f
  <2>2. net' = [net EXCEPT !.c2s = Tail(@), !.eof = TRUE, !.s2c = Append(@, f)]
    BY <1>0, <1>3 DEF ServerCloses, f
  <2>3. /\ net'.s2c = Append(net.s2c, f) /\ net'.c2s = Tail(net.c2s) /\ net'.out = net.out
        /\ net'.eof /\ net'.bye = net.bye /\ net'.rst = net.rst
        /\ net'.ended = net.ended /\ net'.state = net.state
    BY <2>2
  <2>4. ~net.eof /\ net.c2s # <<>> /\ Head(net.c2s).kind = "close"
    BY <1>3 DEF ServerCloses, Takes, ServerUp
  <2>5. ~Avoids(net.c2s, "close") /\ Tail(net.c2s) = <<>>
    BY <1>0, <2>4, AvoidsTail, CloseLastTail DEF Closing
  <2>6. net'.out = <<>> /\ net'.c2s = <<>> /\ net.state \in {"by_us", "acked"}
    BY <2>3, <2>5 DEF Closing
  <2>7. Avoids(net'.s2c, "invalid")
    BY <1>0, <2>1, <2>3, AvoidsAppend DEF Closing
  <2>8. net'.s2c # <<>> /\ net'.s2c[Len(net'.s2c)].kind = "close"
    <3>1. /\ Len(Append(net.s2c, f)) = Len(net.s2c) + 1 /\ Len(net.s2c) \in Nat
          /\ Append(net.s2c, f)[Len(net.s2c) + 1] = f
      BY <1>0
    <3>2. Len(net'.s2c) # 0 /\ net'.s2c[Len(net'.s2c)] = f
      BY <2>3, <3>1
    <3>3. net'.s2c # <<>>
      BY <3>2
    <3> QED
      BY <2>1, <3>2, <3>3
  <2> QED
    BY <1>0, <1>3, <2>3, <2>4, <2>6, <2>7, <2>8, AvoidsNone DEF Closing
<1>4. CASE ServerPings
  <2> DEFINE f == Carries("other", 0)
  <2>1. f \in Numbered /\ f.kind # "close" /\ f.kind # "invalid"
    BY BoundsAssumption DEF Carries, Numbered
  <2> HIDE DEF f
  <2>2. net' = [net EXCEPT !.s2c = Append(@, f), !.extra = @ + 1, !.bye = FALSE] /\ ~net.eof
    BY <1>4 DEF ServerPings, ServerSays, ServerUp, f
  <2>3. /\ net'.s2c = Append(net.s2c, f) /\ net'.c2s = net.c2s /\ net'.out = net.out
        /\ net'.eof = net.eof /\ net'.bye = net.bye /\ net'.rst = net.rst
        /\ net'.ended = net.ended /\ net'.state = net.state
    BY <1>0, <2>2
  <2>4. Avoids(net'.s2c, "close") /\ Avoids(net'.s2c, "invalid")
    BY <1>0, <2>1, <2>2, <2>3, AvoidsAppend DEF Closing
  <2> QED
    BY <2>2, <2>3, <2>4 DEF Closing
<1>5. ~ServerChats /\ ~ServerFails /\ ~ServerHangsUp /\ ~ServerRefuses
  BY <1>0 DEF ServerChats, ServerFails, ServerHangsUp, ServerRefuses, Orderly,
     EchoServer, Closing
<1> QED
  BY <1>1, <1>2, <1>3, <1>4, <1>5 DEF ServerStep, ServerReads

\* When the server closes, all that is under way to the worker are the answers to the
\* rounds that were left.
LEMMA AnswersLeft ==
  ASSUME net \in StreamType, Closing(net), ServerCloses,
         NEW n \in Int, NEW high \in Int, Ordered(net, n, high, high)
  PROVE  Numbers(net'.s2c, n, high)
<1> USE DEF StreamType
<1>1. /\ net.c2s \in Seq(Numbered) /\ net.s2c \in Seq(Numbered) /\ net.out \in Seq(Numbered)
      /\ net.c2s # <<>> /\ Head(net.c2s).kind = "close" /\ ~Counts(Head(net.c2s))
      /\ Up(net)
  BY DEF ServerCloses, Takes, ServerUp, Closing, Up, Counts
<1>2. Tail(net.c2s) = <<>> /\ net.out = <<>> /\ <<>> \in Seq(Numbered)
  BY <1>1, AvoidsTail, CloseLastTail DEF Closing
<1>3. PICK m \in Int : Numbers(net.s2c, n, m) /\ Onward(net, m, high, high)
  BY DEF Ordered
<1>4. PICK e \in Int : Way(net, m, e) /\ high <= e /\ e <= high
  BY <1>1, <1>3 DEF Onward
<1>5. PICK p \in Int : Numbers(net.c2s, m, p) /\ Numbers(net.out, p, e)
  BY <1>4 DEF Way
<1>6. Numbers(Tail(net.c2s), m, p)
  BY <1>1, <1>5, NumbersTail
<1>7. m = p
  BY <1>2, <1>6, NumbersBounds
<1>8. p = e
  BY <1>1, <1>2, <1>5, NumbersBounds
<1>9. Numbers(net.s2c, n, high)
  BY <1>3, <1>4, <1>7, <1>8
<1> DEFINE f == Carries("close", 0)
<1>10. f \in Numbered /\ ~Counts(f) /\ f.of = 0
  BY BoundsAssumption DEF Carries, Numbered, Counts
<1> HIDE DEF f
<1>11. net'.s2c = Append(net.s2c, f)
  BY DEF ServerCloses, Closing, f
<1> QED
  BY <1>1, <1>9, <1>10, <1>11, NumbersAppend

\* The way to the main loop, in which an orderly server neither closes nor fails.
LEMMA PrepareDrains ==
  ASSUME Shape, LifeInv, OrderInv, DrainInv, Orderly, pc' # "failed", Prepare
  PROVE  DrainInv'
<1> USE DEF Goes
<1>0. net \in StreamType
  BY Whole
<1>1. /\ pc \in BeforeLoop
      /\ pc' \in {"connect", "first_send", "first_read", "first_request", "idle", "loop"}
      /\ rpc' \in {"off", "read"}
  BY DEF Prepare, SetUp, Begin, Connect, ConnectFails, FirstSent, FirstSendFails, FirstAnswer,
     FirstRequest, FirstAnswerUnusable, GiveUp, MainStop, LifeInv, BeforeReader, BeforeLoop
<1>2. net'.state = "active" /\ ~net'.ended
  <2>1. /\ Before'
        /\ pc' \in MainLoop => net'.state = "active" /\ ~net'.ended
    BY <1>0, SetUpBefore DEF Prepare, OrderInv, Orderly
  <2> QED
    BY <1>1, <2>1 DEF Before, Fresh, MainLoop
<1>3. Closing(net)
  BY <1>1 DEF DrainInv, BeforeLoop
<1>4. Closing(net')
  <2>1. CASE UNCHANGED net
    BY <1>3, <2>1
  <2>2. CASE Buffer(Carries("binary", 0))
    <3>1. Carries("binary", 0) \in Numbered
      BY BoundsAssumption DEF Carries, Numbered
    <3> QED
      BY <1>0, <1>3, <2>2, <3>1, BufferCloses
  <2>3. CASE Yields({"binary"})
    BY <1>0, <1>3, <2>3, ReadCloses
  <2> QED
    BY <2>1, <2>2, <2>3 DEF Prepare, SetUp, Begin, Connect, ConnectFails, FirstSent, Flushed,
       FirstSendFails, FirstAnswer, FirstRequest, FirstAnswerUnusable, GiveUp
<1>5. ~net'.eof
  BY <1>2, <1>4 DEF Closing
<1> QED
  BY <1>1, <1>2, <1>4, <1>5 DEF DrainInv

\* The rounds: none is refused, and the reader outlives them.
LEMMA StartDrains ==
  ASSUME Shape, DrainInv, Orderly, StartRound
  PROVE  DrainInv'
<1>0. net \in StreamType
  BY Whole
<1>1. /\ pc = "loop" /\ pc' \in {"send", "loop"} /\ rpc' = rpc
  BY DEF StartRound, ByWriter, BeginSend, SendRefused, CanStart, readerVars
<1>2. /\ Closing(net) /\ net.state = "active" /\ ~net.eof /\ rpc # "done" /\ ~net.ended
  BY <1>1 DEF DrainInv, Closing
<1>3. BeginSend
  BY <1>2 DEF StartRound, ByWriter, SendRefused
<1> DEFINE f == Carries("binary", rounds + 1)
<1>4. Buffer(f) /\ f \in Numbered /\ f.kind # "close" /\ pc' = "send"
  BY <1>3, Whole, BoundsAssumption DEF BeginSend, CanStart, Carries, Numbered
<1> HIDE DEF f
<1>5. Closing(net') /\ net'.eof = net.eof /\ net'.ended = net.ended /\ net'.state = "active"
  BY <1>0, <1>2, <1>4, BufferCloses
<1> QED
  BY <1>1, <1>2, <1>4, <1>5 DEF DrainInv

\* The rest of the writer: the Close goes out when the rounds are over.
LEMMA WriterDrains ==
  ASSUME Shape, LifeInv, DrainInv, Orderly, pc # "failed",
         ByWriter(Flush \/ SendEnds \/ Pace \/ Leave \/ DropWriter \/ Join)
  PROVE  DrainInv'
<1> USE DEF Goes
<1>0. net \in StreamType
  BY Whole
<1>1. /\ UNCHANGED <<rpc, rounds, answer>>
      /\ Closing(net) /\ ~net.rst
      /\ net.ended => rpc = "done"
      /\ net.state = "active" <=> pc \notin {"flush", "join", "closed"}
      /\ rpc \notin {"off", "done"} /\ net.eof => Numbers(net.s2c, answer + 1, rounds + 1)
      /\ rpc = "done" => answer = rounds /\ net.eof
  BY DEF DrainInv, Closing, ByWriter, Flush, SendEnds, SendFails, Pace, Leave, LifetimeEnds,
     ShutdownEnds, SendClose, DropWriter, Join, readerVars
<1>2. CASE Flush
  <2>1. /\ Closing(net') /\ net'.state = net.state /\ net'.ended = net.ended
        /\ net'.eof = net.eof /\ net'.s2c = net.s2c /\ pc' = pc
    BY <1>0, <1>1, <1>2, FlushCloses DEF Flush, StreamType
  <2> QED
    BY <1>1, <2>1 DEF DrainInv
<1>3. CASE SendClose
  <2> DEFINE f == Carries("close", 0)
  <2>1. f \in Numbered /\ f.kind = "close"
    BY BoundsAssumption DEF Carries, Numbered
  <2>2. pc = "close" /\ pc' = "flush" /\ Buffer(f)
    BY <1>1, <1>3 DEF SendClose
  <2> HIDE DEF f
  <2>3. /\ Closing(net') /\ net'.state # "active" /\ net'.ended = net.ended
        /\ net'.eof = net.eof /\ net'.s2c = net.s2c
    BY <1>0, <1>1, <2>1, <2>2, BufferCloses
  <2> QED
    BY <1>1, <2>2, <2>3 DEF DrainInv
<1>4. CASE /\ UNCHANGED net
           /\ pc' \in {"flush", "join", "closed"} <=> pc \in {"flush", "join", "closed"}
  BY <1>1, <1>4 DEF DrainInv
<1>5. ~FlushFails
  BY <1>1 DEF FlushFails
<1>6. Flush \/ SendClose \/
        /\ UNCHANGED net
        /\ pc' \in {"flush", "join", "closed"} <=> pc \in {"flush", "join", "closed"}
  BY <1>5 DEF ByWriter, SendEnds, SendFails, Pace, Leave, LifetimeEnds, ShutdownEnds, Waiting,
     DropWriter, Join, Flushed
<1> QED
  BY <1>2, <1>3, <1>4, <1>6

\* The reader takes in every answer that is left, and is done when there is none.
LEMMA ReaderDrains ==
  ASSUME Shape, LifeInv, OrderInv, DrainInv, Orderly, pc # "failed", ReaderStep
  PROVE  DrainInv'
<1>0. /\ net \in StreamType /\ answer \in Nat /\ rounds \in Nat
      /\ answer + 1 \in Int /\ rounds + 1 \in Int
  BY Whole
<1>1. /\ UNCHANGED <<pc, rounds>> /\ rpc \notin {"off", "done"}
      /\ Closing(net) /\ ~net.ended
      /\ net.state = "active" <=> pc \notin {"flush", "join", "closed"}
      /\ net.eof => Numbers(net.s2c, answer + 1, rounds + 1)
  BY DEF DrainInv, ReaderStep, ReadBinary, ReadOther, ReadNone, ReadFails, Steal, StealMisses,
     RecordLatency, RecordRequest, ReaderGoes
<1>2. CASE ReadBinary \/ ReadOther
  <2>1. /\ Closing(net') /\ net'.s2c = Tail(net.s2c) /\ net.s2c # <<>>
        /\ net'.eof = net.eof /\ net'.ended = net.ended
        /\ net'.state = "active" <=> net.state = "active"
    BY <1>0, <1>1, <1>2, ReadCloses DEF ReadBinary, ReadOther
  <2>2. rpc' \in {"read", "steal"}
    BY <1>2 DEF ReadBinary, ReadOther, ReaderGoes
  <2>3. IF Counts(Head(net.s2c)) THEN answer' = answer + 1 ELSE answer' = answer
    BY <1>2, ReadFollows DEF Orderly
  <2>4. net'.eof => Numbers(net'.s2c, answer' + 1, rounds' + 1)
    <3> DEFINE n == answer + 1
               high == rounds + 1
    <3>1. net.s2c \in Seq(Numbered) /\ n \in Int /\ high \in Int
      BY <1>0 DEF StreamType
    <3>2. net.eof => Numbers(net.s2c, n, high)
      BY <1>1
    <3>3. rounds' + 1 = high /\ answer' + 1 = IF Counts(Head(net.s2c)) THEN n + 1 ELSE n
      BY <1>1, <2>3
    <3> HIDE DEF n, high
    <3>4. net.eof => IF Counts(Head(net.s2c)) THEN Numbers(Tail(net.s2c), n + 1, high)
                                              ELSE Numbers(Tail(net.s2c), n, high)
      BY <2>1, <3>1, <3>2, NumbersTail
    <3> QED
      BY <2>1, <3>3, <3>4
  <2> QED
    BY <1>1, <2>1, <2>2, <2>4 DEF DrainInv
<1>3. CASE ReadNone
  <2>1. rpc' = "done" /\ answer' = answer /\ YieldsNone
    BY <1>3 DEF ReadNone, ReaderGoes, ReaderKeeps
  <2>2. net.eof /\ net.s2c = <<>>
    BY <1>0, <1>1, <2>1, EndCloses
  <2>3. answer = rounds
    <3> DEFINE n == answer + 1
               high == rounds + 1
    <3>1. net.s2c \in Seq(Numbered) /\ n \in Int /\ high \in Int /\ Numbers(net.s2c, n, high)
      BY <1>0, <1>1, <2>2 DEF StreamType
    <3> HIDE DEF n, high
    <3>2. n = high
      BY <2>2, <3>1, NumbersBounds
    <3> QED
      BY <1>0, <3>2 DEF n, high
  <2>4. /\ net'.state = net.state /\ net'.eof /\ Closing(net')
    <3>1. net' = [net EXCEPT !.ended = TRUE]
      BY <2>1 DEF YieldsNone
    <3>2. /\ net'.state = net.state /\ net'.out = net.out /\ net'.c2s = net.c2s
          /\ net'.s2c = net.s2c /\ net'.eof = net.eof /\ net'.bye = net.bye
          /\ net'.rst = net.rst
      BY <1>0, <3>1 DEF StreamType
    <3> QED
      BY <1>1, <2>2, <3>2 DEF Closing
  <2> QED
    BY <1>1, <2>1, <2>3, <2>4 DEF DrainInv
<1>4. ~ReadFails
  BY <1>0, <1>1, EndCloses DEF ReadFails
<1>5. CASE Steal \/ StealMisses \/ RecordLatency \/ RecordRequest
  <2>1. UNCHANGED <<net, answer>> /\ rpc' \notin {"off", "done"}
    BY <1>5 DEF Steal, StealMisses, RecordLatency, RecordRequest, ReaderKeeps, ReaderGoes
  <2> QED
    BY <1>1, <2>1 DEF DrainInv
<1> QED
  BY <1>2, <1>3, <1>4, <1>5 DEF ReaderStep

\* The server ends the stream behind the last answer.
LEMMA ServerDrains ==
  ASSUME Shape, LifeInv, OrderInv, DrainInv, Orderly, pc # "failed", ByServer(ServerStep)
  PROVE  DrainInv'
<1>0. net \in StreamType /\ answer + 1 \in Int /\ rounds + 1 \in Int
  BY Whole
<1>1. /\ ServerStep /\ UNCHANGED <<pc, rpc, rounds, answer>>
      /\ Closing(net)
      /\ net.ended => rpc = "done"
      /\ net.state = "active" <=> pc \notin {"flush", "join", "closed"}
      /\ rpc = "done" => answer = rounds /\ net.eof
  BY DEF DrainInv, ByServer, Others, readerVars
<1>2. /\ Closing(net') /\ ~net.eof
      /\ net'.state = net.state /\ net'.ended = net.ended
      /\ net'.eof => ServerCloses
  BY <1>0, <1>1, ServerStepCloses
<1>3. ASSUME rpc \notin {"off", "done"}, net'.eof
      PROVE  Numbers(net'.s2c, answer + 1, rounds + 1)
  <2>1. Ordered(net, answer + 1, rounds + 1, rounds + 1)
    BY <1>3 DEF OrderInv, Latest, Orderly
  <2> QED
    BY <1>0, <1>1, <1>2, <1>3, <2>1, AnswersLeft
<1> QED
  BY <1>1, <1>2, <1>3 DEF DrainInv

\* Every step keeps the end in reach.
LEMMA DrainNext == IInv /\ [Next]_vars => DrainInv'
<1> SUFFICES ASSUME IInv, [Next]_vars, Orderly', pc' # "failed" PROVE DrainInv'
  BY DEF DrainInv
<1> USE DEF IInv
<1>0. UNCHANGED frozen /\ (pc = "failed" => pc' = "failed")
  BY DEF Next, WriterStep, Prepare, SetUp, Begin, Connect, ConnectFails, FirstSent,
     FirstSendFails, FirstAnswer, FirstRequest, FirstAnswerUnusable, GiveUp, StartRound,
     ByWriter, BeginSend,
     SendRefused, CanStart, Flush, SendEnds, SendFails, Pace, Leave, LifetimeEnds, ShutdownEnds,
     Waiting, SendClose, DropWriter, Join, Goes, ReaderStep, ReadBinary, ReadOther,
     ReadNone, ReadFails, Steal, StealMisses, RecordLatency, RecordRequest, ReaderGoes,
     ByServer, ByMain, Expires, Others, frozen, vars
<1>1. Orderly /\ pc # "failed"
  BY <1>0 DEF Orderly, EchoServer, frozen
<1>2. CASE WriterStep
  BY <1>1, <1>2, PrepareDrains, StartDrains, WriterDrains DEF WriterStep
<1>3. CASE ReaderStep
  BY <1>1, <1>3, ReaderDrains
<1>4. CASE ByServer(ServerStep)
  BY <1>1, <1>4, ServerDrains
<1>5. CASE ByMain(MainStep) \/ Expires \/ UNCHANGED vars
  <2>1. UNCHANGED <<frozen, pc, rounds, net, rpc, answer>>
    BY <1>5 DEF ByMain, Expires, Others, readerVars, vars
  <2> QED
    BY <2>1 DEF DrainInv, Orderly, EchoServer, frozen
<1> QED
  BY <1>2, <1>3, <1>4, <1>5 DEF Next

-----------------------------------------------------------------------------
(***************************************************************************)
(* The theorems.                                                           *)
(***************************************************************************)

\* The initial state satisfies the inductive invariant.
LEMMA InductiveInit == Init => IInv
<1> SUFFICES ASSUME Init PROVE IInv
  OBVIOUS
<1>1. Shape
  BY WsShapeInit, SampleEveryAssumption, BoundsAssumption DEF Init, Shape, WsShape, Types
<1>2. LifeInv
  BY DEF Init, WsInit, LifeInv, BeforeReader, BeforeLoop
<1>3. CountInv
  <2>1. Len(sent_times) = 0
    BY DEF Init
  <2> QED
    BY <2>1 DEF Init, WsInit, BenchInit, CountInv, InHand, Sends
<1>4. OrderInv
  BY DEF Init, WsInit, OrderInv, Before, Fresh, Up
<1>5. QueueInv
  <2>1. sent_times = <<>> /\ rounds = 0 /\ rpc = "off" /\ answer = 0 /\ unmatched = 0
    BY DEF Init, WsInit
  <2>2. Len(sent_times) = 0
    BY <2>1
  <2>3. rounds = 0 /\ rpc = "off"
    BY <2>1
  <2>4. Taken = 0
    BY <2>2, <2>3 DEF Taken
  <2>5. Pending = 0
    BY <2>3 DEF Pending
  <2> QED
    BY <2>1, <2>2, <2>4, <2>5 DEF QueueInv
<1>6. DrainInv
  <2>1. Closing(net)
    BY AvoidsNone DEF Init, WsInit, Closing
  <2> QED
    BY <2>1 DEF Init, WsInit, DrainInv
<1> QED
  BY <1>1, <1>2, <1>3, <1>4, <1>5, <1>6 DEF IInv

\* Every behaviour of the pipeline satisfies the inductive invariant.
THEOREM Inductive == Spec => []IInv
<1>1. IInv /\ [Next]_vars => IInv'
  BY ShapeNext, LifeNext, CountNext, OrderNext, QueueNext, DrainNext DEF IInv
<1> QED
  BY InductiveInit, <1>1, PTL DEF Spec

\* Every variable keeps its type: whatever control frames and errors come in between,
\* the queue holds numbers of rounds that have begun, and the reader is there from the
\* main loop on and only then.
THEOREM TypeCorrect == Spec => []TypeOK
<1>1. IInv => TypeOK
  BY DEF IInv, Shape, TypeOK, LifeInv, BeforeReader
<1> QED
  BY Inductive, <1>1, PTL

\* Whatever the server sends, no more answers are counted than rounds were begun: each
\* one that is counted has used up the time of a round of its own.
THEOREM RequestsCorrect == Spec => []RequestsNeverExceedRounds
<1>1. ASSUME IInv PROVE RequestsNeverExceedRounds
  <2>1. total_requests \in Nat /\ rounds \in Nat /\ Len(sent_times) \in Nat
    BY <1>1, BoundsAssumption DEF IInv, Shape, Types, WsTypeOK, BenchTypeOK
  <2> QED
    BY <1>1, <2>1 DEF IInv, CountInv, InHand, Sends, RequestsNeverExceedRounds
<1> QED
  BY Inductive, <1>1, PTL

\* Whatever control frames, unusable answers and failed steals come in between, at an
\* echo server a time is there for every binary answer, and the one it is given is that
\* of the message as many rounds before its own as answers went by unmatched.
THEOREM LatencyLateCorrect == Spec => []LatencyLate
<1>1. ASSUME IInv PROVE LatencyLate
  <2>0. IInv
    BY <1>1
  <2>1. ASSUME EchoServer, rpc = "steal"
        PROVE  sent_times # <<>>
    <3> DEFINE n == answer + 1
               high == rounds + 1
    <3>1. /\ net \in StreamType /\ rounds \in Nat /\ answer \in Nat /\ unmatched \in Nat
          /\ n \in Int /\ high \in Int
      BY <2>0, Whole DEF IInv
    <3>2. Ordered(net, n, Latest, high)
      BY <2>0, <2>1 DEF IInv, OrderInv
    <3> HIDE DEF n, high
    <3>3. n <= high
      BY <3>1, <3>2, OrderedWithin
    <3>4. answer <= rounds
      BY <3>1, <3>3 DEF n, high
    <3>5. (Taken + unmatched) + 1 = answer
      BY <2>0, <2>1 DEF IInv, QueueInv, Pending
    <3>6. Len(sent_times) \in Nat
      BY <2>0 DEF IInv, Shape, Types
    <3>7. Len(sent_times) # 0
      BY <3>1, <3>4, <3>5, <3>6 DEF Taken
    <3> QED
      BY <3>7
  <2> QED
    BY <2>0, <2>1 DEF LatencyLate, IInv, QueueInv
<1> QED
  BY Inductive, <1>1, PTL

\* At an echo server that neither fails nor chatters the shutdown may drop a send half
\* way and the lifetime end at any round: when the worker has ended, the answer to every
\* message it began to send has been read.
THEOREM DrainCorrect == Spec => []GracefulDrain
<1>1. IInv => GracefulDrain
  BY DEF IInv, DrainInv, LifeInv, GracefulDrain, Orderly
<1> QED
  BY Inductive, <1>1, PTL

-----------------------------------------------------------------------------
(***************************************************************************)
(* The refinement of Connection.                                           *)
(***************************************************************************)

\* The reader counts only while the connection is open.
LEMMA ReaderWithinLife ==
  ASSUME LifeInv, rpc \notin {"off", "done"}
  PROVE  ConnOf = "open"
BY DEF LifeInv, BeforeReader, BeforeLoop, ConnOf, WorkerEnded

\* Every step of the two tasks and of the benchmark is one of Connection, or none.
LEMMA Refines == LifeInv /\ [Next]_vars => [Conn!Next]_Conn!connVars
<1> SUFFICES ASSUME LifeInv, [Next]_vars PROVE Conn!Next \/ UNCHANGED Conn!connVars
  OBVIOUS
<1>1. CASE WriterStep
  <2> USE DEF ByWriter, Goes, ConnOf, WorkerEnded
  <2>1. CASE Prepare
    BY <2>1, SetUpRefines DEF Prepare
  <2>2. CASE StartRound \/ ByWriter(SendFails \/ Flush \/ Pace \/ Leave)
    <3>1. Edge
      BY <2>2 DEF StartRound, Edge
    <3> QED
      BY <3>1, EdgeRefines
  <2>3. CASE ByWriter((SendEnds /\ ~SendFails) \/ DropWriter)
    BY <2>3, Stutter DEF SendEnds, DropWriter, Counters, benchVars
  <2>4. CASE ByWriter(Join)
    BY <2>4, SuccessRefines DEF Join
  <2> QED
    BY <1>1, <2>1, <2>2, <2>3, <2>4 DEF WriterStep, SendEnds
<1>2. CASE ReaderStep
  <2>0. ConnOf = "open" /\ ConnOf' = "open" /\ ConnOf' = ConnOf
    <3>1. rpc \notin {"off", "done"} /\ UNCHANGED pc
      BY <1>2 DEF ReaderStep, ReadBinary, ReadOther, ReadNone, ReadFails, Steal, StealMisses,
         RecordLatency, RecordRequest, ReaderGoes
    <3> QED
      BY <3>1, ReaderWithinLife DEF ConnOf, WorkerEnded
  <2>1. CASE ReadBinary \/ ReadOther \/ ReadNone \/ Steal \/ StealMisses
    BY <2>0, <2>1, Stutter DEF ReadBinary, ReadOther, ReadNone, Steal, StealMisses, Counters,
       benchVars
  <2>2. CASE ReadFails
    BY <2>0, <2>2, ErrorRefines DEF ReadFails
  <2>3. CASE RecordLatency
    BY <2>0, <2>3, Stutter DEF RecordLatency, CountLatency, Counters
  <2>4. CASE RecordRequest
    BY <2>0, <2>4, RequestRefines DEF RecordRequest, CountRequest
  <2> QED
    BY <1>2, <2>1, <2>2, <2>3, <2>4 DEF ReaderStep
<1>3. CASE ByServer(ServerStep) \/ Expires
  BY <1>3, Stutter DEF ByServer, Expires, Others, Counters, benchVars, ConnOf, WorkerEnded
<1>4. CASE ByMain(MainStep)
  BY <1>4, MainRefines DEF ByMain, Others
<1>5. CASE UNCHANGED vars
  BY <1>5, Stutter DEF vars, Counters, benchVars, ConnOf, WorkerEnded
<1> QED
  BY <1>1, <1>2, <1>3, <1>4, <1>5 DEF Next

\* The two tasks together are one connection task as the runner knows it: the reader
\* touches no counter before the first message is answered or after the worker's end.
THEOREM ImplementsConnection == Spec => ConnectionSpec
<1>1. Init => Conn!Init
  BY DEF Init, WsInit, BenchInit, Conn!Init, ConnOf, WorkerEnded
<1>2. ConnectionSpec <=> Conn!Init /\ [][Conn!Next]_Conn!connVars
  BY DEF ConnectionSpec, Conn!Spec
<1> QED
  BY <1>1, <1>2, Refines, Inductive, PTL DEF Spec, IInv
=============================================================================
