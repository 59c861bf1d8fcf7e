------------------------------ MODULE WsPipeline ------------------------------
(***************************************************************************)
(* One connection in WebSocket pipeline mode: websocket_worker_pipeline in *)
(* src/src/websocket_worker.rs.  As in TcpPipeline a writer queues the     *)
(* time of each send and a reader task takes one time per answer.  Here    *)
(* the stream keeps messages apart, so that no answer is made of parts of  *)
(* two; but only binary frames are answers to the reader, and both tasks   *)
(* share the stream's state: a Close or an error that one of them meets    *)
(* changes what the other may do.                                          *)
(*                                                                         *)
(* The time of a send is represented by the number of its round.           *)
(***************************************************************************)
EXTENDS WsWorker

VARIABLES
  rpc,          \* where the spawned reader task is
  sent_times,   \* the queue between the two tasks
  sent_time,    \* reader: the time it has stolen
  counter,      \* reader: binary frames; only its rest modulo SampleEvery is looked
                \* at, so that is what the variable holds
  answer,       \* history: the round whose answer was read last
  unmatched     \* history: answers for which no time was taken

readerVars == <<rpc, sent_time, counter, answer, unmatched>>
vars == <<benchVars, frozen, pc, expired, rounds, net, sent_times, readerVars>>

Types ==
  /\ WsTypeOK
  /\ rpc \in {"off", "read", "steal", "latency", "request", "done"}
  /\ sent_times \in Seq(1 .. MaxRounds) /\ sent_time \in 0 .. MaxRounds
  /\ counter \in 0 .. SampleEvery - 1
  /\ answer \in 0 .. MaxRounds /\ unmatched \in Nat

\* The types; and the reader exists from the main loop on, and only then.
TypeOK == Types /\ (rpc = "off" <=> pc \in BeforeLoop \cup {"failed"})

Init ==
  /\ WsInit
  /\ rpc = "off" /\ sent_times = <<>> /\ sent_time = 0 /\ counter = 0
  /\ answer = 0 /\ unmatched = 0

-----------------------------------------------------------------------------
(***************************************************************************)
(* The worker's own task.                                                  *)
(***************************************************************************)
ByWriter(A) == A /\ UNCHANGED <<frozen, expired, readerVars>>

\* Mutant: a worker that only waits gets no reader, yet will join it.
PrepareNoIdleReader ==
  /\ SetUp
  /\ rpc' = IF pc' = "loop" THEN "read" ELSE rpc
  /\ UNCHANGED <<frozen, expired, sent_times, sent_time, counter, answer, unmatched>>

\* URL, connection and first message; then the reader is spawned.
Prepare ==
  /\ SetUp
  /\ rpc' = IF pc' \in MainLoop THEN "read" ELSE rpc
  /\ UNCHANGED <<frozen, expired, sent_times, sent_time, counter, answer, unmatched>>

\* The time is queued before the stream is asked to take the message.
StartRound ==
  /\ ByWriter(BeginSend \/ SendRefused)
  /\ sent_times' = Append(sent_times, rounds')

SendEnds ==
  \/ Goes("send", "pace") /\ Flushed /\ UNCHANGED <<benchVars, rounds>>
  \/ SendFails

\* The Close is out, or cannot go out: the write half is dropped.
DropWriter ==
  Goes("flush", "join") /\ (Flushed \/ FlushFails) /\ UNCHANGED <<benchVars, rounds>>

\* Mutant: the reader is left behind.
JoinAtOnce == Goes("join", "closed") /\ CountSuccess /\ UNCHANGED <<rounds, net>>

\* reader_handle.await returns once the reader task is done.
Join == Goes("join", "closed") /\ rpc = "done" /\ CountSuccess /\ UNCHANGED <<rounds, net>>

WriterStep ==
  \/ Prepare \/ StartRound
  \/ /\ ByWriter(Flush \/ SendEnds \/ Pace \/ Leave \/ DropWriter \/ Join)
     /\ UNCHANGED sent_times

-----------------------------------------------------------------------------
(***************************************************************************)
(* The reader task.                                                        *)
(***************************************************************************)
ReaderGoes(from, to) ==
  /\ rpc = from /\ rpc' = to
  /\ UNCHANGED <<frozen, pc, expired, rounds>>

ReadBinary ==
  /\ ReaderGoes("read", "steal") /\ Yields({"binary"})
  /\ counter' = (counter + 1) % SampleEvery /\ answer' = Head(net.s2c).of
  /\ UNCHANGED <<benchVars, sent_times, sent_time, unmatched>>

\* Mutant: a frame of another kind uses a time up as well.
ReadOtherSteals ==
  /\ ReaderGoes("read", "read") /\ Yields({"other", "close"})
  /\ IF Head(net.s2c).of = 0
     THEN UNCHANGED <<answer, unmatched>>
     ELSE answer' = Head(net.s2c).of /\ unmatched' = unmatched + 1
  /\ sent_times' = IF sent_times = <<>> THEN <<>> ELSE Tail(sent_times)
  /\ UNCHANGED <<benchVars, sent_time, counter>>

\* Ignored, be it an answer or not; a time stays in the queue for each answer.
ReadOther ==
  /\ ReaderGoes("read", "read") /\ Yields({"other", "close"})
  /\ IF Head(net.s2c).of = 0
     THEN UNCHANGED <<answer, unmatched>>
     ELSE answer' = Head(net.s2c).of /\ unmatched' = unmatched + 1
  /\ UNCHANGED <<benchVars, sent_times, sent_time, counter>>

ReaderKeeps == UNCHANGED <<sent_times, sent_time, counter, answer, unmatched>>

\* Mutant: a loop that matches Some(_) and forgets None.
ReadNoneIgnored == ReaderGoes("read", "read") /\ YieldsNone /\ UNCHANGED benchVars /\ ReaderKeeps

ReadNone == ReaderGoes("read", "done") /\ YieldsNone /\ UNCHANGED benchVars /\ ReaderKeeps

\* Mutant: the reader listens for the shutdown as well.
ReadFailsAtShutdown ==
  /\ ReaderGoes("read", "done")
  /\ YieldsError \/ (shutdown_received /\ UNCHANGED net)
  /\ CountError /\ ReaderKeeps

ReadFails == ReaderGoes("read", "done") /\ YieldsError /\ CountError /\ ReaderKeeps

Steal ==
  /\ ReaderGoes("steal", "latency") /\ sent_times # <<>>
  /\ sent_time' = Head(sent_times) /\ sent_times' = Tail(sent_times)
  /\ UNCHANGED <<benchVars, net, counter, answer, unmatched>>

\* Mutant: an answer is counted whether or not a time was found.
StealMissesButCounts ==
  /\ ReaderGoes("steal", "request")
  /\ unmatched' = unmatched + 1
  /\ UNCHANGED <<benchVars, net, sent_times, sent_time, counter, answer>>

\* Steal::Empty, or Steal::Retry, which the queue may answer at any time.
StealMisses ==
  /\ ReaderGoes("steal", "read")
  /\ unmatched' = unmatched + 1
  /\ UNCHANGED <<benchVars, net, sent_times, sent_time, counter, answer>>

RecordLatency ==
  ReaderGoes("latency", "request") /\ CountLatency(counter) /\ UNCHANGED net /\ ReaderKeeps
RecordRequest ==
  ReaderGoes("request", "read") /\ CountRequest /\ UNCHANGED net /\ ReaderKeeps

ReaderStep ==
  ReadBinary \/ ReadOther \/ ReadNone \/ ReadFails \/ Steal \/ StealMisses
  \/ RecordLatency \/ RecordRequest

-----------------------------------------------------------------------------
Others == <<frozen, pc, sent_times, readerVars, rounds>>
ByServer(A) == A /\ UNCHANGED <<benchVars, expired, Others>>
ByMain(A) == A /\ UNCHANGED <<expired, net, Others>>
Expires == Expire /\ UNCHANGED <<benchVars, net, Others>>

Next ==
  WriterStep \/ ReaderStep \/ ByServer(ServerStep) \/ ByMain(MainStep) \/ Expires

Spec == Init /\ [][Next]_vars

\* Both tasks run whenever they can, the broadcast follows the flag, the server keeps
\* reading and hangs up after a Close, and its host refuses what comes after.
Fairness ==
  /\ WF_vars(WriterStep) /\ WF_vars(ReaderStep)
  /\ WF_vars(ByMain(NotifyShutdown))
  /\ WF_vars(ByServer(ServerReads))
  /\ WF_vars(ByServer(ServerHangsUp)) /\ WF_vars(ByServer(ServerRefuses))

FairSpec == Spec /\ Fairness

-----------------------------------------------------------------------------
(***************************************************************************)
(* Properties.                                                             *)
(***************************************************************************)

\* At an echo server every binary answer finds a time in the queue, and the time it is
\* given is that of the message exactly as many rounds before its own as answers went
\* by unmatched: a latency can be too long but never too short.
LatencyLate ==
  EchoServer =>
    /\ rpc = "steal" => sent_times # <<>>
    /\ rpc \in {"latency", "request"} => sent_time + unmatched = answer

\* Whatever the server sends, no more answers are counted than rounds were begun.
RequestsNeverExceedRounds ==
  total_requests <= rounds + (IF config.first_message THEN 1 ELSE 0)

\* Ending loses nothing at an echo server that neither fails nor chatters: a message
\* whose send the shutdown has dropped half way still goes out before the Close, and
\* the reader takes in every answer before the task ends.
GracefulDrain ==
  pc = "closed" /\ EchoServer /\ ~server.fails /\ server.closes => answer = rounds

\* The worker is a connection task as the runner knows it.
ConnectionSpec == Conn!Spec

\* At a server that closes, the worker ends once the shutdown is broadcast, and at an
\* echo server once its lifetime is over, unless its reader has met an error and both
\* directions have filled since.
WorkerEndsInTime ==
  (server.closes /\ ((phase = "notified" /\ FirstAnswered) \/ (expired /\ server.echo)))
    ~> (WorkerEnded \/ (Jammed /\ rpc = "done"))
=============================================================================
