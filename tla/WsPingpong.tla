------------------------------ MODULE WsPingpong ------------------------------
(***************************************************************************)
(* One connection in WebSocket ping-pong mode: websocket_worker_pingpong   *)
(* in src/src/websocket_worker.rs.  A round sends a message, takes one     *)
(* frame off the stream and, if it is a binary one, records the time since *)
(* the send as the latency of the message.  A frame of another kind ends   *)
(* the round as well, and from then on every round reads the answer of an  *)
(* earlier one.                                                            *)
(***************************************************************************)
EXTENDS WsWorker

VARIABLES
  counter,    \* messages sent; only its rest modulo SampleEvery is looked at, so
              \* that is what the variable holds
  answer,     \* history: the round whose answer was read last
  answers,    \* history: rounds that read a binary frame
  lost,       \* history: rounds that read something else, or nothing
  behind      \* history: of these, the ones that left their answer to be read

mine == <<counter, answer, answers, lost, behind>>
vars == <<benchVars, frozen, pc, expired, rounds, net, mine>>

\* The types; and a round takes one frame off the stream at most.
TypeOK ==
  /\ WsTypeOK
  /\ counter \in 0 .. SampleEvery - 1
  /\ answer \in 0 .. MaxRounds /\ answers \in 0 .. rounds
  /\ lost \in 0 .. rounds - answers /\ behind \in 0 .. lost

Init ==
  /\ WsInit
  /\ counter = 0 /\ answer = 0 /\ answers = 0 /\ lost = 0 /\ behind = 0

\* URL, connection and first message.
Prepare == SetUp /\ UNCHANGED <<frozen, expired, mine>>

StartRound == (BeginSend \/ SendRefused \/ SendFails) /\ UNCHANGED <<frozen, expired, mine>>

FlushStep == Flush /\ UNCHANGED <<frozen, expired, mine>>

Sent ==
  /\ Goes("send", "read") /\ Flushed
  /\ counter' = (counter + 1) % SampleEvery
  /\ UNCHANGED <<benchVars, frozen, expired, rounds, answer, answers, lost, behind>>

ReadBinary ==
  /\ Goes("read", "latency") /\ Yields({"binary"})
  /\ answer' = Head(net.s2c).of /\ answers' = answers + 1
  /\ UNCHANGED <<benchVars, frozen, expired, rounds, counter, lost, behind>>

\* Mutant: any frame is an answer.
ReadOtherAnswers ==
  /\ Goes("read", "latency") /\ Yields({"other", "close"})
  /\ answer' = Head(net.s2c).of /\ answers' = answers + 1
  /\ UNCHANGED <<benchVars, frozen, expired, rounds, counter, lost, behind>>

\* The round is over: the answer, if it is still to come, is left for the next.
ReadOther ==
  /\ Goes("read", "pace") /\ Yields({"other", "close"})
  /\ lost' = lost + 1
  /\ behind' = IF Head(net.s2c).of = 0 THEN behind + 1 ELSE behind
  /\ UNCHANGED <<benchVars, frozen, expired, rounds, counter, answer, answers>>

\* After a receive error rounds go on, sending without reading.
ReadNone ==
  /\ Goes("read", "pace") /\ YieldsNone
  /\ lost' = lost + 1
  /\ UNCHANGED <<benchVars, frozen, expired, rounds, counter, answer, answers, behind>>

\* Mutant: the error is not recorded.
ReadFailsUnrecorded ==
  Goes("read", "loop") /\ YieldsError /\ UNCHANGED <<benchVars, frozen, expired, rounds, mine>>

ReadFails ==
  Goes("read", "loop") /\ YieldsError /\ CountError /\ UNCHANGED <<frozen, expired, rounds, mine>>

RecordLatency ==
  Goes("latency", "request") /\ CountLatency(counter)
  /\ UNCHANGED <<frozen, expired, rounds, net, mine>>

\* Mutant: a while let for the if let, which takes frames until there are no more.
RecordRequestReadsOn ==
  Goes("request", "read") /\ CountRequest
  /\ UNCHANGED <<frozen, expired, rounds, net, mine>>

RecordRequest ==
  Goes("request", "pace") /\ CountRequest
  /\ UNCHANGED <<frozen, expired, rounds, net, mine>>

PaceStep == Pace /\ UNCHANGED <<frozen, expired, mine>>

LeaveLoop == Leave /\ UNCHANGED <<frozen, expired, mine>>

\* The Close is out, or cannot go out: the stream is dropped.
Close ==
  /\ Goes("flush", "closed") /\ (Flushed \/ FlushFails)
  /\ CountSuccess
  /\ UNCHANGED <<frozen, expired, rounds, mine>>

WorkerStep ==
  Prepare \/ StartRound \/ FlushStep \/ Sent \/ ReadBinary \/ ReadOther \/ ReadNone
  \/ ReadFails \/ RecordLatency \/ RecordRequest \/ PaceStep \/ LeaveLoop \/ Close

-----------------------------------------------------------------------------
ByServer(A) == A /\ UNCHANGED <<benchVars, frozen, pc, expired, rounds, mine>>
ByMain(A) == A /\ UNCHANGED <<frozen, pc, expired, rounds, net, mine>>
Expires == Expire /\ UNCHANGED <<benchVars, frozen, pc, rounds, net, mine>>

Next == WorkerStep \/ ByServer(ServerStep) \/ ByMain(MainStep) \/ Expires

Spec == Init /\ [][Next]_vars

\* The worker runs whenever it can, the broadcast follows the flag, the server keeps
\* reading, and its host refuses what comes after it has closed.
Fairness ==
  /\ WF_vars(WorkerStep)
  /\ WF_vars(ByMain(NotifyShutdown))
  /\ WF_vars(ByServer(ServerReads))
  /\ WF_vars(ByServer(ServerRefuses))

FairSpec == Spec /\ Fairness

-----------------------------------------------------------------------------
(***************************************************************************)
(* Properties.                                                             *)
(***************************************************************************)

\* At an echo server a latency is measured from the send of a message that is
\* exactly as many rounds after its own as rounds before took an unasked frame for
\* their answer: it can be too short, by any number of rounds, but never too long.
LatencyLag ==
  EchoServer /\ pc \in {"latency", "request"} => answer + behind = rounds

\* Every round read an answer, or was lost, or has an error recorded for it, or it is
\* the one under way (or the one the shutdown has dropped).
RoundsAccountedFor ==
  LET done == answers + lost + connection_errors
  IN  /\ pc \in {"idle", "loop", "latency", "request", "pace"} => rounds = done
      /\ pc \in {"send", "read"} => rounds = done + 1
      /\ pc = "closed" => rounds - done \in {0, 1}

\* The worker is a connection task as the runner knows it.
ConnectionSpec == Conn!Spec

\* The worker ends once the shutdown is broadcast, and at an echo server once its
\* lifetime is over, unless lost rounds have filled both directions.
WorkerEndsInTime ==
  ((phase = "notified" /\ FirstAnswered) \/ (expired /\ server.echo))
    ~> (WorkerEnded \/ Jammed)

\* The comment on the function: "Implements request-response pattern where each
\* message expects a response".  A round's answer is the answer to its own message.
AnswerIsOwn ==
  EchoServer /\ pc \in {"latency", "request"} => answer = rounds

\* README.md: --duration is "Load test for the specified amount of time".
DurationEndsWorker == (phase = "notified" /\ FirstAnswered) ~> WorkerEnded
=============================================================================
