-------------------------- MODULE TcpPingpongProofs --------------------------
(***************************************************************************)
(* Proofs about TcpPingpong, for every message length, window, server and  *)
(* number of rounds.  Each of its properties speaks of some places of the  *)
(* worker; the invariants below say what holds at the others, so that a    *)
(* round can be followed from its beginning to any of its ends.            *)
(***************************************************************************)
EXTENDS TcpPingpong, TLAPS

\* Nothing is counted before the main loop.
RoundsInv ==
  /\ pc \in SetUp => rounds = 0 /\ answers = 0 /\ connection_errors = 0
  /\ RoundsAccountedFor

\* An answer that has been read, and is not counted yet, pays for its request; and
\* during the warm-up nothing is counted, so a latency that is sampled has its
\* request counted in the next step.
FirstAnswers == IF config.first_message = {} THEN 0 ELSE 1

CountInv ==
  /\ pc \in SetUp => total_requests = 0
  /\ pc \in SetUp \ {"first_request"} => latency_samples = 0
  /\ pc = "first_request" => FirstAnswers = 1 /\ latency_samples \in {0, 1}
  /\ is_warmup => total_requests = 0 /\ latency_samples = 0
  /\ pc \in {"latency", "request"} => total_requests + 1 <= answers + FirstAnswers
  /\ CountsNeverExceedAnswers

\* A buffer is empty before it is read into, and full at most.
BufferInv ==
  /\ pc \in SetUp \ {"first_read"} => got = 0
  /\ ReadWithinBuffer

\* While nothing goes wrong a message is whole wherever it is: under way, in the
\* reader's buffer, or answered.
Quiet == c2s = 0 /\ s2c = 0 /\ got = 0

OwnInv ==
  /\ clean => ~eof /\ ~rst
  /\ clean /\ EchoServer =>
       /\ pc \in SetUp => consumed = written
       /\ pc \in SetUp \ {"first_read"} => Quiet
       /\ pc = "first_read" => \A len \in config.first_message : c2s + (s2c + got) = len
       /\ pc \in {"loop", "pace"} => Quiet /\ consumed = written
       /\ pc = "write" => Quiet /\ consumed = written /\ send_time = written
       /\ pc = "read" => /\ c2s + (s2c + got) = Len_
                         /\ written = send_time + Len_ /\ consumed = send_time
       /\ pc \in {"latency", "request"} =>
            Quiet /\ consumed = written /\ consumed = send_time + Len_

IInv == Types /\ BufferInv /\ RoundsInv /\ CountInv /\ OwnInv

-----------------------------------------------------------------------------
(***************************************************************************)
(* Types.                                                                  *)
(***************************************************************************)

\* The initial state has the right types.
LEMMA TypeInit == Init => Types
<1> SUFFICES ASSUME Init PROVE Types
  OBVIOUS
<1>1. counter \in 0 .. SampleEvery - 1
  BY SampleEveryAssumption DEF Init
<1> QED
  BY <1>1 DEF Init, BenchInit, Types, BenchTypeOK, Phases, SetUp

\* Every step keeps the types; the counter is taken modulo SampleEvery.
LEMMA TypeNext == Types /\ [Next]_vars => Types'
<1> SUFFICES ASSUME Types, [Next]_vars PROVE Types'
  OBVIOUS
<1> USE SampleEveryAssumption, WindowAssumption, ConfigsAssumption
<1> USE DEF Types, BenchTypeOK, Phases, SetUp, MainLoop, EndStates, benchVars, frozen,
            wire, history, Goes, SetUpOnly, ServerOnly, ConfigType, Loop, FirstStop,
            CountConnection, CountError, CountSuccess, CountRequest, CountLatency,
            record_connection_error, record_request, record_latency, Kept
<1>a. CASE WorkerStep
  <2> USE <1>a DEF WorkerStep
  <2>1. CASE Begin
    BY <2>1 DEF Begin
  <2>2. CASE Connect
    BY <2>2 DEF Connect
  <2>3. CASE ConnectFails
    BY <2>3 DEF ConnectFails, GiveUp, DropStream
  <2>4. CASE SetNodelay
    BY <2>4 DEF SetNodelay
  <2>5. CASE SetNodelayFails
    BY <2>5 DEF SetNodelayFails, DropStream
  <2>6. CASE FirstWrite
    BY <2>6 DEF FirstWrite
  <2>7. CASE FirstWriteFails
    BY <2>7 DEF FirstWriteFails, GiveUp, DropStream
  <2>8. CASE FirstReadFill
    BY <2>8 DEF FirstReadFill, Fill, Least
  <2>9. CASE FirstReadCompletes
    BY <2>9 DEF FirstReadCompletes, is_warmup
  <2>9a. CASE FirstRequest
    BY <2>9a DEF FirstRequest, is_warmup
  <2>10. CASE FirstReadFails
    BY <2>10 DEF FirstReadFails, GiveUp, DropStream
  <2>11. CASE LifetimeEnds
    BY <2>11 DEF LifetimeEnds, Close, DropStream
  <2>12. CASE ShutdownEnds
    BY <2>12 DEF ShutdownEnds, Close, DropStream
  <2>13. CASE StartRound
    BY <2>13 DEF StartRound
  <2>14. CASE Write
    BY <2>14 DEF Write, Len_
  <2>15. CASE WriteShort
    <3> USE <2>15 DEF WriteShort, Abandon
    <3>1. clean' \in BOOLEAN
      OBVIOUS
    <3>2. BenchTypeOK'
      OBVIOUS
    <3>3. fin' \in BOOLEAN /\ eof' \in BOOLEAN /\ rst' \in BOOLEAN
      OBVIOUS
    <3>4. /\ c2s' \in Nat /\ s2c' \in Nat /\ got' \in Nat /\ chatter' \in Nat
          /\ written' \in Nat
      BY DEF Accepted, Least, Len_
    <3> QED
      BY <3>1, <3>2, <3>3, <3>4
  <2>16. CASE WriteFails
    <3> USE <2>16 DEF WriteFails, Abandon
    <3>1. clean' \in BOOLEAN
      OBVIOUS
    <3>2. BenchTypeOK'
      OBVIOUS
    <3>3. fin' \in BOOLEAN /\ eof' \in BOOLEAN /\ rst' \in BOOLEAN
      OBVIOUS
    <3>4. /\ c2s' \in Nat /\ s2c' \in Nat /\ got' \in Nat /\ chatter' \in Nat
          /\ written' \in Nat
      OBVIOUS
    <3> QED
      BY <3>1, <3>2, <3>3, <3>4
  <2>17. CASE ReadFill
    BY <2>17 DEF ReadFill, Fill, Least, Len_
  <2>18. CASE ReadCompletes
    BY <2>18 DEF ReadCompletes, Len_
  <2>19. CASE ReadEnds
    <3> USE <2>19 DEF ReadEnds, Abandon
    <3>1. clean' \in BOOLEAN
      OBVIOUS
    <3>2. BenchTypeOK'
      OBVIOUS
    <3>3. fin' \in BOOLEAN /\ eof' \in BOOLEAN /\ rst' \in BOOLEAN
      OBVIOUS
    <3>4. /\ c2s' \in Nat /\ s2c' \in Nat /\ got' \in Nat /\ chatter' \in Nat
          /\ written' \in Nat
      OBVIOUS
    <3> QED
      BY <3>1, <3>2, <3>3, <3>4
  <2>20. CASE RecordLatency
    BY <2>20 DEF RecordLatency, is_warmup
  <2>21. CASE RecordRequest
    BY <2>21 DEF RecordRequest, is_warmup
  <2>22. CASE Pace
    BY <2>22 DEF Pace
  <2> QED
    BY <2>1, <2>2, <2>3, <2>4, <2>5, <2>6, <2>7, <2>8, <2>9, <2>9a, <2>10, <2>11, <2>12,
       <2>13, <2>14, <2>15, <2>16, <2>17, <2>18, <2>19, <2>20, <2>21, <2>22
<1>b. CASE Environment
  <2>1. CASE Expire
    BY <2>1 DEF Expire
  <2>2. CASE ServerEcho
    BY <2>2 DEF ServerEcho, Least
  <2>3. CASE ServerReads
    BY <2>3 DEF ServerReads
  <2>4. CASE ServerChats
    <3> USE <2>4 DEF ServerChats
    <3>1. clean' \in BOOLEAN
      OBVIOUS
    <3>2. BenchTypeOK'
      OBVIOUS
    <3>3. fin' \in BOOLEAN /\ eof' \in BOOLEAN /\ rst' \in BOOLEAN
      OBVIOUS
    <3>4. /\ c2s' \in Nat /\ s2c' \in Nat /\ got' \in Nat /\ chatter' \in Nat
          /\ written' \in Nat
      OBVIOUS
    <3> QED
      BY <3>1, <3>2, <3>3, <3>4
  <2>5. CASE ServerQuits
    <3> USE <2>5 DEF ServerQuits
    <3>1. clean' \in BOOLEAN
      OBVIOUS
    <3>2. BenchTypeOK'
      OBVIOUS
    <3>3. fin' \in BOOLEAN /\ eof' \in BOOLEAN /\ rst' \in BOOLEAN
      OBVIOUS
    <3>4. /\ c2s' \in Nat /\ s2c' \in Nat /\ got' \in Nat /\ chatter' \in Nat
          /\ written' \in Nat
      OBVIOUS
    <3> QED
      BY <3>1, <3>2, <3>3, <3>4
  <2>6. CASE ServerRefuses
    BY <2>6 DEF ServerRefuses
  <2> QED
    BY <1>b, <2>1, <2>2, <2>3, <2>4, <2>5, <2>6 DEF Environment
<1>c. CASE MainStep /\ MainUnchanged
  BY <1>c DEF MainStep, MainUnchanged, end_warmup, set_shutting_down, NotifyShutdown
<1>d. CASE UNCHANGED vars
  BY <1>d DEF vars
<1> QED
  BY <1>a, <1>b, <1>c, <1>d DEF Next

-----------------------------------------------------------------------------
(***************************************************************************)
(* Rounds.                                                                 *)
(***************************************************************************)

\* Nothing is answered, and no error is recorded, before the main loop begins.
LEMMA SetUpKeepsRounds ==
  ASSUME Types, RoundsInv,
         Begin \/ Connect \/ SetNodelay \/ SetNodelayFails \/ FirstWrite
           \/ FirstReadFill \/ FirstReadCompletes \/ FirstRequest \/ ConnectFails
           \/ FirstWriteFails \/ FirstReadFails
  PROVE  RoundsInv'
<1> USE DEF RoundsInv, RoundsAccountedFor, Types, BenchTypeOK, SetUp, Goes, SetUpOnly,
            history, benchVars, Loop, FirstStop
<1>1. CASE Begin \/ Connect \/ SetNodelay
  BY <1>1 DEF Begin, Connect, SetNodelay, CountConnection
<1>2. CASE SetNodelayFails
  BY <1>2 DEF SetNodelayFails
<1>3. CASE FirstWrite \/ FirstReadFill \/ FirstReadCompletes \/ FirstRequest
  BY <1>3 DEF FirstWrite, FirstReadFill, FirstReadCompletes, FirstRequest, CountLatency,
     CountRequest
<1>4. CASE ConnectFails \/ FirstWriteFails \/ FirstReadFails
  BY <1>4 DEF ConnectFails, FirstWriteFails, FirstReadFails, GiveUp
<1> QED
  BY <1>1, <1>2, <1>3, <1>4

\* A round begins once, and each of its ends adds one answer or one error.
LEMMA RoundsNext == Types /\ RoundsInv /\ [Next]_vars => RoundsInv'
<1> SUFFICES ASSUME Types, RoundsInv, [Next]_vars PROVE RoundsInv'
  OBVIOUS
<1> USE DEF RoundsInv, RoundsAccountedFor, Types, BenchTypeOK, SetUp, Goes, history,
            benchVars
<1>a. CASE WorkerStep
  <2>1. CASE Begin \/ Connect \/ SetNodelay \/ SetNodelayFails \/ FirstWrite
               \/ FirstReadFill \/ FirstReadCompletes \/ FirstRequest \/ ConnectFails
               \/ FirstWriteFails \/ FirstReadFails
    BY <2>1, SetUpKeepsRounds
  <2>2. CASE LifetimeEnds
    BY <2>2 DEF LifetimeEnds, Close, CountSuccess
  <2>3. CASE ShutdownEnds
    BY <2>3 DEF ShutdownEnds, Close, CountSuccess, Waiting
  <2>4. CASE StartRound
    BY <2>4 DEF StartRound
  <2>5. CASE Write
    BY <2>5 DEF Write
  <2>6. CASE WriteShort \/ WriteFails \/ ReadEnds
    BY <2>6 DEF WriteShort, WriteFails, ReadEnds, Abandon, CountError,
                record_connection_error
  <2>7. CASE ReadFill
    BY <2>7 DEF ReadFill
  <2>8. CASE ReadCompletes
    BY <2>8 DEF ReadCompletes
  <2>9. CASE RecordLatency \/ RecordRequest \/ Pace
    BY <2>9 DEF RecordLatency, RecordRequest, Pace, CountLatency, CountRequest, Kept
  <2> QED
    BY <1>a, <2>1, <2>2, <2>3, <2>4, <2>5, <2>6, <2>7, <2>8, <2>9 DEF WorkerStep
<1>b. CASE Environment
  BY <1>b DEF Environment, Expire, ServerEcho, ServerReads, ServerChats, ServerQuits,
              ServerRefuses, ServerOnly
<1>c. CASE MainStep /\ MainUnchanged
  BY <1>c DEF MainStep, MainUnchanged, end_warmup, set_shutting_down, NotifyShutdown
<1>d. CASE UNCHANGED vars
  BY <1>d DEF vars
<1> QED
  BY <1>a, <1>b, <1>c, <1>d DEF Next

-----------------------------------------------------------------------------
(***************************************************************************)
(* Counts.                                                                 *)
(***************************************************************************)

\* A step that changes no count, and does not lead to the places where one is due.
LEMMA NothingCounted ==
  ASSUME Types, CountInv,
         UNCHANGED <<phase, total_requests, latency_samples, answers, config>>,
         pc \notin {"latency", "request", "first_request"},
         pc' = pc \/ pc' \notin SetUp \cup {"latency", "request"}
           \/ (pc \in SetUp /\ pc' \in SetUp \ {"first_request"})
  PROVE  CountInv'
BY DEF CountInv, CountsNeverExceedAnswers, FirstAnswers, is_warmup, Types, BenchTypeOK, SetUp

\* A request is counted once for each answer, and a latency only just before it.
LEMMA CountNext == Types /\ RoundsInv /\ CountInv /\ [Next]_vars => CountInv'
<1> SUFFICES ASSUME Types, RoundsInv, CountInv, [Next]_vars PROVE CountInv'
  OBVIOUS
<1> DEFINE Same == UNCHANGED <<phase, total_requests, latency_samples, answers, config>>
<1>a. CASE WorkerStep
  <2>0. UNCHANGED config
    BY <1>a DEF WorkerStep, frozen
  <2> USE DEF Goes, SetUpOnly, history, benchVars, SetUp
  <2>1. CASE Begin \/ Connect \/ SetNodelay \/ SetNodelayFails \/ FirstWrite \/ FirstReadFill
    <3>1. Same
      BY <2>0, <2>1 DEF Begin, Connect, SetNodelay, SetNodelayFails, FirstWrite,
                        FirstReadFill, CountConnection
    <3>2. /\ pc \in SetUp \ {"first_request"} /\ pc \notin {"latency", "request"}
          /\ pc' \in (SetUp \ {"first_request"}) \cup {"idle", "loop", "aborted"}
      BY <2>1 DEF Begin, Connect, SetNodelay, SetNodelayFails, FirstWrite, FirstReadFill,
                  FirstStop, Loop
    <3> QED
      BY <3>1, <3>2, NothingCounted
  <2>2. CASE ConnectFails \/ FirstWriteFails \/ FirstReadFails
    BY <2>0, <2>2, NothingCounted
    DEF ConnectFails, FirstWriteFails, FirstReadFails, GiveUp, CountError
  <2>3. CASE LifetimeEnds \/ ShutdownEnds
    BY <2>0, <2>3, NothingCounted DEF LifetimeEnds, ShutdownEnds, Close, CountSuccess, Waiting
  <2>4. CASE StartRound \/ Write \/ ReadFill
    BY <2>0, <2>4, NothingCounted DEF StartRound, Write, ReadFill
  <2>5. CASE WriteShort \/ WriteFails \/ ReadEnds
    BY <2>0, <2>5, NothingCounted DEF WriteShort, WriteFails, ReadEnds, Abandon, CountError
  <2>6. CASE Pace
    BY <2>0, <2>6, NothingCounted DEF Pace, Kept
  <2> USE DEF Types, BenchTypeOK, RoundsInv, CountInv, CountsNeverExceedAnswers, FirstAnswers,
              is_warmup
  <2>7. CASE FirstReadCompletes
    <3>1. pc = "first_read" /\ pc' = "first_request" /\ config.first_message # {}
      BY <2>7 DEF FirstReadCompletes
    <3>2. UNCHANGED <<phase, answers, total_requests>>
      BY <2>7 DEF FirstReadCompletes, CountLatency
    <3>3. \/ is_warmup /\ latency_samples' = 0
          \/ ~is_warmup /\ latency_samples' \in {0, 1}
      BY <2>7, <3>1 DEF FirstReadCompletes, CountLatency, record_latency
    <3> QED
      BY <2>0, <3>1, <3>2, <3>3
  <2>7a. CASE FirstRequest
    <3>1. pc = "first_request" /\ pc' \in {"idle", "loop"}
      BY <2>7a DEF FirstRequest, Loop
    <3>2. UNCHANGED <<phase, answers, latency_samples>>
      BY <2>7a DEF FirstRequest, CountRequest
    <3>3. \/ is_warmup /\ total_requests' = 0
          \/ ~is_warmup /\ total_requests' = 1
      BY <2>7a, <3>1 DEF FirstRequest, CountRequest, record_request
    <3> QED
      BY <2>0, <3>1, <3>2, <3>3
  <2>8. CASE ReadCompletes
    BY <2>0, <2>8 DEF ReadCompletes
  <2>9. CASE RecordLatency
    <3>1. latency_samples' \in {latency_samples, latency_samples + 1}
      BY <2>9 DEF RecordLatency, CountLatency, record_latency
    <3>2. is_warmup => latency_samples' = latency_samples
      BY <2>9 DEF RecordLatency, CountLatency, record_latency
    <3>3. pc = "latency" /\ pc' = "request" /\ UNCHANGED <<phase, total_requests, answers>>
      BY <2>9 DEF RecordLatency, CountLatency, Kept
    <3> QED
      BY <2>0, <3>1, <3>2, <3>3
  <2>10. CASE RecordRequest
    BY <2>0, <2>10 DEF RecordRequest, CountRequest, record_request, Kept
  <2> QED
    BY <1>a, <2>1, <2>2, <2>3, <2>4, <2>5, <2>6, <2>7, <2>7a, <2>8, <2>9, <2>10
       DEF WorkerStep
<1> USE DEF Types, BenchTypeOK, CountInv, CountsNeverExceedAnswers, FirstAnswers, is_warmup,
            SetUp, frozen, history, benchVars
<1>b. CASE Environment
  BY <1>b DEF Environment, Expire, ServerEcho, ServerReads, ServerChats, ServerQuits,
              ServerRefuses, ServerOnly
<1>c. CASE MainStep /\ MainUnchanged
  <2>1. UNCHANGED <<config, pc, answers>>
    BY <1>c DEF MainUnchanged
  <2>2. CASE end_warmup
    BY <2>1, <2>2 DEF end_warmup
  <2>3. CASE set_shutting_down \/ NotifyShutdown
    BY <2>1, <2>3 DEF set_shutting_down, NotifyShutdown
  <2> QED
    BY <1>c, <2>2, <2>3 DEF MainStep
<1>d. CASE UNCHANGED vars
  BY <1>d DEF vars
<1> QED
  BY <1>a, <1>b, <1>c, <1>d DEF Next

-----------------------------------------------------------------------------
(***************************************************************************)
(* Bytes.                                                                  *)
(***************************************************************************)

\* What the arithmetic of bytes needs to know of the types.
Numbers ==
  /\ c2s \in Nat /\ s2c \in Nat /\ got \in Nat /\ written \in Nat /\ consumed \in Nat
  /\ send_time \in Nat /\ Len_ \in Nat /\ Window \in Nat
  /\ config.first_message \subseteq Nat
  /\ \A m, n \in config.first_message : m = n

\* A well-typed state has these facts; there is at most one first message.
LEMMA TypeFacts == Types => Numbers
<1> SUFFICES ASSUME Types PROVE Numbers
  OBVIOUS
<1>1. config \in Configs
  BY DEF Types
<1>2. config \in ConfigType /\ \A m, n \in config.first_message : m = n
  BY <1>1, ConfigsAssumption
<1>3. Len_ \in Nat /\ config.first_message \subseteq Nat
  BY <1>2 DEF ConfigType, Len_
<1> QED
  BY <1>2, <1>3, WindowAssumption DEF Types, Numbers

\* read_exact moves bytes from the wire to its buffer, and never too many.
LEMMA FillFacts ==
  ASSUME Numbers, NEW len \in Nat, Fill(len)
  PROVE  s2c' + got' = s2c + got /\ s2c' \in Nat /\ got' \in Nat /\ got' <= len
BY DEF Numbers, Fill, Least

\* Once the first answer is complete nothing is left of it on the wire.
LEMMA OwnSetUp ==
  ASSUME Types, OwnInv,
         Begin \/ Connect \/ SetNodelay \/ SetNodelayFails \/ FirstWrite
           \/ FirstReadFill \/ FirstReadCompletes \/ FirstRequest \/ ConnectFails
           \/ FirstWriteFails \/ FirstReadFails,
         UNCHANGED <<frozen, expired, chatter>>
  PROVE  OwnInv'
<1>0. Numbers
  BY TypeFacts
<1> USE <1>0 DEF Numbers, OwnInv, Quiet, EchoServer, SetUp, Goes, SetUpOnly, history, frozen,
                 wire, Len_
<1>1. CASE Begin \/ Connect \/ SetNodelay
  BY <1>1 DEF Begin, Connect, SetNodelay, Loop, FirstStop
<1>2. CASE SetNodelayFails
  BY <1>2 DEF SetNodelayFails, DropStream
<1>3. CASE FirstWrite
  BY <1>3 DEF FirstWrite
<1>4. CASE FirstReadFill
  <2>1. PICK len \in config.first_message : Fill(len)
    BY <1>4 DEF FirstReadFill
  <2>2. s2c' + got' = s2c + got /\ s2c' \in Nat /\ got' \in Nat
    BY <2>1, FillFacts
  <2>3. c2s' + (s2c' + got') = c2s + (s2c + got)
    BY <1>4, <2>2 DEF FirstReadFill
  <2> QED
    BY <1>4, <2>3 DEF FirstReadFill
<1>5. CASE FirstReadCompletes \/ FirstRequest
  BY <1>5 DEF FirstReadCompletes, FirstRequest, Loop
<1>6. CASE ConnectFails \/ FirstWriteFails \/ FirstReadFails
  BY <1>6 DEF ConnectFails, FirstWriteFails, FirstReadFails, GiveUp, DropStream
<1> QED
  BY <1>1, <1>2, <1>3, <1>4, <1>5, <1>6

\* A message moves from the worker to the server and back as a whole number of bytes.
LEMMA OwnNext == Types /\ OwnInv /\ [Next]_vars => OwnInv'
<1> SUFFICES ASSUME Types, OwnInv, [Next]_vars PROVE OwnInv'
  OBVIOUS
<1>0. Numbers
  BY TypeFacts
<1> USE <1>0 DEF Numbers, OwnInv, Quiet, EchoServer, SetUp, Goes, history, frozen, wire, Len_
<1>a. CASE WorkerStep
  <2>0. UNCHANGED <<frozen, expired, chatter>>
    BY <1>a DEF WorkerStep
  <2>1. CASE Begin \/ Connect \/ SetNodelay \/ SetNodelayFails \/ FirstWrite
               \/ FirstReadFill \/ FirstReadCompletes \/ FirstRequest \/ ConnectFails
               \/ FirstWriteFails \/ FirstReadFails
    BY <2>0, <2>1, OwnSetUp
  <2>2. CASE LifetimeEnds \/ ShutdownEnds
    BY <2>0, <2>2 DEF LifetimeEnds, ShutdownEnds, Close, DropStream
  <2>3. CASE StartRound
    BY <2>0, <2>3 DEF StartRound
  <2>4. CASE Write
    BY <2>0, <2>4 DEF Write
  <2>5. CASE WriteShort \/ WriteFails \/ ReadEnds
    BY <2>0, <2>5 DEF WriteShort, WriteFails, ReadEnds, Abandon
  <2>6. CASE ReadFill
    <3>1. s2c' + got' = s2c + got /\ s2c' \in Nat /\ got' \in Nat
      BY <2>6, FillFacts DEF ReadFill
    <3>2. c2s' + (s2c' + got') = c2s + (s2c + got)
      BY <2>6, <3>1 DEF ReadFill
    <3> QED
      BY <2>0, <2>6, <3>2 DEF ReadFill
  <2>7. CASE ReadCompletes
    BY <2>0, <2>7 DEF ReadCompletes
  <2>8. CASE RecordLatency \/ RecordRequest \/ Pace
    BY <2>0, <2>8 DEF RecordLatency, RecordRequest, Pace, Kept
  <2> QED
    BY <1>a, <2>1, <2>2, <2>3, <2>4, <2>5, <2>6, <2>7, <2>8 DEF WorkerStep
<1>b. CASE Environment
  <2> USE DEF ServerOnly
  <2>1. CASE Expire
    BY <2>1 DEF Expire
  <2>2. CASE ServerEcho
    <3>1. PICK n \in 1 .. Least(c2s, Window - s2c) : c2s' = c2s - n /\ s2c' = s2c + n
      BY <2>2 DEF ServerEcho
    <3>2. n <= c2s /\ n \in Nat /\ n > 0
      BY <3>1 DEF Least
    <3>3. c2s' + (s2c' + got') = c2s + (s2c + got)
      BY <2>2, <3>1, <3>2 DEF ServerEcho
    <3>4. c2s # 0 /\ UNCHANGED <<pc, frozen, clean, eof, rst, written, consumed, send_time>>
      BY <2>2, <3>2 DEF ServerEcho
    <3> QED
      BY <3>3, <3>4
  <2>3. CASE ServerReads
    BY <2>3 DEF ServerReads
  <2>4. CASE ServerChats
    BY <2>4 DEF ServerChats
  <2>5. CASE ServerQuits
    BY <2>5 DEF ServerQuits
  <2>6. CASE ServerRefuses
    BY <2>6 DEF ServerRefuses
  <2> QED
    BY <1>b, <2>1, <2>2, <2>3, <2>4, <2>5, <2>6 DEF Environment
<1>c. CASE MainStep /\ MainUnchanged
  BY <1>c DEF MainUnchanged
<1>d. CASE UNCHANGED vars
  BY <1>d DEF vars
<1> QED
  BY <1>a, <1>b, <1>c, <1>d DEF Next

-----------------------------------------------------------------------------
(***************************************************************************)
(* Buffers.                                                                *)
(***************************************************************************)

\* read_exact is given what is missing of the buffer, and every buffer starts empty.
LEMMA BufferNext == Types /\ BufferInv /\ [Next]_vars => BufferInv'
<1> SUFFICES ASSUME Types, BufferInv, [Next]_vars PROVE BufferInv'
  OBVIOUS
<1>0. Numbers
  BY TypeFacts
<1> USE DEF BufferInv, ReadWithinBuffer, SetUp, MainLoop, Goes, Len_
<1>1. ASSUME UNCHANGED <<got, config>>,
             pc' = pc \/ pc' \in EndStates
               \/ (pc \in SetUp \ {"first_read"} /\ pc' \in SetUp \cup MainLoop)
               \/ (pc \in MainLoop /\ pc' \in MainLoop)
      PROVE  BufferInv'
  BY <1>0, <1>1 DEF Numbers, EndStates
<1>2. ASSUME got' = 0, UNCHANGED config PROVE BufferInv'
  BY <1>0, <1>2 DEF Numbers
<1>a. CASE WorkerStep
  <2>0. UNCHANGED config
    BY <1>a DEF WorkerStep, frozen
  <2>1. CASE Begin \/ Connect \/ SetNodelay \/ SetNodelayFails \/ FirstWrite \/ FirstRequest
    BY <1>1, <2>0, <2>1 DEF Begin, Connect, SetNodelay, SetNodelayFails, FirstWrite,
       FirstRequest, FirstStop, Loop, EndStates
  <2>2. CASE ConnectFails \/ FirstWriteFails \/ FirstReadFails
    BY <1>1, <2>0, <2>2 DEF ConnectFails, FirstWriteFails, FirstReadFails, GiveUp, EndStates
  <2>3. CASE FirstReadFill
    <3>1. PICK len \in config.first_message : Fill(len)
      BY <2>3 DEF FirstReadFill
    <3>2. len \in Nat /\ \A m \in config.first_message : m = len
      BY <1>0, <3>1 DEF Numbers
    <3>3. got' <= len
      BY <1>0, <3>1, <3>2, FillFacts
    <3> QED
      BY <2>0, <2>3, <3>2, <3>3 DEF FirstReadFill
  <2>4. CASE ReadFill
    <3>1. got' <= Len_ /\ pc = "read" /\ pc' = "read"
      BY <1>0, <2>4, FillFacts DEF ReadFill, Numbers
    <3> QED
      BY <2>0, <3>1
  <2>5. CASE FirstReadCompletes \/ ReadCompletes \/ ReadEnds
    BY <1>2, <2>0, <2>5 DEF FirstReadCompletes, ReadCompletes, ReadEnds
  <2>6. CASE LifetimeEnds \/ ShutdownEnds
    BY <1>1, <2>0, <2>6 DEF LifetimeEnds, ShutdownEnds, Close, EndStates
  <2>7. CASE StartRound \/ Write \/ WriteShort \/ WriteFails
    BY <1>1, <2>0, <2>7 DEF StartRound, Write, WriteShort, WriteFails, Abandon
  <2>8. CASE RecordLatency \/ RecordRequest \/ Pace
    BY <1>1, <2>0, <2>8 DEF RecordLatency, RecordRequest, Pace, Kept
  <2> QED
    BY <1>a, <2>1, <2>2, <2>3, <2>4, <2>5, <2>6, <2>7, <2>8 DEF WorkerStep
<1>b. CASE Environment
  BY <1>1, <1>b DEF Environment, Expire, ServerEcho, ServerReads, ServerChats, ServerQuits,
     ServerRefuses, ServerOnly, frozen
<1>c. CASE MainStep /\ MainUnchanged
  BY <1>1, <1>c DEF MainUnchanged, frozen
<1>d. CASE UNCHANGED vars
  BY <1>1, <1>d DEF vars, frozen
<1> QED
  BY <1>a, <1>b, <1>c, <1>d DEF Next

-----------------------------------------------------------------------------
(***************************************************************************)
(* The theorems.                                                           *)
(***************************************************************************)
LEMMA InductiveInit == Init => IInv
<1> SUFFICES ASSUME Init PROVE IInv
  OBVIOUS
<1>1. Types
  BY TypeInit
<1>2. RoundsInv
  BY DEF Init, BenchInit, RoundsInv, RoundsAccountedFor, SetUp
<1>3. CountInv
  BY DEF Init, BenchInit, CountInv, CountsNeverExceedAnswers, FirstAnswers, SetUp
<1>4. OwnInv
  BY DEF Init, OwnInv, Quiet, SetUp
<1>5. BufferInv
  BY DEF Init, BufferInv, ReadWithinBuffer, SetUp, MainLoop
<1> QED
  BY <1>1, <1>2, <1>3, <1>4, <1>5 DEF IInv

\* Every behaviour of the ping-pong worker satisfies the inductive invariant.
THEOREM Inductive == Spec => []IInv
<1>1. IInv /\ [Next]_vars => IInv'
  BY TypeNext, BufferNext, RoundsNext, CountNext, OwnNext DEF IInv
<1> QED
  BY InductiveInit, <1>1, PTL DEF Spec

\* Every variable keeps its type, and no read goes past the end of the buffer it was
\* given, in the first exchange or later.
THEOREM TypeCorrect == Spec => []TypeOK
<1>1. IInv => TypeOK
  BY DEF IInv, BufferInv, TypeOK
<1> QED
  BY Inductive, <1>1, PTL

\* Wherever short writes, errors and the shutdown break a round off, it is accounted
\* for exactly once: by its answer, by a recorded error, or as the one under way.
THEOREM RoundsCorrect == Spec => []RoundsAccountedFor
<1>1. IInv => RoundsAccountedFor
  BY DEF IInv, RoundsInv
<1> QED
  BY Inductive, <1>1, PTL

\* Whatever the server sends, no more requests are counted than were answered, and no
\* latency is sampled of an answer that is not counted in the next step.
THEOREM CountsCorrect == Spec => []CountsNeverExceedAnswers
<1>1. IInv => CountsNeverExceedAnswers
  BY DEF IInv, CountInv
<1> QED
  BY Inductive, <1>1, PTL

\* While no round is broken off and the server behaves, a round reads the whole answer
\* to its own message and leaves nothing behind.
THEOREM OwnAnswerCorrect == Spec => []AnswerIsOwn
<1>1. IInv => AnswerIsOwn
  BY DEF IInv, OwnInv, Quiet, AnswerIsOwn
<1> QED
  BY Inductive, <1>1, PTL

-----------------------------------------------------------------------------
(***************************************************************************)
(* The refinement of Connection.                                           *)
(***************************************************************************)

\* What Connection knows of the counters.
Counters == <<total_connections, success_connections, connection_errors, total_requests>>

\* A step that stays on one side of the beginning and the end, and touches no counter
\* but the histogram, is none of Connection's business.
LEMMA Stutter ==
  ASSUME UNCHANGED Counters, ConnOf' = ConnOf
  PROVE  UNCHANGED Conn!connVars
BY DEF Counters, Conn!connVars

\* The state of the one connection after a step that changes it.
LEMMA ConnMoves ==
  ASSUME NEW from, NEW to, ConnOf = from, ConnOf' = to
  PROVE  LET conn == [c \in {"c"} |-> ConnOf]
         IN  conn["c"] = from /\ [c \in {"c"} |-> ConnOf]' = [conn EXCEPT !["c"] = to]
OBVIOUS

\* Every step of the worker and of the benchmark is one of Connection, or none.
LEMMA Refines == Types /\ [Next]_vars => [Conn!Next]_Conn!connVars
<1> SUFFICES ASSUME Types, [Next]_vars PROVE Conn!Next \/ UNCHANGED Conn!connVars
  OBVIOUS
<1> USE DEF Goes, SetUpOnly, history, benchVars, Counters, ConnOf, WorkerEnded, EndStates
<1>a. CASE WorkerStep
  <2>1. CASE Begin
    <3>1. ConnOf = "waiting" /\ ConnOf' = "open"
      BY <2>1 DEF Begin
    <3>2. Conn!Begin("c")
      BY <2>1, <3>1, ConnMoves DEF Begin, CountConnection, Conn!Begin
    <3> QED
      BY <3>2 DEF Conn!Next, Conn!ConnStep
  <2>2. CASE ConnectFails \/ FirstWriteFails \/ FirstReadFails
    <3>1. ConnOf = "open" /\ ConnOf' = "failed"
      BY <2>2 DEF ConnectFails, FirstWriteFails, FirstReadFails, GiveUp
    <3>2. Conn!GiveUp("c")
      BY <2>2, <3>1, ConnMoves DEF ConnectFails, FirstWriteFails, FirstReadFails, GiveUp,
         CountError, record_connection_error, Conn!GiveUp
    <3> QED
      BY <3>2 DEF Conn!Next, Conn!ConnStep
  <2>3. CASE SetNodelayFails
    <3>1. ConnOf = "open" /\ ConnOf' = "aborted"
      BY <2>3 DEF SetNodelayFails
    <3>2. Conn!Abort("c")
      BY <2>3, <3>1, ConnMoves DEF SetNodelayFails, Conn!Abort
    <3> QED
      BY <3>2 DEF Conn!Next, Conn!ConnStep
  <2>4. CASE LifetimeEnds \/ ShutdownEnds
    <3>1. ConnOf = "open" /\ ConnOf' = "closed"
      BY <2>4 DEF LifetimeEnds, ShutdownEnds, Close, Waiting
    <3>2. Conn!Finish("c")
      BY <2>4, <3>1, ConnMoves DEF LifetimeEnds, ShutdownEnds, Close, CountSuccess, Conn!Finish
    <3> QED
      BY <3>2 DEF Conn!Next, Conn!ConnStep
  <2>5. CASE WriteShort \/ WriteFails \/ ReadEnds
    <3>1. ConnOf = "open" /\ ConnOf' = "open"
      BY <2>5 DEF WriteShort, WriteFails, ReadEnds, Abandon
    <3>2. Conn!Fault("c")
      BY <2>5, <3>1 DEF WriteShort, WriteFails, ReadEnds, Abandon, CountError,
         record_connection_error, Conn!Fault
    <3> QED
      BY <3>2 DEF Conn!Next, Conn!ConnStep
  <2>6. CASE FirstRequest \/ RecordRequest
    <3>1. ConnOf = "open" /\ ConnOf' = "open"
      BY <2>6 DEF FirstRequest, RecordRequest, Loop
    <3>2. CASE total_requests' = total_requests
      BY <2>6, <3>1, <3>2, Stutter DEF FirstRequest, RecordRequest, CountRequest
    <3>3. CASE total_requests' = total_requests + 1
      <4>1. Conn!Answer("c")
        BY <2>6, <3>1, <3>3 DEF FirstRequest, RecordRequest, CountRequest, Conn!Answer
      <4> QED
        BY <4>1 DEF Conn!Next, Conn!ConnStep
    <3> QED
      BY <2>6, <3>2, <3>3 DEF FirstRequest, RecordRequest, CountRequest, record_request
  <2>7. CASE Connect \/ SetNodelay \/ FirstWrite \/ FirstReadFill
    BY <2>7, Stutter DEF Connect, SetNodelay, FirstWrite, FirstReadFill, FirstStop, Loop
  <2>8. CASE StartRound \/ Write \/ ReadFill \/ ReadCompletes
    BY <2>8, Stutter DEF StartRound, Write, ReadFill, ReadCompletes
  <2>9. CASE RecordLatency \/ Pace \/ FirstReadCompletes
    BY <2>9, Stutter DEF RecordLatency, CountLatency, Pace, FirstReadCompletes
  <2> QED
    BY <1>a, <2>1, <2>2, <2>3, <2>4, <2>5, <2>6, <2>7, <2>8, <2>9 DEF WorkerStep
<1>b. CASE Environment
  BY <1>b, Stutter DEF Environment, Expire, ServerEcho, ServerReads, ServerChats, ServerQuits,
     ServerRefuses, ServerOnly
<1>c. CASE MainStep /\ MainUnchanged
  <2>1. ConnOf' = ConnOf
    BY <1>c DEF MainUnchanged
  <2>2. CASE end_warmup
    BY <2>1, <2>2 DEF end_warmup, Conn!Next, Conn!ResetRequests
  <2>3. CASE set_shutting_down \/ NotifyShutdown
    BY <2>1, <2>3, Stutter DEF set_shutting_down, NotifyShutdown
  <2> QED
    BY <1>c, <2>2, <2>3 DEF MainStep
<1>d. CASE UNCHANGED vars
  BY <1>d, Stutter DEF vars
<1> QED
  BY <1>a, <1>b, <1>c, <1>d DEF Next

\* The worker is a connection task as the runner knows it: whatever happens on the
\* wire, it begins once, ends in one of three ways, and touches no counter after that.
THEOREM ImplementsConnection == Spec => ConnectionSpec
<1>1. Init => Conn!Init
  BY DEF Init, BenchInit, Conn!Init, ConnOf, WorkerEnded, EndStates
<1>2. ConnectionSpec <=> Conn!Init /\ [][Conn!Next]_Conn!connVars
  BY DEF ConnectionSpec, Conn!Spec
<1> QED
  BY <1>1, <1>2, Refines, Inductive, PTL DEF Spec, IInv
=============================================================================
