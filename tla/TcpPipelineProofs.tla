-------------------------- MODULE TcpPipelineProofs --------------------------
(***************************************************************************)
(* Proofs about TcpPipeline, for every message length, window, server and  *)
(* number of rounds: the types, and the four safety properties.            *)
(*                                                                         *)
(* The heart is a count of bytes: consumed + c2s + s2c + got never exceeds *)
(* written (FlowInv), neighbouring times in the queue are at most a message*)
(* apart (QueueInv), and the oldest one is not after the bytes consumed so *)
(* far; so the head of the queue is never a later message's time.  While   *)
(* nothing goes wrong the inequalities are equalities (CleanInv,           *)
(* CleanQueueInv), and then the pairing is exact and nothing is left over  *)
(* at the end.  FirstInv is what carries the count over the first exchange,*)
(* ControlInv says which states the two tasks can be in together, BufferInv*)
(* that no read leaves its buffer, and RequestInv and AnswersInv what the  *)
(* counted requests are covered by: rounds begun, and bytes read.          *)
(***************************************************************************)
EXTENDS TcpPipeline, SequenceTheorems, TLAPS

-----------------------------------------------------------------------------
(***************************************************************************)
(* The invariants that carry the proofs.                                   *)
(***************************************************************************)

\* What the arithmetic needs to know of the types.
Numbers ==
  /\ total_requests \in Nat /\ pushed \in Nat /\ written \in Nat /\ consumed \in Nat
  /\ got \in Nat /\ c2s \in Nat /\ s2c \in Nat /\ sent_time \in Nat
  /\ Len_ \in Nat /\ Len(sent_times) \in Nat

QueueShape ==
  /\ sent_times = <<>> <=> Len(sent_times) = 0
  /\ \A i \in 1 .. Len(sent_times) : sent_times[i] \in Nat

FirstShape ==
  /\ config.first_message \subseteq Nat
  /\ \A m, n \in config.first_message : m = n

\* The reader exists exactly while the worker is past its set-up, and the stream
\* is dropped only by a worker that has left its main loop.
SetUp == {"start", "connect", "nodelay", "first_write", "first_read",
          "first_request", "spawn"}

ControlInv ==
  /\ rpc = "off" <=> wpc \in SetUp \cup {"failed", "aborted"}
  /\ wpc = "closed" => rpc = "done"
  /\ fin => wpc \in {"join", "closed", "failed", "aborted"}
  /\ rpc = "off" => pushed = 0 /\ written = 0 /\ consumed = 0 /\ sent_times = <<>>
  /\ wpc \in {"loop", "write", "pace"} => Len_ > 0

\* Requests are paid for by rounds of the send loop: one for every time that has
\* left the queue, and one for the first message once it is answered.
RequestInv ==
  /\ wpc \in SetUp \ {"spawn"} => total_requests = 0
  /\ wpc = "first_request" => FirstRequests = 1
  /\ total_requests + Len(sent_times) <= pushed + FirstRequests
  /\ rpc = "request" => total_requests + Len(sent_times) + 1 <= pushed + FirstRequests

\* A buffer is empty before it is read into, and full at most.
BufferInv ==
  /\ wpc \in SetUp \ {"first_read"} => got = 0
  /\ ReadWithinBuffer

\* The bytes of n messages.
Bytes(n, len) == n * len

\* A request is counted for an answer that has been read to its end: the one the
\* reader is at has been read and is not counted yet.
Uncounted == IF rpc \in {"steal", "request"} THEN Len_ ELSE 0

AnswersInv ==
  rpc # "off" =>
    Bytes(total_requests, Len_) + Uncounted <= consumed + Bytes(FirstRequests, Len_)

\* The times in the queue are at most one message apart, the newest at most one
\* message behind what is written.
Newest == sent_times[Len(sent_times)]

QueueInv ==
  /\ \A i \in 1 .. Len(sent_times) : sent_times[i] <= written
  /\ \A i \in 1 .. Len(sent_times) - 1 : sent_times[i + 1] <= sent_times[i] + Len_
  /\ sent_times # <<>> => written <= Newest + Len_
  /\ sent_times # <<>> /\ wpc = "write" => written = Newest

\* The server has said nothing but what it was sent.
Faithful == server.echo /\ (clean \/ ~server.chatty)

\* The first exchange leaves no byte behind for the main loop.
FirstInv ==
  Faithful =>
    /\ wpc \in SetUp \ {"first_read"} => c2s = 0 /\ s2c = 0 /\ got = 0
    /\ wpc = "first_read" =>
         \A len \in config.first_message : c2s + (s2c + got) <= len

\* How much of what the answers have brought the oldest queued time accounts for.
Owed == IF rpc = "steal" THEN Len_ ELSE 0

\* No byte is read that was not written, and the oldest queued time is not after
\* the message the next answer belongs to.
FlowInv ==
  Faithful /\ rpc # "off" =>
    /\ consumed + (c2s + (s2c + got)) <= written
    /\ sent_times # <<>> => sent_times[1] + Owed <= consumed
    /\ sent_times = <<>> => written + Owed <= consumed /\ wpc # "write"
    /\ rpc \in {"request", "latency"} => sent_time + Len_ <= consumed

\* While nothing goes wrong the same holds with equality, and the stream ends
\* only after the client's own close and with everything answered.
CleanInv ==
  clean /\ server.echo =>
    /\ ~rst
    /\ eof => fin /\ c2s = 0
    /\ rpc = "done" => fin /\ consumed = written
    /\ rpc # "off" =>
         /\ consumed + (c2s + (s2c + got)) = written
         /\ sent_times # <<>> => sent_times[1] + Owed = consumed
         /\ sent_times = <<>> => written + Owed = consumed
         /\ rpc \in {"request", "latency"} => sent_time + Len_ = consumed

\* The step from one queued time to the next, while nothing goes wrong.
CleanQueueInv ==
  clean =>
    /\ \A i \in 1 .. Len(sent_times) - 1 : sent_times[i + 1] = sent_times[i] + Len_
    /\ sent_times # <<>> => written \in {Newest, Newest + Len_}
    /\ sent_times # <<>> /\ wpc \in {"loop", "pace"} => written = Newest + Len_

\* The initial state has the right types.
LEMMA TypeInit == Init => Types
<1> SUFFICES ASSUME Init PROVE Types
  OBVIOUS
<1> USE DEF Init, BenchInit
<1>1. BenchTypeOK
  BY DEF BenchTypeOK, Phases
<1>2. counter \in 0 .. SampleEvery - 1
  BY SampleEveryAssumption
<1>3. wpc \in WriterStates /\ rpc \in ReaderStates
  BY DEF WriterStates, ReaderStates
<1>4. sent_times \in Seq(Nat)
  OBVIOUS
<1>5. expired \in BOOLEAN /\ clean \in BOOLEAN
  OBVIOUS
<1>6. fin \in BOOLEAN /\ eof \in BOOLEAN /\ rst \in BOOLEAN
  OBVIOUS
<1> QED
  BY <1>1, <1>2, <1>3, <1>4, <1>5, <1>6 DEF Types

\* Every step keeps the types; the only one that needs care is the reader's
\* counter, which is taken modulo SampleEvery.
LEMMA TypeNext == Types /\ [Next]_vars => Types'
<1> SUFFICES ASSUME Types, [Next]_vars PROVE Types'
  OBVIOUS
<1> USE SampleEveryAssumption, WindowAssumption, ConfigsAssumption, ServersAssumption
<1> USE DEF Types, BenchTypeOK, Phases, WriterStates, ReaderStates, benchVars, frozen,
            wire, readerVars, writerVars, ServerUnchanged, ConfigType
<1>1. CASE Begin
  BY <1>1 DEF Begin
<1>2. CASE Connect
  BY <1>2 DEF Connect, FirstStop
<1>3. CASE ConnectFails
  BY <1>3 DEF ConnectFails, GiveUp, DropStream, record_connection_error
<1>4. CASE SetNodelay
  BY <1>4 DEF SetNodelay, FirstStop
<1>5. CASE SetNodelayFails
  BY <1>5 DEF SetNodelayFails, DropStream
<1>6. CASE FirstWrite
  <2> USE <1>6 DEF FirstWrite
  <2> DEFINE Whole == /\ wpc' = "first_read"
                      /\ \E len \in config.first_message : c2s' = c2s + len
                      /\ UNCHANGED <<connection_errors, s2c, fin, eof, rst, clean>>
  <2>1. Whole \/ (GiveUp /\ UNCHANGED clean)
    OBVIOUS
  <2>2. config.first_message \subseteq Nat
    OBVIOUS
  <2>3. CASE Whole
    BY <2>2, <2>3
  <2>4. CASE GiveUp /\ UNCHANGED clean
    BY <2>4 DEF GiveUp, DropStream, record_connection_error
  <2> QED
    BY <2>1, <2>3, <2>4
<1>7. CASE FirstWriteFails
  BY <1>7 DEF FirstWriteFails, GiveUp, DropStream, record_connection_error
<1>8. CASE FirstReadFill
  BY <1>8 DEF FirstReadFill, Fill, Least
<1>9. CASE FirstReadCompletes
  BY <1>9 DEF FirstReadCompletes, record_latency, is_warmup
<1>9a. CASE FirstRequest
  BY <1>9a DEF FirstRequest, record_request, is_warmup
<1>10. CASE FirstReadFails
  BY <1>10 DEF FirstReadFails, GiveUp, DropStream, record_connection_error, ReadFails
<1>11. CASE Spawn
  BY <1>11 DEF Spawn
<1>12. CASE LifetimeEnds
  BY <1>12 DEF LifetimeEnds, DropWriter
<1>13. CASE ShutdownEnds
  BY <1>13 DEF ShutdownEnds, DropWriter
<1>14. CASE PushSentTime
  BY <1>14 DEF PushSentTime
<1>15. CASE Write
  <2> USE <1>15 DEF Write
  <2>1. PICK n \in Accepted(Len_) :
          /\ c2s' = c2s + n
          /\ written' = written + n
          /\ IF n = Len_
             THEN wpc' = "pace" /\ UNCHANGED <<connection_errors, clean>>
             ELSE record_connection_error /\ wpc' = "loop" /\ clean' = FALSE
    OBVIOUS
  <2>2. n \in Nat
    BY DEF Accepted, Least, Len_
  <2>3. BenchTypeOK' /\ wpc' \in WriterStates
    BY <2>1 DEF record_connection_error
  <2>4. clean' \in BOOLEAN
    BY <2>1
  <2> QED
    BY <2>1, <2>2, <2>3, <2>4
<1>16. CASE WriteFails
  <2> USE <1>16 DEF WriteFails, record_connection_error
  <2>1. BenchTypeOK'
    BY DEF BenchTypeOK
  <2>2. clean' \in BOOLEAN
    OBVIOUS
  <2>3. fin' \in BOOLEAN /\ eof' \in BOOLEAN /\ rst' \in BOOLEAN
    OBVIOUS
  <2>4. c2s' \in Nat /\ s2c' \in Nat
    OBVIOUS
  <2> QED
    BY <2>1, <2>2, <2>3, <2>4
<1>17. CASE Pace
  BY <1>17 DEF Pace
<1>18. CASE Join
  BY <1>18 DEF Join
<1>19. CASE ReadFill
  BY <1>19 DEF ReadFill, Fill, Least, Len_
<1>20. CASE ReadCompletes
  BY <1>20 DEF ReadCompletes, Len_
<1>21. CASE Steal
  BY <1>21 DEF Steal
<1>22. CASE StealMisses
  BY <1>22 DEF StealMisses
<1>23. CASE RecordRequest
  BY <1>23 DEF RecordRequest, record_request, is_warmup
<1>24. CASE RecordLatency
  BY <1>24 DEF RecordLatency, record_latency, is_warmup
<1>25. CASE ReadEnds
  BY <1>25 DEF ReadEnds, record_connection_error, ReadFails
<1>26. CASE CtrlC
  BY <1>26 DEF CtrlC
<1>27. CASE Expire
  BY <1>27 DEF Expire
<1>28. CASE ServerEcho
  BY <1>28 DEF ServerEcho, Least
<1>29. CASE ServerReads
  BY <1>29 DEF ServerReads
<1>30. CASE ServerChats
  <2> USE <1>30 DEF ServerChats
  <2>1. BenchTypeOK'
    BY DEF BenchTypeOK
  <2>2. clean' \in BOOLEAN
    OBVIOUS
  <2>3. fin' \in BOOLEAN /\ eof' \in BOOLEAN /\ rst' \in BOOLEAN
    OBVIOUS
  <2>4. c2s' \in Nat /\ s2c' \in Nat
    OBVIOUS
  <2> QED
    BY <2>1, <2>2, <2>3, <2>4
<1>31. CASE ServerCloses
  BY <1>31 DEF ServerCloses
<1>32. CASE ServerQuits
  <2> USE <1>32 DEF ServerQuits
  <2>1. BenchTypeOK'
    BY DEF BenchTypeOK
  <2>2. clean' \in BOOLEAN
    OBVIOUS
  <2>3. fin' \in BOOLEAN /\ eof' \in BOOLEAN /\ rst' \in BOOLEAN
    OBVIOUS
  <2>4. c2s' \in Nat /\ s2c' \in Nat
    OBVIOUS
  <2> QED
    BY <2>1, <2>2, <2>3, <2>4
<1>33. CASE ServerRefuses
  BY <1>33 DEF ServerRefuses
<1>34. CASE MainStep /\ MainUnchanged
  BY <1>34 DEF MainStep, MainUnchanged, end_warmup, set_shutting_down, NotifyShutdown
<1>35. CASE UNCHANGED vars
  BY <1>35 DEF vars
<1> QED
  BY <1>1, <1>2, <1>3, <1>4, <1>5, <1>6, <1>7, <1>8, <1>9, <1>9a, <1>10,
     <1>11, <1>12, <1>13, <1>14, <1>15, <1>16, <1>17, <1>18, <1>19,
     <1>20, <1>21, <1>22, <1>23, <1>24, <1>25, <1>26, <1>27, <1>28,
     <1>29, <1>30, <1>31, <1>32, <1>33, <1>34, <1>35
  DEF Next, WriterStep, ReaderStep, Environment

\* What the other lemmas use of the types.
LEMMA TypeFacts == Types => Numbers /\ QueueShape /\ FirstShape
<1> SUFFICES ASSUME Types PROVE Numbers /\ QueueShape /\ FirstShape
  OBVIOUS
<1>1. sent_times \in Seq(Nat)
  BY DEF Types
<1>2. Len(sent_times) \in Nat /\ \A i \in 1 .. Len(sent_times) : sent_times[i] \in Nat
  BY <1>1
<1>3. sent_times = <<>> <=> Len(sent_times) = 0
  BY <1>1, EmptySeq
<1>4. FirstShape /\ Len_ \in Nat
  BY ConfigsAssumption DEF Types, ConfigType, Len_, FirstShape
<1> QED
  BY <1>1, <1>2, <1>3, <1>4 DEF Types, BenchTypeOK, Numbers, QueueShape

-----------------------------------------------------------------------------
(***************************************************************************)
(* What the steps that move bytes or times do, in plain numbers.           *)
(***************************************************************************)

\* read_exact moves some of what has arrived into the buffer, and no more.
LEMMA FillFacts ==
  ASSUME Numbers, NEW len \in Nat, Fill(len)
  PROVE  \E n \in Nat : /\ n <= s2c /\ got + n <= len
                        /\ s2c' = s2c - n /\ got' = got + n
<1>1. s2c \in Nat /\ got \in Nat
  BY DEF Numbers
<1>2. CASE s2c <= len - got
  BY <1>1, <1>2 DEF Fill, Least
<1>3. CASE ~(s2c <= len - got)
  BY <1>1, <1>3 DEF Fill, Least
<1> QED
  BY <1>2, <1>3

\* The same, for the answer to the first message.
LEMMA FirstReadFillFacts ==
  ASSUME Numbers, FirstShape, FirstReadFill
  PROVE  /\ \E n \in Nat : n <= s2c /\ s2c' = s2c - n /\ got' = got + n
         /\ UNCHANGED <<config, server, wpc, rpc, sent_times, c2s, fin, eof, rst,
                        pushed, written, sent_time, consumed, total_requests, clean>>
<1>1. \E n \in Nat : n <= s2c /\ s2c' = s2c - n /\ got' = got + n
  BY FillFacts DEF FirstReadFill, FirstShape
<1>2. UNCHANGED <<config, server, wpc, rpc, sent_times, c2s, fin, eof, rst, pushed,
                  written, sent_time, consumed, total_requests, clean>>
  BY DEF FirstReadFill, benchVars, frozen, readerVars
<1> QED
  BY <1>1, <1>2

\* The same, in the reader.
LEMMA ReadFillFacts ==
  ASSUME Numbers, ReadFill
  PROVE  /\ \E n \in Nat : n <= s2c /\ s2c' = s2c - n /\ got' = got + n
         /\ rpc = "read"
         /\ UNCHANGED <<config, server, wpc, rpc, sent_times, c2s, fin, eof, rst,
                        pushed, written, sent_time, consumed, total_requests, clean>>
<1>1. \E n \in Nat : n <= s2c /\ s2c' = s2c - n /\ got' = got + n
  BY FillFacts DEF ReadFill, Numbers
<1>2. /\ rpc = "read"
      /\ UNCHANGED <<config, server, wpc, rpc, sent_times, c2s, fin, eof, rst, pushed,
                     written, sent_time, consumed, total_requests, clean>>
  BY DEF ReadFill, benchVars, frozen, readerVars, writerVars
<1> QED
  BY <1>1, <1>2

\* An echo moves bytes from one direction to the other.
LEMMA EchoFacts ==
  ASSUME Numbers, ServerEcho
  PROVE  /\ \E n \in Nat : n <= c2s /\ c2s' = c2s - n /\ s2c' = s2c + n
         /\ ~eof
         /\ UNCHANGED <<config, server, wpc, rpc, sent_times, got, fin, eof, rst,
                        pushed, written, sent_time, consumed, total_requests, clean>>
<1>1. PICK n \in 1 .. Least(c2s, Window - s2c) : c2s' = c2s - n /\ s2c' = s2c + n
  BY DEF ServerEcho
<1>2. n \in Nat /\ n <= c2s
  BY WindowAssumption DEF Least, Numbers
<1>3. /\ ~eof
      /\ UNCHANGED <<config, server, wpc, rpc, sent_times, got, fin, eof, rst, pushed,
                     written, sent_time, consumed, total_requests, clean>>
  BY DEF ServerEcho, ServerUp, ServerUnchanged, benchVars, frozen, readerVars
<1> QED
  BY <1>1, <1>2, <1>3

\* write() takes at most what it is given.
LEMMA AcceptedFacts ==
  ASSUME NEW len \in Nat, c2s \in Nat, NEW n \in Accepted(len)
  PROVE  n \in Nat /\ n <= len
BY WindowAssumption DEF Accepted, Least

\* The first write is complete, or the worker gives up.
LEMMA FirstWriteFacts ==
  ASSUME FirstWrite
  PROVE  /\ wpc = "first_write"
         /\ \/ wpc' = "failed" /\ fin'
            \/ /\ wpc' = "first_read" /\ fin' = fin
               /\ \E len \in config.first_message : c2s' = c2s + len
         /\ UNCHANGED <<config, server, rpc, sent_times, s2c, got, eof, rst, pushed,
                        written, sent_time, consumed, total_requests, clean>>
<1>1. /\ wpc = "first_write"
      /\ UNCHANGED <<config, server, rpc, sent_times, got, pushed, written, sent_time,
                     consumed, total_requests>>
  BY DEF FirstWrite, frozen, readerVars
<1>2. \/ GiveUp /\ UNCHANGED clean
      \/ /\ wpc' = "first_read"
         /\ UNCHANGED <<s2c, fin, eof, rst, clean>>
         /\ \E len \in config.first_message : c2s' = c2s + len
  BY DEF FirstWrite
<1> QED
  BY <1>1, <1>2 DEF GiveUp, DropStream

\* A write of the send loop that is not complete is an error.
LEMMA WriteFacts ==
  ASSUME Numbers, Write
  PROVE  /\ \E n \in Nat :
              /\ n <= Len_ /\ c2s' = c2s + n /\ written' = written + n
              /\ \/ n = Len_ /\ wpc' = "pace" /\ clean' = clean
                 \/ wpc' = "loop" /\ clean' = FALSE
         /\ wpc = "write" /\ ~rst
         /\ UNCHANGED <<config, server, rpc, sent_times, s2c, got, fin, eof, rst,
                        pushed, sent_time, consumed, total_requests>>
<1>1. PICK n \in Accepted(Len_) :
        /\ c2s' = c2s + n
        /\ written' = written + n
        /\ IF n = Len_
           THEN wpc' = "pace" /\ UNCHANGED <<connection_errors, clean>>
           ELSE record_connection_error /\ wpc' = "loop" /\ clean' = FALSE
  BY DEF Write
<1>2. n \in Nat /\ n <= Len_
  BY AcceptedFacts DEF Numbers
<1>3. /\ wpc = "write" /\ ~rst
      /\ UNCHANGED <<config, server, rpc, sent_times, s2c, got, fin, eof, rst, pushed,
                     sent_time, consumed, total_requests>>
  BY DEF Write, frozen, readerVars
<1> QED
  BY <1>1, <1>2, <1>3

\* The push adds what is written so far at the end of the queue.
LEMMA PushFacts ==
  ASSUME Types, PushSentTime
  PROVE  /\ wpc = "loop" /\ wpc' = "write"
         /\ sent_times' # <<>>
         /\ Len(sent_times') = Len(sent_times) + 1
         /\ \A i \in 1 .. Len(sent_times) : sent_times'[i] = sent_times[i]
         /\ sent_times'[Len(sent_times) + 1] = written
         /\ pushed' = pushed + 1
         /\ UNCHANGED <<config, server, rpc, c2s, s2c, got, fin, eof, rst, written,
                        sent_time, consumed, total_requests, clean>>
<1>1. sent_times \in Seq(Nat) /\ written \in Nat
  BY DEF Types
<1>2. /\ Append(sent_times, written) # <<>>
      /\ Len(Append(sent_times, written)) = Len(sent_times) + 1
      /\ \A i \in 1 .. Len(sent_times) :
           Append(sent_times, written)[i] = sent_times[i]
      /\ Append(sent_times, written)[Len(sent_times) + 1] = written
  BY <1>1, AppendProperties
<1>3. sent_times' = Append(sent_times, written)
  BY DEF PushSentTime
<1>4. /\ wpc = "loop" /\ wpc' = "write" /\ pushed' = pushed + 1
      /\ UNCHANGED <<config, server, rpc, c2s, s2c, got, fin, eof, rst, written,
                     sent_time, consumed, total_requests, clean>>
  BY DEF PushSentTime, benchVars, frozen, readerVars, wire
<1> QED
  BY <1>2, <1>3, <1>4

\* The steal takes the oldest time.
LEMMA StealFacts ==
  ASSUME Types, Steal
  PROVE  /\ rpc = "steal" /\ rpc' = "request"
         /\ sent_times # <<>> /\ Len(sent_times) > 0
         /\ sent_time' = sent_times[1]
         /\ Len(sent_times') = Len(sent_times) - 1
         /\ \A i \in 1 .. Len(sent_times) - 1 : sent_times'[i] = sent_times[i + 1]
         /\ sent_times' = <<>> <=> Len(sent_times) = 1
         /\ UNCHANGED <<config, server, wpc, c2s, s2c, got, fin, eof, rst, pushed,
                        written, consumed, total_requests, clean>>
<1>1. sent_times \in Seq(Nat) /\ sent_times # <<>>
  BY DEF Steal, Types
<1>2. /\ Tail(sent_times) \in Seq(Nat)
      /\ Len(Tail(sent_times)) = Len(sent_times) - 1
      /\ \A i \in 1 .. Len(Tail(sent_times)) : Tail(sent_times)[i] = sent_times[i + 1]
  BY <1>1, HeadTailProperties
<1>3. Len(sent_times) \in Nat \ {0}
  BY <1>1, EmptySeq
<1>4. Tail(sent_times) = <<>> <=> Len(Tail(sent_times)) = 0
  BY <1>2, EmptySeq
<1>5. Head(sent_times) = sent_times[1]
  BY <1>1
<1>6. sent_times' = Tail(sent_times) /\ sent_time' = Head(sent_times)
  BY DEF Steal
<1>7. /\ rpc = "steal" /\ rpc' = "request"
      /\ UNCHANGED <<config, server, wpc, c2s, s2c, got, fin, eof, rst, pushed, written,
                     consumed, total_requests, clean>>
  BY DEF Steal, benchVars, frozen, writerVars, wire
<1> QED
  BY <1>1, <1>2, <1>3, <1>4, <1>5, <1>6, <1>7

\* Every step keeps the two tasks in step with each other.
LEMMA ControlNext ==
  ASSUME Types, ControlInv, [Next]_vars
  PROVE  ControlInv'
<1>0. Numbers /\ QueueShape /\ FirstShape
  BY TypeFacts
<1>1. CASE Begin
  BY <1>1, <1>0 DEF Begin, frozen, wire, readerVars, Numbers, ControlInv, SetUp,
     Len_
<1>2. CASE Connect
  BY <1>2, <1>0 DEF Connect, FirstStop, benchVars, frozen, wire, readerVars,
     Numbers, ControlInv, SetUp, Len_
<1>3. CASE ConnectFails
  BY <1>3, <1>0 DEF ConnectFails, GiveUp, frozen, readerVars, DropStream, Numbers,
     ControlInv, SetUp, Len_
<1>4. CASE SetNodelay
  BY <1>4, <1>0 DEF SetNodelay, FirstStop, benchVars, frozen, wire, readerVars,
     Numbers, ControlInv, SetUp, Len_
<1>5. CASE SetNodelayFails
  BY <1>5, <1>0 DEF SetNodelayFails, DropStream, benchVars, frozen, readerVars,
     Numbers, ControlInv, SetUp, Len_
<1>6. CASE FirstWrite
  BY <1>6, <1>0, FirstWriteFacts DEF Numbers, ControlInv, SetUp, Len_
<1>7. CASE FirstWriteFails
  BY <1>7, <1>0 DEF FirstWriteFails, GiveUp, frozen, readerVars, DropStream,
     Numbers, ControlInv, SetUp, Len_
<1>8. CASE FirstReadFill
  BY <1>8, <1>0, FirstReadFillFacts DEF Numbers, ControlInv, SetUp, Len_
<1>9. CASE FirstReadCompletes
  BY <1>9, <1>0 DEF FirstReadCompletes, frozen, wire, readerVars, Numbers,
     ControlInv, SetUp, Len_
<1>9a. CASE FirstRequest
  BY <1>9a, <1>0 DEF FirstRequest, frozen, wire, readerVars, Numbers, ControlInv,
     SetUp, Len_
<1>10. CASE FirstReadFails
  BY <1>10, <1>0 DEF FirstReadFails, GiveUp, ReadFails, frozen, readerVars,
     DropStream, Numbers, ControlInv, SetUp, Len_
<1>11. CASE Spawn
  BY <1>11, <1>0 DEF Spawn, benchVars, frozen, wire, Len_, Numbers, ControlInv,
     SetUp
<1>12. CASE LifetimeEnds
  BY <1>12, <1>0 DEF LifetimeEnds, DropWriter, benchVars, frozen, readerVars,
     Numbers, ControlInv, SetUp, Len_
<1>13. CASE ShutdownEnds
  BY <1>13, <1>0 DEF ShutdownEnds, DropWriter, benchVars, frozen, readerVars,
     MainLoop, Numbers, ControlInv, SetUp, Len_
<1>14. CASE PushSentTime
  BY <1>14, <1>0, PushFacts DEF Numbers, ControlInv, SetUp, Len_
<1>15. CASE Write
  <2>1. /\ wpc = "write" /\ wpc' \in {"pace", "loop"}
        /\ UNCHANGED <<config, rpc, fin>>
    BY <1>15, <1>0, WriteFacts
  <2> QED
    BY <2>1 DEF ControlInv, SetUp, Len_
<1>16. CASE WriteFails
  BY <1>16, <1>0 DEF WriteFails, frozen, wire, readerVars, Numbers, ControlInv,
     SetUp, Len_
<1>17. CASE Pace
  BY <1>17, <1>0 DEF Pace, benchVars, frozen, wire, readerVars, Numbers, ControlInv,
     SetUp, Len_
<1>18. CASE Join
  BY <1>18, <1>0 DEF Join, frozen, wire, readerVars, Numbers, ControlInv, SetUp,
     Len_
<1>19. CASE ReadFill
  BY <1>19, <1>0, ReadFillFacts DEF Numbers, ControlInv, SetUp, Len_
<1>20. CASE ReadCompletes
  BY <1>20, <1>0 DEF ReadCompletes, benchVars, frozen, wire, writerVars, Len_,
     Numbers, ControlInv, SetUp
<1>21. CASE Steal
  BY <1>21, <1>0, StealFacts DEF Numbers, ControlInv, SetUp, Len_
<1>22. CASE StealMisses
  BY <1>22, <1>0 DEF StealMisses, benchVars, frozen, wire, writerVars, Numbers,
     ControlInv, SetUp, Len_
<1>23. CASE RecordRequest
  BY <1>23, <1>0 DEF RecordRequest, frozen, wire, writerVars, Numbers, ControlInv,
     SetUp, Len_
<1>24. CASE RecordLatency
  BY <1>24, <1>0 DEF RecordLatency, frozen, wire, writerVars, Numbers, ControlInv,
     SetUp, Len_
<1>25. CASE ReadEnds
  BY <1>25, <1>0 DEF ReadEnds, ReadFails, frozen, wire, writerVars, Len_, Numbers,
     ControlInv, SetUp
<1>26. CASE CtrlC
  BY <1>26, <1>0 DEF CtrlC, benchVars, frozen, wire, writerVars, Numbers,
     ControlInv, SetUp, Len_
<1>27. CASE Expire
  BY <1>27, <1>0 DEF Expire, benchVars, frozen, wire, readerVars, MainLoop, Numbers,
     ControlInv, SetUp, Len_
<1>28. CASE ServerEcho
  BY <1>28, <1>0, EchoFacts DEF Numbers, ControlInv, SetUp, Len_
<1>29. CASE ServerReads
  BY <1>29, <1>0 DEF ServerReads, ServerUnchanged, benchVars, frozen, readerVars,
     Numbers, ControlInv, SetUp, Len_
<1>30. CASE ServerChats
  BY <1>30, <1>0 DEF ServerChats, ServerUnchanged, benchVars, frozen, readerVars,
     Numbers, ControlInv, SetUp, Len_
<1>31. CASE ServerCloses
  BY <1>31, <1>0 DEF ServerCloses, ServerUnchanged, benchVars, frozen, readerVars,
     Numbers, ControlInv, SetUp, Len_
<1>32. CASE ServerQuits
  BY <1>32, <1>0 DEF ServerQuits, ServerUnchanged, benchVars, frozen, readerVars,
     Numbers, ControlInv, SetUp, Len_
<1>33. CASE ServerRefuses
  BY <1>33, <1>0 DEF ServerRefuses, ServerUnchanged, benchVars, frozen, readerVars,
     Numbers, ControlInv, SetUp, Len_
<1>34. CASE MainStep /\ MainUnchanged
  BY <1>34, <1>0 DEF MainStep, MainUnchanged, end_warmup, set_shutting_down,
     NotifyShutdown, frozen, writerVars, readerVars, wire, Numbers, ControlInv,
     SetUp, Len_
<1>35. CASE UNCHANGED vars
  BY <1>35, <1>0 DEF vars, frozen, wire, benchVars, Numbers, ControlInv, SetUp, Len_
<1> QED
  BY <1>1, <1>2, <1>3, <1>4, <1>5, <1>6, <1>7, <1>8, <1>9, <1>9a, <1>10, <1>11, <1>12,
     <1>13, <1>14, <1>15, <1>16, <1>17, <1>18, <1>19, <1>20, <1>21, <1>22, <1>23,
     <1>24, <1>25, <1>26, <1>27, <1>28, <1>29, <1>30, <1>31, <1>32, <1>33, <1>34,
     <1>35 DEF Next, WriterStep, ReaderStep, Environment

\* Every step keeps the requests paid for.
LEMMA RequestNext ==
  ASSUME Types, ControlInv, RequestInv, [Next]_vars
  PROVE  RequestInv'
<1>0. Numbers /\ QueueShape /\ FirstShape
  BY TypeFacts
<1>1. CASE Begin
  BY <1>1, <1>0 DEF Begin, frozen, wire, readerVars, Numbers, RequestInv,
     FirstRequests, SetUp, ControlInv
<1>2. CASE Connect
  BY <1>2, <1>0 DEF Connect, FirstStop, benchVars, frozen, wire, readerVars,
     Numbers, RequestInv, FirstRequests, SetUp, ControlInv
<1>3. CASE ConnectFails
  BY <1>3, <1>0 DEF ConnectFails, GiveUp, frozen, readerVars, DropStream, Numbers,
     RequestInv, FirstRequests, SetUp, ControlInv
<1>4. CASE SetNodelay
  BY <1>4, <1>0 DEF SetNodelay, FirstStop, benchVars, frozen, wire, readerVars,
     Numbers, RequestInv, FirstRequests, SetUp, ControlInv
<1>5. CASE SetNodelayFails
  BY <1>5, <1>0 DEF SetNodelayFails, DropStream, benchVars, frozen, readerVars,
     Numbers, RequestInv, FirstRequests, SetUp, ControlInv
<1>6. CASE FirstWrite
  BY <1>6, <1>0, FirstWriteFacts DEF Numbers, RequestInv, FirstRequests, SetUp,
     ControlInv
<1>7. CASE FirstWriteFails
  BY <1>7, <1>0 DEF FirstWriteFails, GiveUp, frozen, readerVars, DropStream,
     Numbers, RequestInv, FirstRequests, SetUp, ControlInv
<1>8. CASE FirstReadFill
  BY <1>8, <1>0, FirstReadFillFacts DEF Numbers, RequestInv, FirstRequests, SetUp,
     ControlInv
<1>9. CASE FirstReadCompletes
  BY <1>9, <1>0 DEF FirstReadCompletes, frozen, wire, readerVars, Numbers, RequestInv,
     FirstRequests, SetUp, ControlInv
<1>9a. CASE FirstRequest
  <2>1. /\ wpc = "first_request" /\ wpc' = "spawn"
        /\ UNCHANGED <<config, sent_times, pushed, rpc>>
    BY <1>9a DEF FirstRequest, frozen, wire, readerVars
  <2>2. total_requests' = total_requests \/ total_requests' = total_requests + 1
    BY <1>9a DEF FirstRequest, record_request
  <2>3. total_requests = 0 /\ Len(sent_times) = 0 /\ rpc = "off" /\ pushed = 0
    BY <2>1 DEF RequestInv, ControlInv, SetUp
  <2> QED
    BY <2>1, <2>2, <2>3 DEF RequestInv, FirstRequests, SetUp
<1>10. CASE FirstReadFails
  BY <1>10, <1>0 DEF FirstReadFails, GiveUp, ReadFails, frozen, readerVars,
     DropStream, Numbers, RequestInv, FirstRequests, SetUp, ControlInv
<1>11. CASE Spawn
  BY <1>11, <1>0 DEF Spawn, benchVars, frozen, wire, Len_, Numbers, RequestInv,
     FirstRequests, SetUp, ControlInv
<1>12. CASE LifetimeEnds
  BY <1>12, <1>0 DEF LifetimeEnds, DropWriter, benchVars, frozen, readerVars,
     Numbers, RequestInv, FirstRequests, SetUp, ControlInv
<1>13. CASE ShutdownEnds
  BY <1>13, <1>0 DEF ShutdownEnds, DropWriter, benchVars, frozen, readerVars,
     MainLoop, Numbers, RequestInv, FirstRequests, SetUp, ControlInv
<1>14. CASE PushSentTime
  BY <1>14, <1>0, PushFacts DEF Numbers, RequestInv, FirstRequests, SetUp, ControlInv
<1>15. CASE Write
  BY <1>15, <1>0, WriteFacts DEF Numbers, RequestInv, FirstRequests, SetUp, ControlInv
<1>16. CASE WriteFails
  BY <1>16, <1>0 DEF WriteFails, frozen, wire, readerVars, Numbers, RequestInv,
     FirstRequests, SetUp, ControlInv
<1>17. CASE Pace
  BY <1>17, <1>0 DEF Pace, benchVars, frozen, wire, readerVars, Numbers, RequestInv,
     FirstRequests, SetUp, ControlInv
<1>18. CASE Join
  BY <1>18, <1>0 DEF Join, frozen, wire, readerVars, Numbers, RequestInv,
     FirstRequests, SetUp, ControlInv
<1>19. CASE ReadFill
  BY <1>19, <1>0, ReadFillFacts DEF Numbers, RequestInv, FirstRequests, SetUp,
     ControlInv
<1>20. CASE ReadCompletes
  BY <1>20, <1>0 DEF ReadCompletes, benchVars, frozen, wire, writerVars, Len_,
     Numbers, RequestInv, FirstRequests, SetUp, ControlInv
<1>21. CASE Steal
  BY <1>21, <1>0, StealFacts DEF Numbers, RequestInv, FirstRequests, SetUp, ControlInv
<1>22. CASE StealMisses
  BY <1>22, <1>0 DEF StealMisses, benchVars, frozen, wire, writerVars, Numbers,
     RequestInv, FirstRequests, SetUp, ControlInv
<1>23. CASE RecordRequest
  <2>1. total_requests' = total_requests \/ total_requests' = total_requests + 1
    BY <1>23 DEF RecordRequest, record_request
  <2>2. /\ UNCHANGED <<config, sent_times, pushed, wpc>>
        /\ rpc = "request" /\ rpc' = "latency"
    BY <1>23 DEF RecordRequest, frozen, wire, writerVars
  <2>3. wpc \notin SetUp
    BY <2>2 DEF ControlInv, SetUp
  <2> QED
    BY <1>0, <2>1, <2>2, <2>3 DEF RequestInv, FirstRequests, Numbers
<1>24. CASE RecordLatency
  BY <1>24, <1>0 DEF RecordLatency, frozen, wire, writerVars, Numbers, RequestInv,
     FirstRequests, SetUp, ControlInv
<1>25. CASE ReadEnds
  BY <1>25, <1>0 DEF ReadEnds, ReadFails, frozen, wire, writerVars, Len_, Numbers,
     RequestInv, FirstRequests, SetUp, ControlInv
<1>26. CASE CtrlC
  BY <1>26, <1>0 DEF CtrlC, benchVars, frozen, wire, writerVars, Numbers,
     RequestInv, FirstRequests, SetUp, ControlInv
<1>27. CASE Expire
  BY <1>27, <1>0 DEF Expire, benchVars, frozen, wire, readerVars, MainLoop, Numbers,
     RequestInv, FirstRequests, SetUp, ControlInv
<1>28. CASE ServerEcho
  BY <1>28, <1>0, EchoFacts DEF Numbers, RequestInv, FirstRequests, SetUp, ControlInv
<1>29. CASE ServerReads
  BY <1>29, <1>0 DEF ServerReads, ServerUnchanged, benchVars, frozen, readerVars,
     Numbers, RequestInv, FirstRequests, SetUp, ControlInv
<1>30. CASE ServerChats
  BY <1>30, <1>0 DEF ServerChats, ServerUnchanged, benchVars, frozen, readerVars,
     Numbers, RequestInv, FirstRequests, SetUp, ControlInv
<1>31. CASE ServerCloses
  BY <1>31, <1>0 DEF ServerCloses, ServerUnchanged, benchVars, frozen, readerVars,
     Numbers, RequestInv, FirstRequests, SetUp, ControlInv
<1>32. CASE ServerQuits
  BY <1>32, <1>0 DEF ServerQuits, ServerUnchanged, benchVars, frozen, readerVars,
     Numbers, RequestInv, FirstRequests, SetUp, ControlInv
<1>33. CASE ServerRefuses
  BY <1>33, <1>0 DEF ServerRefuses, ServerUnchanged, benchVars, frozen, readerVars,
     Numbers, RequestInv, FirstRequests, SetUp, ControlInv
<1>34. CASE MainStep /\ MainUnchanged
  <2>1. total_requests' = total_requests \/ total_requests' = 0
    BY <1>34 DEF MainStep, end_warmup, set_shutting_down, NotifyShutdown
  <2>2. UNCHANGED <<config, wpc, rpc, sent_times, pushed>>
    BY <1>34 DEF MainStep, MainUnchanged, end_warmup, set_shutting_down,
       NotifyShutdown, frozen, writerVars, readerVars, wire
  <2> QED
    BY <1>0, <2>1, <2>2 DEF RequestInv, FirstRequests, Numbers
<1>35. CASE UNCHANGED vars
  BY <1>35, <1>0 DEF vars, frozen, wire, benchVars, Numbers, RequestInv,
     FirstRequests, SetUp, ControlInv
<1> QED
  BY <1>1, <1>2, <1>3, <1>4, <1>5, <1>6, <1>7, <1>8, <1>9, <1>9a, <1>10, <1>11, <1>12,
     <1>13, <1>14, <1>15, <1>16, <1>17, <1>18, <1>19, <1>20, <1>21, <1>22, <1>23,
     <1>24, <1>25, <1>26, <1>27, <1>28, <1>29, <1>30, <1>31, <1>32, <1>33, <1>34,
     <1>35 DEF Next, WriterStep, ReaderStep, Environment

\* Every step keeps the reads within their buffers.
LEMMA BufferNext ==
  ASSUME Types, ControlInv, BufferInv, [Next]_vars
  PROVE  BufferInv'
<1>0. Numbers /\ QueueShape /\ FirstShape
  BY TypeFacts
<1> USE DEF BufferInv, ReadWithinBuffer, SetUp, Len_, frozen
<1>1. CASE FirstReadFill
  <2>1. PICK len \in config.first_message : Fill(len)
    BY <1>1 DEF FirstReadFill
  <2>2. len \in Nat /\ \A m \in config.first_message : m = len
    BY <1>0, <2>1 DEF FirstShape
  <2>3. got' <= len
    BY <1>0, <2>1, <2>2, FillFacts DEF Numbers
  <2>4. wpc = "first_read" /\ UNCHANGED <<wpc, rpc, config>>
    BY <1>1 DEF FirstReadFill, readerVars
  <2>5. rpc' = "off"
    BY <2>4 DEF ControlInv
  <2> QED
    BY <2>2, <2>3, <2>4, <2>5
<1>2. CASE ReadFill
  <2>1. got' <= Len_
    BY <1>0, <1>2, FillFacts DEF ReadFill, Numbers
  <2>2. rpc = "read" /\ UNCHANGED <<wpc, rpc, config>>
    BY <1>2 DEF ReadFill, writerVars, readerVars
  <2>3. wpc \notin SetUp
    BY <2>2 DEF ControlInv
  <2> QED
    BY <2>1, <2>2, <2>3
<1>3. CASE FirstReadCompletes \/ ReadCompletes
  <2>1. got' = 0 /\ UNCHANGED config
    BY <1>3 DEF FirstReadCompletes, ReadCompletes
  <2>2. Len_' \in Nat /\ \A len \in config'.first_message : len \in Nat
    BY <1>0, <2>1 DEF Numbers, FirstShape
  <2> QED
    BY <2>1, <2>2
<1>4. CASE FirstWrite
  <2>1. wpc = "first_write" /\ wpc' \in {"failed", "first_read"}
        /\ UNCHANGED <<rpc, got, config>>
    BY <1>4, FirstWriteFacts
  <2>2. got = 0 /\ rpc = "off"
    BY <2>1 DEF ControlInv
  <2>3. \A len \in config'.first_message : len \in Nat
    BY <1>0, <2>1 DEF FirstShape
  <2> QED
    BY <2>1, <2>2, <2>3
<1>5. CASE Spawn
  <2>1. got' = 0 /\ wpc' \notin SetUp /\ UNCHANGED config
    BY <1>5 DEF Spawn
  <2> QED
    BY <1>0, <2>1 DEF Numbers
<1>6. ASSUME UNCHANGED <<got, config>>,
             wpc' = "first_read" => wpc = "first_read",
             wpc' \in SetUp \ {"first_read"} => wpc \in SetUp \ {"first_read"},
             rpc' # "off" => rpc # "off"
      PROVE  BufferInv'
  BY <1>6
<1>7. CASE Begin \/ Connect \/ SetNodelay \/ SetNodelayFails \/ FirstRequest
  BY <1>6, <1>7 DEF Begin, Connect, SetNodelay, SetNodelayFails, FirstRequest, FirstStop,
     readerVars
<1>8. CASE ConnectFails \/ FirstWriteFails \/ FirstReadFails
  BY <1>6, <1>8 DEF ConnectFails, FirstWriteFails, FirstReadFails, GiveUp, readerVars
<1>9. CASE LifetimeEnds \/ ShutdownEnds \/ PushSentTime
  BY <1>6, <1>9 DEF LifetimeEnds, ShutdownEnds, DropWriter, PushSentTime, readerVars
<1>10. CASE Write
  <2>1. wpc' \in {"pace", "loop"} /\ UNCHANGED <<rpc, got, config>>
    BY <1>0, <1>10, WriteFacts
  <2> QED
    BY <1>6, <2>1
<1>11. CASE WriteFails \/ Pace \/ Join
  BY <1>6, <1>11 DEF WriteFails, Pace, Join, readerVars
<1>12. CASE Steal \/ StealMisses \/ RecordRequest \/ RecordLatency \/ ReadEnds \/ CtrlC
  BY <1>6, <1>12 DEF Steal, StealMisses, RecordRequest, RecordLatency, ReadEnds, CtrlC,
     writerVars
<1>13. CASE Expire \/ ServerEcho \/ ServerReads \/ ServerChats \/ ServerCloses
            \/ ServerQuits \/ ServerRefuses
  BY <1>6, <1>13 DEF Expire, ServerEcho, ServerReads, ServerChats, ServerCloses,
     ServerQuits, ServerRefuses, ServerUnchanged, readerVars
<1>14. CASE MainStep /\ MainUnchanged
  BY <1>6, <1>14 DEF MainUnchanged, writerVars, readerVars
<1>15. CASE UNCHANGED vars
  BY <1>6, <1>15 DEF vars
<1> QED
  BY <1>1, <1>2, <1>3, <1>4, <1>5, <1>7, <1>8, <1>9, <1>10, <1>11, <1>12, <1>13, <1>14,
     <1>15 DEF Next, WriterStep, ReaderStep, Environment

\* One message more is so many bytes more.
LEMMA ByteFacts ==
  /\ \A n, len \in Nat : Bytes(n, len) \in Nat /\ Bytes(n + 1, len) = Bytes(n, len) + len
  /\ \A len \in Nat : Bytes(0, len) = 0 /\ Bytes(1, len) = len
BY DEF Bytes

\* Every step keeps the counted requests covered by complete answers.
LEMMA AnswersNext ==
  ASSUME Types, ControlInv, RequestInv, AnswersInv, [Next]_vars
  PROVE  AnswersInv'
<1>0. Numbers /\ QueueShape /\ FirstShape
  BY TypeFacts
<1>a. /\ total_requests \in Nat /\ Len_ \in Nat /\ consumed \in Nat
      /\ FirstRequests \in Nat
  BY <1>0 DEF Numbers, FirstRequests
<1>b. /\ Bytes(total_requests, Len_) \in Nat /\ Bytes(FirstRequests, Len_) \in Nat
      /\ Bytes(total_requests + 1, Len_) = Bytes(total_requests, Len_) + Len_
      /\ Bytes(0, Len_) = 0
  BY <1>a, ByteFacts
<1> DEFINE Same == UNCHANGED <<config, consumed>>
<1>c. ASSUME Same PROVE Len_' = Len_ /\ FirstRequests' = FirstRequests
  BY <1>c DEF Len_, FirstRequests
<1>1. CASE Spawn
  <2>1. Same /\ UNCHANGED total_requests /\ Uncounted' = 0 /\ consumed = 0
    BY <1>1 DEF Spawn, frozen, benchVars, Uncounted, ControlInv, SetUp
  <2>2. total_requests <= FirstRequests
    BY <1>0, <1>1 DEF Spawn, RequestInv, ControlInv, SetUp, Numbers, QueueShape,
       FirstRequests
  <2>3. total_requests = FirstRequests \/ total_requests = 0
    BY <1>a, <2>2 DEF FirstRequests
  <2>4. Bytes(total_requests, Len_) <= Bytes(FirstRequests, Len_)
    BY <1>b, <2>3
  <2> QED
    BY <1>b, <1>c, <2>1, <2>4 DEF AnswersInv
<1>2. CASE ReadCompletes
  <2>1. /\ rpc = "read" /\ rpc' = "steal" /\ consumed' = consumed + Len_
        /\ UNCHANGED <<config, total_requests>>
    BY <1>2 DEF ReadCompletes, benchVars, frozen
  <2>2. Len_' = Len_ /\ FirstRequests' = FirstRequests /\ Uncounted' = Len_
        /\ Uncounted = 0
    BY <2>1 DEF Len_, FirstRequests, Uncounted
  <2> QED
    BY <1>a, <1>b, <2>1, <2>2 DEF AnswersInv
<1>3. CASE RecordRequest
  <2>1. /\ rpc = "request" /\ rpc' = "latency" /\ Same
        /\ total_requests' = total_requests \/ total_requests' = total_requests + 1
    BY <1>3 DEF RecordRequest, record_request, frozen
  <2>2. Uncounted = Len_ /\ Uncounted' = 0
    BY <2>1 DEF Uncounted
  <2>3. Bytes(total_requests', Len_) <= Bytes(total_requests, Len_) + Len_
    BY <1>a, <1>b, <2>1
  <2>4. Bytes(total_requests', Len_) \in Nat
    <3>1. total_requests' \in Nat
      BY <1>a, <2>1
    <3> QED
      BY <1>a, <3>1, ByteFacts
  <2> QED
    BY <1>a, <1>b, <1>c, <2>1, <2>2, <2>3, <2>4 DEF AnswersInv
<1>4. CASE MainStep /\ MainUnchanged
  <2>1. Same /\ UNCHANGED rpc /\ (total_requests' = total_requests \/ total_requests' = 0)
    BY <1>4 DEF MainStep, MainUnchanged, end_warmup, set_shutting_down, NotifyShutdown,
       frozen, readerVars
  <2>2. Uncounted' = Uncounted /\ Uncounted \in Nat
    BY <1>a, <1>c, <2>1 DEF Uncounted
  <2>3. CASE total_requests' = 0
    BY <1>a, <1>b, <1>c, <2>1, <2>2, <2>3 DEF AnswersInv
  <2>4. CASE total_requests' = total_requests
    BY <1>c, <2>1, <2>2, <2>4 DEF AnswersInv
  <2> QED
    BY <2>1, <2>3, <2>4
<1>5. ASSUME Same, UNCHANGED total_requests,
             rpc' # "off" => rpc # "off",
             rpc' \in {"steal", "request"} => rpc \in {"steal", "request"}
      PROVE  AnswersInv'
  <2>1. Uncounted' <= Uncounted /\ Uncounted \in Nat /\ Uncounted' \in Nat
    BY <1>a, <1>c, <1>5 DEF Uncounted
  <2> QED
    BY <1>a, <1>b, <1>c, <1>5, <2>1 DEF AnswersInv
<1>6. ASSUME rpc' = "off" PROVE AnswersInv'
  BY <1>6 DEF AnswersInv
<1>7. CASE Begin \/ Connect \/ SetNodelay \/ SetNodelayFails \/ FirstReadFill
           \/ FirstReadCompletes
  BY <1>5, <1>7 DEF Begin, Connect, SetNodelay, SetNodelayFails, FirstReadFill,
     FirstReadCompletes, readerVars, frozen, benchVars
<1>8. CASE ConnectFails \/ FirstWriteFails \/ FirstReadFails
  BY <1>5, <1>8 DEF ConnectFails, FirstWriteFails, FirstReadFails, GiveUp, readerVars,
     frozen
<1>9. CASE FirstRequest
  BY <1>6, <1>9 DEF FirstRequest, ControlInv, SetUp, readerVars
<1>10. CASE FirstWrite
  BY <1>5, <1>10, FirstWriteFacts
<1>11. CASE LifetimeEnds \/ ShutdownEnds \/ PushSentTime \/ WriteFails \/ Pace \/ Join
  BY <1>5, <1>11 DEF LifetimeEnds, ShutdownEnds, DropWriter, PushSentTime, WriteFails,
     Pace, Join, readerVars, frozen, benchVars
<1>12. CASE Write
  BY <1>0, <1>5, <1>12, WriteFacts
<1>13. CASE ReadFill \/ Steal \/ StealMisses \/ RecordLatency \/ ReadEnds \/ CtrlC
  BY <1>5, <1>13 DEF ReadFill, Steal, StealMisses, RecordLatency, ReadEnds, CtrlC,
     readerVars, frozen, benchVars
<1>14. CASE Expire \/ ServerEcho \/ ServerReads \/ ServerChats \/ ServerCloses
            \/ ServerQuits \/ ServerRefuses
  BY <1>5, <1>14 DEF Expire, ServerEcho, ServerReads, ServerChats, ServerCloses,
     ServerQuits, ServerRefuses, ServerUnchanged, readerVars, frozen, benchVars
<1>15. CASE UNCHANGED vars
  BY <1>5, <1>15 DEF vars, frozen, benchVars
<1> QED
  BY <1>1, <1>2, <1>3, <1>4, <1>7, <1>8, <1>9, <1>10, <1>11, <1>12, <1>13, <1>14, <1>15
     DEF Next, WriterStep, ReaderStep, Environment

\* Every step keeps the queued times at most a message apart.
LEMMA QueueNext ==
  ASSUME Types, QueueInv, [Next]_vars
  PROVE  QueueInv'
<1>0. Numbers /\ QueueShape /\ FirstShape
  BY TypeFacts
<1>1. CASE Begin
  BY <1>1, <1>0 DEF Begin, frozen, wire, readerVars, Numbers, QueueShape, QueueInv,
     Newest, Len_
<1>2. CASE Connect
  BY <1>2, <1>0 DEF Connect, FirstStop, benchVars, frozen, wire, readerVars,
     Numbers, QueueShape, QueueInv, Newest, Len_
<1>3. CASE ConnectFails
  BY <1>3, <1>0 DEF ConnectFails, GiveUp, frozen, readerVars, DropStream, Numbers,
     QueueShape, QueueInv, Newest, Len_
<1>4. CASE SetNodelay
  BY <1>4, <1>0 DEF SetNodelay, FirstStop, benchVars, frozen, wire, readerVars,
     Numbers, QueueShape, QueueInv, Newest, Len_
<1>5. CASE SetNodelayFails
  BY <1>5, <1>0 DEF SetNodelayFails, DropStream, benchVars, frozen, readerVars,
     Numbers, QueueShape, QueueInv, Newest, Len_
<1>6. CASE FirstWrite
  BY <1>6, <1>0, FirstWriteFacts DEF Numbers, QueueShape, QueueInv, Newest, Len_
<1>7. CASE FirstWriteFails
  BY <1>7, <1>0 DEF FirstWriteFails, GiveUp, frozen, readerVars, DropStream,
     Numbers, QueueShape, QueueInv, Newest, Len_
<1>8. CASE FirstReadFill
  BY <1>8, <1>0, FirstReadFillFacts DEF Numbers, QueueShape, QueueInv, Newest, Len_
<1>9. CASE FirstReadCompletes
  BY <1>9, <1>0 DEF FirstReadCompletes, frozen, wire, readerVars, Numbers,
     QueueShape, QueueInv, Newest, Len_
<1>9a. CASE FirstRequest
  BY <1>9a, <1>0 DEF FirstRequest, frozen, wire, readerVars, Numbers,
     QueueShape, QueueInv, Newest, Len_
<1>10. CASE FirstReadFails
  BY <1>10, <1>0 DEF FirstReadFails, GiveUp, ReadFails, frozen, readerVars,
     DropStream, Numbers, QueueShape, QueueInv, Newest, Len_
<1>11. CASE Spawn
  BY <1>11, <1>0 DEF Spawn, benchVars, frozen, wire, Len_, Numbers, QueueShape,
     QueueInv, Newest
<1>12. CASE LifetimeEnds
  BY <1>12, <1>0 DEF LifetimeEnds, DropWriter, benchVars, frozen, readerVars,
     Numbers, QueueShape, QueueInv, Newest, Len_
<1>13. CASE ShutdownEnds
  BY <1>13, <1>0 DEF ShutdownEnds, DropWriter, benchVars, frozen, readerVars,
     MainLoop, Numbers, QueueShape, QueueInv, Newest, Len_
<1>14. CASE PushSentTime
  <2>1. PICK old \in Nat :
          /\ old = Len(sent_times)
          /\ Len(sent_times') = old + 1
          /\ \A i \in 1 .. old : sent_times'[i] = sent_times[i]
          /\ sent_times'[old + 1] = written
    BY <1>14, <1>0, PushFacts DEF Numbers
  <2>2. wpc' = "write" /\ wpc = "loop" /\ written' = written /\ Len_' = Len_
    BY <1>14, PushFacts DEF Len_
  <2>3. written \in Nat /\ Len_ \in Nat
    BY <1>0 DEF Numbers
  <2>4. \A i \in 1 .. old + 1 : sent_times'[i] <= written
    <3> TAKE i \in 1 .. old + 1
    <3>1. CASE i = old + 1
      BY <2>1, <2>3, <3>1
    <3>2. CASE i # old + 1
      <4>1. i \in 1 .. old
        BY <3>2
      <4> QED
        BY <2>1, <4>1 DEF QueueInv
    <3> QED
      BY <3>1, <3>2
  <2>5. \A i \in 1 .. old : sent_times'[i + 1] <= sent_times'[i] + Len_
    <3> TAKE i \in 1 .. old
    <3>1. CASE i = old
      <4>1. written <= sent_times[i] + Len_
        BY <1>0, <2>1, <3>1 DEF QueueInv, Newest, QueueShape
      <4> QED
        BY <2>1, <3>1, <4>1
    <3>2. CASE i # old
      <4>1. i \in 1 .. Len(sent_times) - 1 /\ i \in 1 .. old /\ i + 1 \in 1 .. old
        BY <2>1, <3>2
      <4>2. sent_times'[i] = sent_times[i] /\ sent_times'[i + 1] = sent_times[i + 1]
        BY <2>1, <4>1
      <4> QED
        BY <4>1, <4>2 DEF QueueInv
    <3> QED
      BY <3>1, <3>2
  <2> QED
    BY <2>1, <2>2, <2>3, <2>4, <2>5 DEF QueueInv, Newest
<1>15. CASE Write
  <2>1. PICK n \in Nat : /\ n <= Len_ /\ written' = written + n
                          /\ wpc' \in {"pace", "loop"}
    BY <1>15, <1>0, WriteFacts
  <2>2. wpc = "write" /\ UNCHANGED <<config, sent_times>>
    BY <1>15, <1>0, WriteFacts
  <2>3. sent_times # <<>> => written = Newest
    BY <2>2 DEF QueueInv
  <2> QED
    BY <1>0, <2>1, <2>2, <2>3 DEF QueueInv, Newest, Len_, Numbers, QueueShape
<1>16. CASE WriteFails
  BY <1>16, <1>0 DEF WriteFails, frozen, wire, readerVars, Numbers, QueueShape,
     QueueInv, Newest, Len_
<1>17. CASE Pace
  BY <1>17, <1>0 DEF Pace, benchVars, frozen, wire, readerVars, Numbers, QueueShape,
     QueueInv, Newest, Len_
<1>18. CASE Join
  BY <1>18, <1>0 DEF Join, frozen, wire, readerVars, Numbers, QueueShape, QueueInv,
     Newest, Len_
<1>19. CASE ReadFill
  BY <1>19, <1>0, ReadFillFacts DEF Numbers, QueueShape, QueueInv, Newest, Len_
<1>20. CASE ReadCompletes
  BY <1>20, <1>0 DEF ReadCompletes, benchVars, frozen, wire, writerVars, Len_,
     Numbers, QueueShape, QueueInv, Newest
<1>21. CASE Steal
  <2>1. PICK new \in Nat :
          /\ new = Len(sent_times') /\ Len(sent_times) = new + 1
          /\ \A i \in 1 .. new : sent_times'[i] = sent_times[i + 1]
          /\ sent_times' = <<>> <=> new = 0
    BY <1>21, <1>0, StealFacts DEF Numbers
  <2>2. written' = written /\ Len_' = Len_ /\ wpc' = wpc /\ sent_times # <<>>
    BY <1>21, StealFacts DEF Len_
  <2>3. \A i \in 1 .. new : i + 1 \in 1 .. Len(sent_times)
    BY <2>1
  <2>4. \A i \in 1 .. new : sent_times'[i] <= written
    BY <2>1, <2>3 DEF QueueInv
  <2>5. \A i \in 1 .. new - 1 : sent_times'[i + 1] <= sent_times'[i] + Len_
    <3> TAKE i \in 1 .. new - 1
    <3>1. /\ i \in 1 .. new /\ i + 1 \in 1 .. new
          /\ i + 1 \in 1 .. Len(sent_times) - 1
      BY <2>1
    <3>2. sent_times'[i] = sent_times[i + 1] /\ sent_times'[i + 1] = sent_times[i + 1 + 1]
      BY <2>1, <3>1
    <3> QED
      BY <3>1, <3>2 DEF QueueInv
  <2>6. sent_times' # <<>> => Newest' = Newest
    <3>1. sent_times' # <<>> => new \in 1 .. new
      BY <2>1
    <3> QED
      BY <2>1, <3>1 DEF Newest
  <2> QED
    BY <2>1, <2>2, <2>4, <2>5, <2>6 DEF QueueInv
<1>22. CASE StealMisses
  BY <1>22, <1>0 DEF StealMisses, benchVars, frozen, wire, writerVars, Numbers,
     QueueShape, QueueInv, Newest, Len_
<1>23. CASE RecordRequest
  BY <1>23, <1>0 DEF RecordRequest, frozen, wire, writerVars, Numbers, QueueShape,
     QueueInv, Newest, Len_
<1>24. CASE RecordLatency
  BY <1>24, <1>0 DEF RecordLatency, frozen, wire, writerVars, Numbers, QueueShape,
     QueueInv, Newest, Len_
<1>25. CASE ReadEnds
  BY <1>25, <1>0 DEF ReadEnds, ReadFails, frozen, wire, writerVars, Len_, Numbers,
     QueueShape, QueueInv, Newest
<1>26. CASE CtrlC
  BY <1>26, <1>0 DEF CtrlC, benchVars, frozen, wire, writerVars, Numbers,
     QueueShape, QueueInv, Newest, Len_
<1>27. CASE Expire
  BY <1>27, <1>0 DEF Expire, benchVars, frozen, wire, readerVars, MainLoop, Numbers,
     QueueShape, QueueInv, Newest, Len_
<1>28. CASE ServerEcho
  BY <1>28, <1>0, EchoFacts DEF Numbers, QueueShape, QueueInv, Newest, Len_
<1>29. CASE ServerReads
  BY <1>29, <1>0 DEF ServerReads, ServerUnchanged, benchVars, frozen, readerVars,
     Numbers, QueueShape, QueueInv, Newest, Len_
<1>30. CASE ServerChats
  BY <1>30, <1>0 DEF ServerChats, ServerUnchanged, benchVars, frozen, readerVars,
     Numbers, QueueShape, QueueInv, Newest, Len_
<1>31. CASE ServerCloses
  BY <1>31, <1>0 DEF ServerCloses, ServerUnchanged, benchVars, frozen, readerVars,
     Numbers, QueueShape, QueueInv, Newest, Len_
<1>32. CASE ServerQuits
  BY <1>32, <1>0 DEF ServerQuits, ServerUnchanged, benchVars, frozen, readerVars,
     Numbers, QueueShape, QueueInv, Newest, Len_
<1>33. CASE ServerRefuses
  BY <1>33, <1>0 DEF ServerRefuses, ServerUnchanged, benchVars, frozen, readerVars,
     Numbers, QueueShape, QueueInv, Newest, Len_
<1>34. CASE MainStep /\ MainUnchanged
  BY <1>34, <1>0 DEF MainStep, MainUnchanged, end_warmup, set_shutting_down,
     NotifyShutdown, frozen, writerVars, readerVars, wire, Numbers, QueueShape,
     QueueInv, Newest, Len_
<1>35. CASE UNCHANGED vars
  BY <1>35, <1>0 DEF vars, frozen, wire, benchVars, Numbers, QueueShape, QueueInv,
     Newest, Len_
<1> QED
  BY <1>1, <1>2, <1>3, <1>4, <1>5, <1>6, <1>7, <1>8, <1>9, <1>9a, <1>10, <1>11, <1>12,
     <1>13, <1>14, <1>15, <1>16, <1>17, <1>18, <1>19, <1>20, <1>21, <1>22, <1>23,
     <1>24, <1>25, <1>26, <1>27, <1>28, <1>29, <1>30, <1>31, <1>32, <1>33, <1>34,
     <1>35 DEF Next, WriterStep, ReaderStep, Environment

\* Every step keeps the first exchange self-contained.
LEMMA FirstNext ==
  ASSUME Types, ControlInv, FirstInv, [Next]_vars
  PROVE  FirstInv'
<1>0. Numbers /\ QueueShape /\ FirstShape
  BY TypeFacts
<1>1. CASE Begin
  BY <1>1, <1>0 DEF Begin, frozen, wire, readerVars, Numbers, FirstInv, Faithful,
     SetUp
<1>2. CASE Connect
  BY <1>2, <1>0 DEF Connect, FirstStop, benchVars, frozen, wire, readerVars,
     Numbers, FirstInv, Faithful, SetUp
<1>3. CASE ConnectFails
  BY <1>3, <1>0 DEF ConnectFails, GiveUp, frozen, readerVars, DropStream, Numbers,
     FirstInv, Faithful, SetUp
<1>4. CASE SetNodelay
  BY <1>4, <1>0 DEF SetNodelay, FirstStop, benchVars, frozen, wire, readerVars,
     Numbers, FirstInv, Faithful, SetUp
<1>5. CASE SetNodelayFails
  BY <1>5, <1>0 DEF SetNodelayFails, DropStream, benchVars, frozen, readerVars,
     Numbers, FirstInv, Faithful, SetUp
<1>6. CASE FirstWrite
  BY <1>6, <1>0, FirstWriteFacts DEF Numbers, FirstInv, Faithful, SetUp, FirstShape
<1>7. CASE FirstWriteFails
  BY <1>7, <1>0 DEF FirstWriteFails, GiveUp, frozen, readerVars, DropStream,
     Numbers, FirstInv, Faithful, SetUp
<1>8. CASE FirstReadFill
  BY <1>8, <1>0, FirstReadFillFacts DEF Numbers, FirstInv, Faithful, SetUp
<1>9. CASE FirstReadCompletes
  BY <1>9, <1>0 DEF FirstReadCompletes, frozen, wire, readerVars, Numbers, FirstInv,
     Faithful, SetUp, FirstShape
<1>9a. CASE FirstRequest
  BY <1>9a, <1>0 DEF FirstRequest, frozen, wire, readerVars, Numbers, FirstInv,
     Faithful, SetUp
<1>10. CASE FirstReadFails
  BY <1>10, <1>0 DEF FirstReadFails, GiveUp, ReadFails, frozen, readerVars,
     DropStream, Numbers, FirstInv, Faithful, SetUp
<1>11. CASE Spawn
  BY <1>11, <1>0 DEF Spawn, benchVars, frozen, wire, Len_, Numbers, FirstInv,
     Faithful, SetUp
<1>12. CASE LifetimeEnds
  BY <1>12, <1>0 DEF LifetimeEnds, DropWriter, benchVars, frozen, readerVars,
     Numbers, FirstInv, Faithful, SetUp
<1>13. CASE ShutdownEnds
  BY <1>13, <1>0 DEF ShutdownEnds, DropWriter, benchVars, frozen, readerVars,
     MainLoop, Numbers, FirstInv, Faithful, SetUp
<1>14. CASE PushSentTime
  BY <1>14, <1>0, PushFacts DEF Numbers, FirstInv, Faithful, SetUp
<1>15. CASE Write
  <2>1. wpc' \notin SetUp
    BY <1>15, <1>0, WriteFacts DEF SetUp
  <2> QED
    BY <2>1 DEF FirstInv, SetUp
<1>16. CASE WriteFails
  BY <1>16, <1>0 DEF WriteFails, frozen, wire, readerVars, Numbers, FirstInv,
     Faithful, SetUp
<1>17. CASE Pace
  BY <1>17, <1>0 DEF Pace, benchVars, frozen, wire, readerVars, Numbers, FirstInv,
     Faithful, SetUp
<1>18. CASE Join
  BY <1>18, <1>0 DEF Join, frozen, wire, readerVars, Numbers, FirstInv, Faithful,
     SetUp
<1>19. CASE ReadFill
  BY <1>19, <1>0, ReadFillFacts DEF ControlInv, FirstInv, SetUp
<1>20. CASE ReadCompletes
  BY <1>20, <1>0 DEF ReadCompletes, benchVars, frozen, wire, writerVars, Len_,
     Numbers, FirstInv, Faithful, SetUp, ControlInv
<1>21. CASE Steal
  BY <1>21, <1>0, StealFacts DEF Numbers, FirstInv, Faithful, SetUp
<1>22. CASE StealMisses
  BY <1>22, <1>0 DEF StealMisses, benchVars, frozen, wire, writerVars, Numbers,
     FirstInv, Faithful, SetUp
<1>23. CASE RecordRequest
  BY <1>23, <1>0 DEF RecordRequest, frozen, wire, writerVars, Numbers, FirstInv,
     Faithful, SetUp
<1>24. CASE RecordLatency
  BY <1>24, <1>0 DEF RecordLatency, frozen, wire, writerVars, Numbers, FirstInv,
     Faithful, SetUp
<1>25. CASE ReadEnds
  BY <1>25, <1>0 DEF ReadEnds, ReadFails, frozen, wire, writerVars, Len_, Numbers,
     FirstInv, Faithful, SetUp
<1>26. CASE CtrlC
  BY <1>26, <1>0 DEF CtrlC, benchVars, frozen, wire, writerVars, Numbers, FirstInv,
     Faithful, SetUp
<1>27. CASE Expire
  BY <1>27, <1>0 DEF Expire, benchVars, frozen, wire, readerVars, MainLoop, Numbers,
     FirstInv, Faithful, SetUp
<1>28. CASE ServerEcho
  BY <1>28, <1>0, EchoFacts DEF Numbers, FirstInv, Faithful, SetUp
<1>29. CASE ServerReads
  BY <1>29, <1>0 DEF ServerReads, ServerUnchanged, benchVars, frozen, readerVars,
     Numbers, FirstInv, Faithful, SetUp
<1>30. CASE ServerChats
  BY <1>30, <1>0 DEF ServerChats, ServerUnchanged, benchVars, frozen, readerVars,
     Numbers, FirstInv, Faithful, SetUp
<1>31. CASE ServerCloses
  BY <1>31, <1>0 DEF ServerCloses, ServerUnchanged, benchVars, frozen, readerVars,
     Numbers, FirstInv, Faithful, SetUp
<1>32. CASE ServerQuits
  <2>1. c2s' = c2s \/ c2s' = 0
    BY <1>32 DEF ServerQuits
  <2>2. clean' = FALSE /\ UNCHANGED <<config, server, wpc, s2c, got>>
    BY <1>32 DEF ServerQuits, ServerUnchanged, benchVars, frozen, readerVars
  <2>3. Faithful' => Faithful
    BY <2>2 DEF Faithful
  <2> QED
    BY <1>0, <2>1, <2>2, <2>3 DEF FirstInv, FirstShape, Numbers
<1>33. CASE ServerRefuses
  <2>1. c2s' = 0 /\ UNCHANGED <<config, server, wpc, s2c, got, clean>>
    BY <1>33 DEF ServerRefuses, ServerUnchanged, benchVars, frozen, readerVars
  <2>2. Faithful' = Faithful
    BY <2>1 DEF Faithful
  <2> QED
    BY <1>0, <2>1, <2>2 DEF FirstInv, FirstShape, Numbers
<1>34. CASE MainStep /\ MainUnchanged
  BY <1>34, <1>0 DEF MainStep, MainUnchanged, end_warmup, set_shutting_down,
     NotifyShutdown, frozen, writerVars, readerVars, wire, Numbers, FirstInv,
     Faithful, SetUp
<1>35. CASE UNCHANGED vars
  BY <1>35, <1>0 DEF vars, frozen, wire, benchVars, Numbers, FirstInv, Faithful,
     SetUp
<1> QED
  BY <1>1, <1>2, <1>3, <1>4, <1>5, <1>6, <1>7, <1>8, <1>9, <1>9a, <1>10, <1>11, <1>12,
     <1>13, <1>14, <1>15, <1>16, <1>17, <1>18, <1>19, <1>20, <1>21, <1>22, <1>23,
     <1>24, <1>25, <1>26, <1>27, <1>28, <1>29, <1>30, <1>31, <1>32, <1>33, <1>34,
     <1>35 DEF Next, WriterStep, ReaderStep, Environment

\* Every step keeps the count of bytes, and the head of the queue in its place.
LEMMA FlowNext ==
  ASSUME Types, ControlInv, QueueInv, FirstInv, FlowInv, [Next]_vars
  PROVE  FlowInv'
<1>0. Numbers /\ QueueShape /\ FirstShape
  BY TypeFacts
<1>1. CASE Begin
  BY <1>1, <1>0 DEF Begin, frozen, wire, readerVars, Numbers, FlowInv, Owed,
     Faithful, Len_
<1>2. CASE Connect
  BY <1>2, <1>0 DEF Connect, FirstStop, benchVars, frozen, wire, readerVars,
     Numbers, FlowInv, Owed, Faithful, Len_
<1>3. CASE ConnectFails
  BY <1>3, <1>0 DEF ConnectFails, GiveUp, frozen, readerVars, DropStream, Numbers,
     FlowInv, Owed, Faithful, Len_
<1>4. CASE SetNodelay
  BY <1>4, <1>0 DEF SetNodelay, FirstStop, benchVars, frozen, wire, readerVars,
     Numbers, FlowInv, Owed, Faithful, Len_
<1>5. CASE SetNodelayFails
  BY <1>5, <1>0 DEF SetNodelayFails, DropStream, benchVars, frozen, readerVars,
     Numbers, FlowInv, Owed, Faithful, Len_
<1>6. CASE FirstWrite
  <2>1. rpc' = "off"
    BY <1>6, FirstWriteFacts DEF ControlInv, SetUp
  <2> QED
    BY <2>1 DEF FlowInv
<1>7. CASE FirstWriteFails
  BY <1>7, <1>0 DEF FirstWriteFails, GiveUp, frozen, readerVars, DropStream,
     Numbers, FlowInv, Owed, Faithful, Len_
<1>8. CASE FirstReadFill
  <2>1. rpc' = "off"
    BY <1>8, <1>0, FirstReadFillFacts DEF FirstReadFill, ControlInv, SetUp
  <2> QED
    BY <2>1 DEF FlowInv
<1>9. CASE FirstReadCompletes
  <2>1. rpc' = "off"
    BY <1>9 DEF FirstReadCompletes, frozen, wire, readerVars, ControlInv, SetUp
  <2> QED
    BY <2>1 DEF FlowInv
<1>9a. CASE FirstRequest
  <2>1. rpc' = "off"
    BY <1>9a DEF FirstRequest, frozen, wire, readerVars, ControlInv, SetUp
  <2> QED
    BY <2>1 DEF FlowInv
<1>10. CASE FirstReadFails
  BY <1>10, <1>0 DEF FirstReadFails, GiveUp, ReadFails, frozen, readerVars,
     DropStream, Numbers, FlowInv, Owed, Faithful, Len_
<1>11. CASE Spawn
  <2>1. Faithful => c2s = 0 /\ s2c = 0 /\ got = 0
    BY <1>11 DEF Spawn, FirstInv, SetUp
  <2>2. written = 0 /\ consumed = 0 /\ sent_times = <<>>
    BY <1>11 DEF Spawn, ControlInv, SetUp
  <2>3. /\ Faithful' = Faithful /\ rpc' = "read" /\ wpc' # "write"
        /\ UNCHANGED <<c2s, s2c, got, consumed, written, sent_times>>
    BY <1>11 DEF Spawn, benchVars, frozen, wire, Len_, Faithful
  <2> QED
    BY <2>1, <2>2, <2>3 DEF FlowInv, Owed
<1>12. CASE LifetimeEnds
  BY <1>12, <1>0 DEF LifetimeEnds, DropWriter, benchVars, frozen, readerVars,
     Numbers, FlowInv, Owed, Faithful, Len_
<1>13. CASE ShutdownEnds
  BY <1>13, <1>0 DEF ShutdownEnds, DropWriter, benchVars, frozen, readerVars,
     MainLoop, Numbers, FlowInv, Owed, Faithful, Len_
<1>14. CASE PushSentTime
  BY <1>14, <1>0, PushFacts DEF Numbers, FlowInv, Owed, Faithful, Len_
<1>15. CASE Write
  <2>1. PICK n \in Nat :
          /\ c2s' = c2s + n /\ written' = written + n
          /\ clean' = clean \/ clean' = FALSE
    BY <1>15, <1>0, WriteFacts
  <2>2. /\ wpc = "write"
        /\ UNCHANGED <<config, server, rpc, sent_times, s2c, got, consumed, sent_time>>
    BY <1>15, <1>0, WriteFacts
  <2>3. Faithful' => Faithful /\ Len_' = Len_ /\ Owed' = Owed
    BY <2>1, <2>2 DEF Faithful, Len_, Owed
  <2> SUFFICES ASSUME Faithful', rpc' # "off" PROVE FlowInv'
    BY DEF FlowInv
  <2>4. /\ consumed + (c2s + (s2c + got)) <= written
        /\ sent_times # <<>> /\ sent_times[1] + Owed <= consumed
        /\ rpc \in {"request", "latency"} => sent_time + Len_ <= consumed
    BY <2>2, <2>3 DEF FlowInv
  <2>5. consumed' + (c2s' + (s2c' + got')) <= written'
    BY <1>0, <2>1, <2>2, <2>4 DEF Numbers
  <2> QED
    BY <2>2, <2>3, <2>4, <2>5 DEF FlowInv, Len_, Owed
<1>16. CASE WriteFails
  BY <1>16, <1>0 DEF WriteFails, frozen, wire, readerVars, Numbers, FlowInv, Owed,
     Faithful, Len_
<1>17. CASE Pace
  BY <1>17, <1>0 DEF Pace, benchVars, frozen, wire, readerVars, Numbers, FlowInv,
     Owed, Faithful, Len_
<1>18. CASE Join
  BY <1>18, <1>0 DEF Join, frozen, wire, readerVars, Numbers, FlowInv, Owed,
     Faithful, Len_
<1>19. CASE ReadFill
  BY <1>19, <1>0, ReadFillFacts DEF Numbers, FlowInv, Owed, Faithful, Len_
<1>20. CASE ReadCompletes
  <2>1. /\ rpc = "read" /\ rpc' = "steal" /\ got = Len_ /\ got' = 0
        /\ consumed' = consumed + Len_
        /\ UNCHANGED <<config, server, wpc, sent_times, c2s, s2c, written, clean>>
    BY <1>20 DEF ReadCompletes, benchVars, frozen, wire, writerVars, Len_
  <2>2. Faithful' = Faithful /\ Len_' = Len_ /\ Owed = 0 /\ Owed' = Len_
    BY <2>1 DEF Faithful, Len_, Owed
  <2> SUFFICES ASSUME Faithful PROVE FlowInv'
    BY <2>2 DEF FlowInv
  <2>3. /\ consumed + (c2s + (s2c + got)) <= written
        /\ sent_times # <<>> => sent_times[1] + Owed <= consumed
        /\ sent_times = <<>> => written + Owed <= consumed /\ wpc # "write"
    BY <2>1 DEF FlowInv
  <2>4. consumed' + (c2s' + (s2c' + got')) <= written'
    BY <1>0, <2>1, <2>3 DEF Numbers
  <2>5. sent_times # <<>> => sent_times[1] + Len_ <= consumed + Len_
    <3>1. sent_times # <<>> => sent_times[1] \in Nat
      BY <1>0 DEF QueueShape, Numbers
    <3> QED
      BY <1>0, <2>2, <2>3, <3>1 DEF Numbers
  <2>6. sent_times = <<>> => written + Len_ <= consumed + Len_
    BY <1>0, <2>2, <2>3 DEF Numbers
  <2> QED
    BY <2>1, <2>2, <2>3, <2>4, <2>5, <2>6 DEF FlowInv
<1>21. CASE Steal
  <2>1. /\ rpc = "steal" /\ rpc' = "request" /\ sent_times # <<>>
        /\ sent_time' = sent_times[1] /\ Len(sent_times') = Len(sent_times) - 1
        /\ \A i \in 1 .. Len(sent_times) - 1 : sent_times'[i] = sent_times[i + 1]
        /\ sent_times' = <<>> <=> Len(sent_times) = 1
        /\ UNCHANGED <<config, server, wpc, c2s, s2c, got, written, consumed, clean>>
    BY <1>21, StealFacts
  <2>2. Len(sent_times) \in Nat \ {0} /\ sent_times[1] \in Nat
    BY <1>0, <2>1 DEF Numbers, QueueShape
  <2>3. Faithful' = Faithful /\ Len_' = Len_ /\ Owed = Len_ /\ Owed' = 0
    BY <2>1 DEF Faithful, Len_, Owed
  <2> SUFFICES ASSUME Faithful PROVE FlowInv'
    BY <2>3 DEF FlowInv
  <2>4. /\ sent_times[1] + Len_ <= consumed
        /\ consumed + (c2s + (s2c + got)) <= written
    BY <2>1, <2>3 DEF FlowInv
  <2>5. consumed <= written
    BY <1>0, <2>4 DEF Numbers
  <2>6. ASSUME sent_times' # <<>> PROVE sent_times'[1] <= consumed
    <3>1. 1 \in 1 .. Len(sent_times) - 1 /\ 2 \in 1 .. Len(sent_times)
      BY <2>1, <2>2, <2>6
    <3>2. sent_times[2] <= sent_times[1] + Len_ /\ sent_times'[1] = sent_times[2]
      BY <2>1, <3>1 DEF QueueInv
    <3>3. sent_times[2] \in Nat
      BY <1>0, <3>1 DEF QueueShape
    <3> QED
      BY <1>0, <2>2, <2>4, <3>2, <3>3 DEF Numbers
  <2>7. ASSUME sent_times' = <<>> PROVE written <= consumed /\ wpc # "write"
    <3>1. Len(sent_times) = 1
      BY <2>1, <2>7
    <3>2. written <= sent_times[1] + Len_ /\ (wpc = "write" => written = sent_times[1])
      BY <2>1, <3>1 DEF QueueInv, Newest
    <3>3. wpc = "write" => Len_ > 0
      BY DEF ControlInv
    <3> QED
      BY <1>0, <2>2, <2>4, <2>5, <3>2, <3>3 DEF Numbers
  <2>9. consumed' + (c2s' + (s2c' + got')) <= written'
    BY <2>1, <2>4
  <2>10. sent_times' # <<>> => sent_times'[1] + Owed' <= consumed'
    <3>1. sent_times' # <<>> => sent_times'[1] = sent_times[2] /\ sent_times[2] \in Nat
      <4>1. sent_times' # <<>> => 1 \in 1 .. Len(sent_times) - 1 /\ 2 \in 1 .. Len(sent_times)
        BY <2>1, <2>2
      <4> QED
        BY <1>0, <2>1, <4>1 DEF QueueShape
    <3>2. sent_times' # <<>> => sent_times[2] + 0 <= consumed
      BY <1>0, <2>6, <3>1 DEF Numbers
    <3> QED
      BY <2>1, <2>3, <3>1, <3>2
  <2>11. sent_times' = <<>> => written' + Owed' <= consumed' /\ wpc' # "write"
    <3>1. sent_times' = <<>> => written + 0 <= consumed
      BY <1>0, <2>7 DEF Numbers
    <3> QED
      BY <2>1, <2>3, <2>7, <3>1
  <2>12. sent_time' + Len_' <= consumed'
    BY <2>1, <2>3, <2>4
  <2> QED
    BY <2>9, <2>10, <2>11, <2>12 DEF FlowInv
<1>22. CASE StealMisses
  <2>1. /\ rpc = "steal" /\ rpc' = "read" /\ clean' = FALSE
        /\ UNCHANGED <<config, server, wpc, sent_times, c2s, s2c, got, consumed, written>>
    BY <1>22 DEF StealMisses, benchVars, frozen, wire, writerVars
  <2>2. (Faithful' => Faithful) /\ Len_' = Len_ /\ Owed = Len_ /\ Owed' = 0
    BY <2>1 DEF Faithful, Len_, Owed
  <2> SUFFICES ASSUME Faithful PROVE FlowInv'
    BY <2>2 DEF FlowInv
  <2>3. /\ consumed + (c2s + (s2c + got)) <= written
        /\ sent_times # <<>> => sent_times[1] + Len_ <= consumed
        /\ sent_times = <<>> => written + Len_ <= consumed /\ wpc # "write"
    BY <2>1, <2>2 DEF FlowInv
  <2>4. sent_times # <<>> => sent_times[1] + 0 <= consumed
    <3>1. sent_times # <<>> => sent_times[1] \in Nat
      BY <1>0 DEF QueueShape, Numbers
    <3> QED
      BY <1>0, <2>3, <3>1 DEF Numbers
  <2>5. sent_times = <<>> => written + 0 <= consumed
    BY <1>0, <2>3 DEF Numbers
  <2> QED
    BY <2>1, <2>2, <2>3, <2>4, <2>5 DEF FlowInv
<1>23. CASE RecordRequest
  BY <1>23, <1>0 DEF RecordRequest, frozen, wire, writerVars, Numbers, FlowInv,
     Owed, Faithful, Len_
<1>24. CASE RecordLatency
  BY <1>24, <1>0 DEF RecordLatency, frozen, wire, writerVars, Numbers, FlowInv,
     Owed, Faithful, Len_
<1>25. CASE ReadEnds
  BY <1>25, <1>0 DEF ReadEnds, ReadFails, frozen, wire, writerVars, Len_, Numbers,
     FlowInv, Owed, Faithful
<1>26. CASE CtrlC
  BY <1>26, <1>0 DEF CtrlC, benchVars, frozen, wire, writerVars, Numbers, FlowInv,
     Owed, Faithful, Len_
<1>27. CASE Expire
  BY <1>27, <1>0 DEF Expire, benchVars, frozen, wire, readerVars, MainLoop, Numbers,
     FlowInv, Owed, Faithful, Len_
<1>28. CASE ServerEcho
  BY <1>28, <1>0, EchoFacts DEF Numbers, FlowInv, Owed, Faithful, Len_
<1>29. CASE ServerReads
  BY <1>29, <1>0 DEF ServerReads, ServerUnchanged, benchVars, frozen, readerVars,
     Numbers, FlowInv, Owed, Faithful, Len_
<1>30. CASE ServerChats
  BY <1>30, <1>0 DEF ServerChats, ServerUnchanged, benchVars, frozen, readerVars,
     Numbers, FlowInv, Owed, Faithful, Len_
<1>31. CASE ServerCloses
  BY <1>31, <1>0 DEF ServerCloses, ServerUnchanged, benchVars, frozen, readerVars,
     Numbers, FlowInv, Owed, Faithful, Len_
<1>32. CASE ServerQuits
  BY <1>32, <1>0 DEF ServerQuits, ServerUnchanged, benchVars, frozen, readerVars,
     Numbers, FlowInv, Owed, Faithful, Len_
<1>33. CASE ServerRefuses
  BY <1>33, <1>0 DEF ServerRefuses, ServerUnchanged, benchVars, frozen, readerVars,
     Numbers, FlowInv, Owed, Faithful, Len_
<1>34. CASE MainStep /\ MainUnchanged
  BY <1>34, <1>0 DEF MainStep, MainUnchanged, end_warmup, set_shutting_down,
     NotifyShutdown, frozen, writerVars, readerVars, wire, Numbers, FlowInv, Owed,
     Faithful, Len_
<1>35. CASE UNCHANGED vars
  BY <1>35, <1>0 DEF vars, frozen, wire, benchVars, Numbers, FlowInv, Owed,
     Faithful, Len_
<1> QED
  BY <1>1, <1>2, <1>3, <1>4, <1>5, <1>6, <1>7, <1>8, <1>9, <1>9a, <1>10, <1>11, <1>12,
     <1>13, <1>14, <1>15, <1>16, <1>17, <1>18, <1>19, <1>20, <1>21, <1>22, <1>23,
     <1>24, <1>25, <1>26, <1>27, <1>28, <1>29, <1>30, <1>31, <1>32, <1>33, <1>34,
     <1>35 DEF Next, WriterStep, ReaderStep, Environment

\* Every step keeps the queued times exactly a message apart, or is not clean.
LEMMA CleanQueueNext ==
  ASSUME Types, ControlInv, QueueInv, CleanQueueInv, [Next]_vars
  PROVE  CleanQueueInv'
<1>0. Numbers /\ QueueShape /\ FirstShape
  BY TypeFacts
<1>1. CASE Begin
  BY <1>1, <1>0 DEF Begin, frozen, wire, readerVars, Numbers, QueueShape,
     CleanQueueInv, Newest, Len_
<1>2. CASE Connect
  BY <1>2, <1>0 DEF Connect, FirstStop, benchVars, frozen, wire, readerVars,
     Numbers, QueueShape, CleanQueueInv, Newest, Len_
<1>3. CASE ConnectFails
  BY <1>3, <1>0 DEF ConnectFails, GiveUp, frozen, readerVars, DropStream, Numbers,
     QueueShape, CleanQueueInv, Newest, Len_
<1>4. CASE SetNodelay
  BY <1>4, <1>0 DEF SetNodelay, FirstStop, benchVars, frozen, wire, readerVars,
     Numbers, QueueShape, CleanQueueInv, Newest, Len_
<1>5. CASE SetNodelayFails
  BY <1>5, <1>0 DEF SetNodelayFails, DropStream, benchVars, frozen, readerVars,
     Numbers, QueueShape, CleanQueueInv, Newest, Len_
<1>6. CASE FirstWrite
  BY <1>6, <1>0, FirstWriteFacts DEF Numbers, QueueShape, CleanQueueInv, Newest, Len_
<1>7. CASE FirstWriteFails
  BY <1>7, <1>0 DEF FirstWriteFails, GiveUp, frozen, readerVars, DropStream,
     Numbers, QueueShape, CleanQueueInv, Newest, Len_
<1>8. CASE FirstReadFill
  BY <1>8, <1>0, FirstReadFillFacts DEF Numbers, QueueShape, CleanQueueInv, Newest,
     Len_
<1>9. CASE FirstReadCompletes
  BY <1>9, <1>0 DEF FirstReadCompletes, frozen, wire, readerVars, Numbers,
     QueueShape, CleanQueueInv, Newest, Len_
<1>9a. CASE FirstRequest
  BY <1>9a, <1>0 DEF FirstRequest, frozen, wire, readerVars, Numbers,
     QueueShape, CleanQueueInv, Newest, Len_
<1>10. CASE FirstReadFails
  BY <1>10, <1>0 DEF FirstReadFails, GiveUp, ReadFails, frozen, readerVars,
     DropStream, Numbers, QueueShape, CleanQueueInv, Newest, Len_
<1>11. CASE Spawn
  <2>1. sent_times' = <<>>
    BY <1>11 DEF Spawn, ControlInv, SetUp
  <2>2. Len(sent_times') = 0
    BY <2>1
  <2> QED
    BY <2>1, <2>2 DEF CleanQueueInv
<1>12. CASE LifetimeEnds
  BY <1>12, <1>0 DEF LifetimeEnds, DropWriter, benchVars, frozen, readerVars,
     Numbers, QueueShape, CleanQueueInv, Newest, Len_
<1>13. CASE ShutdownEnds
  BY <1>13, <1>0 DEF ShutdownEnds, DropWriter, benchVars, frozen, readerVars,
     MainLoop, Numbers, QueueShape, CleanQueueInv, Newest, Len_
<1>14. CASE PushSentTime
  <2> SUFFICES ASSUME clean PROVE CleanQueueInv'
    BY <1>14, PushFacts DEF CleanQueueInv
  <2>1. PICK old \in Nat :
          /\ old = Len(sent_times)
          /\ Len(sent_times') = old + 1
          /\ \A i \in 1 .. old : sent_times'[i] = sent_times[i]
          /\ sent_times'[old + 1] = written
    BY <1>14, <1>0, PushFacts DEF Numbers
  <2>2. wpc' = "write" /\ wpc = "loop" /\ written' = written /\ Len_' = Len_
    BY <1>14, PushFacts DEF Len_
  <2>3. \A i \in 1 .. old : sent_times'[i + 1] = sent_times'[i] + Len_
    <3> TAKE i \in 1 .. old
    <3>1. CASE i = old
      <4>1. written = sent_times[i] + Len_
        BY <1>0, <2>1, <2>2, <3>1 DEF CleanQueueInv, Newest, QueueShape
      <4> QED
        BY <2>1, <3>1, <4>1
    <3>2. CASE i # old
      <4>1. i \in 1 .. Len(sent_times) - 1 /\ i \in 1 .. old /\ i + 1 \in 1 .. old
        BY <2>1, <3>2
      <4>2. sent_times'[i] = sent_times[i] /\ sent_times'[i + 1] = sent_times[i + 1]
        BY <2>1, <4>1
      <4> QED
        BY <4>1, <4>2 DEF CleanQueueInv
    <3> QED
      BY <3>1, <3>2
  <2>4. Newest' = written
    BY <2>1 DEF Newest
  <2> QED
    BY <2>1, <2>2, <2>3, <2>4 DEF CleanQueueInv
<1>15. CASE Write
  <2>1. UNCHANGED <<config, sent_times>> /\ wpc = "write"
    BY <1>15, <1>0, WriteFacts
  <2>2. \/ clean' = FALSE
        \/ clean' = clean /\ wpc' = "pace" /\ written' = written + Len_
    BY <1>15, <1>0, WriteFacts
  <2>3. sent_times # <<>> => written = Newest
    BY <2>1 DEF QueueInv
  <2>4. Newest' = Newest /\ Len_' = Len_
    BY <2>1 DEF Newest, Len_
  <2>5. CASE clean' = FALSE
    BY <2>5 DEF CleanQueueInv
  <2>6. CASE clean' = clean /\ wpc' = "pace" /\ written' = written + Len_
    <3> SUFFICES ASSUME clean PROVE CleanQueueInv'
      BY <2>6 DEF CleanQueueInv
    <3>1. sent_times' # <<>> => written' = Newest' + Len_'
      BY <2>1, <2>3, <2>4, <2>6
    <3>2. \A i \in 1 .. Len(sent_times') - 1 : sent_times'[i + 1] = sent_times'[i] + Len_'
      BY <2>1, <2>4 DEF CleanQueueInv
    <3> QED
      BY <3>1, <3>2 DEF CleanQueueInv
  <2> QED
    BY <2>2, <2>5, <2>6
<1>16. CASE WriteFails
  BY <1>16, <1>0 DEF WriteFails, frozen, wire, readerVars, Numbers, QueueShape,
     CleanQueueInv, Newest, Len_
<1>17. CASE Pace
  BY <1>17, <1>0 DEF Pace, benchVars, frozen, wire, readerVars, Numbers, QueueShape,
     CleanQueueInv, Newest, Len_
<1>18. CASE Join
  BY <1>18, <1>0 DEF Join, frozen, wire, readerVars, Numbers, QueueShape,
     CleanQueueInv, Newest, Len_
<1>19. CASE ReadFill
  BY <1>19, <1>0, ReadFillFacts DEF Numbers, QueueShape, CleanQueueInv, Newest, Len_
<1>20. CASE ReadCompletes
  BY <1>20, <1>0 DEF ReadCompletes, benchVars, frozen, wire, writerVars, Len_,
     Numbers, QueueShape, CleanQueueInv, Newest
<1>21. CASE Steal
  <2> SUFFICES ASSUME clean PROVE CleanQueueInv'
    BY <1>21, StealFacts DEF CleanQueueInv
  <2>1. PICK new \in Nat :
          /\ new = Len(sent_times') /\ Len(sent_times) = new + 1
          /\ \A i \in 1 .. new : sent_times'[i] = sent_times[i + 1]
          /\ sent_times' = <<>> <=> new = 0
    BY <1>21, <1>0, StealFacts DEF Numbers
  <2>2. written' = written /\ Len_' = Len_ /\ wpc' = wpc /\ sent_times # <<>>
    BY <1>21, StealFacts DEF Len_
  <2>3. \A i \in 1 .. new - 1 : sent_times'[i + 1] = sent_times'[i] + Len_
    <3> TAKE i \in 1 .. new - 1
    <3>1. /\ i \in 1 .. new /\ i + 1 \in 1 .. new
          /\ i + 1 \in 1 .. Len(sent_times) - 1
      BY <2>1
    <3>2. sent_times'[i] = sent_times[i + 1] /\ sent_times'[i + 1] = sent_times[i + 1 + 1]
      BY <2>1, <3>1
    <3> QED
      BY <3>1, <3>2 DEF CleanQueueInv
  <2>4. sent_times' # <<>> => Newest' = Newest
    <3>1. sent_times' # <<>> => new \in 1 .. new
      BY <2>1
    <3> QED
      BY <2>1, <3>1 DEF Newest
  <2> QED
    BY <2>1, <2>2, <2>3, <2>4 DEF CleanQueueInv
<1>22. CASE StealMisses
  BY <1>22, <1>0 DEF StealMisses, benchVars, frozen, wire, writerVars, Numbers,
     QueueShape, CleanQueueInv, Newest, Len_
<1>23. CASE RecordRequest
  BY <1>23, <1>0 DEF RecordRequest, frozen, wire, writerVars, Numbers, QueueShape,
     CleanQueueInv, Newest, Len_
<1>24. CASE RecordLatency
  BY <1>24, <1>0 DEF RecordLatency, frozen, wire, writerVars, Numbers, QueueShape,
     CleanQueueInv, Newest, Len_
<1>25. CASE ReadEnds
  BY <1>25, <1>0 DEF ReadEnds, ReadFails, frozen, wire, writerVars, Len_, Numbers,
     QueueShape, CleanQueueInv, Newest
<1>26. CASE CtrlC
  BY <1>26, <1>0 DEF CtrlC, benchVars, frozen, wire, writerVars, Numbers,
     QueueShape, CleanQueueInv, Newest, Len_
<1>27. CASE Expire
  BY <1>27, <1>0 DEF Expire, benchVars, frozen, wire, readerVars, MainLoop, Numbers,
     QueueShape, CleanQueueInv, Newest, Len_
<1>28. CASE ServerEcho
  BY <1>28, <1>0, EchoFacts DEF Numbers, QueueShape, CleanQueueInv, Newest, Len_
<1>29. CASE ServerReads
  BY <1>29, <1>0 DEF ServerReads, ServerUnchanged, benchVars, frozen, readerVars,
     Numbers, QueueShape, CleanQueueInv, Newest, Len_
<1>30. CASE ServerChats
  BY <1>30, <1>0 DEF ServerChats, ServerUnchanged, benchVars, frozen, readerVars,
     Numbers, QueueShape, CleanQueueInv, Newest, Len_
<1>31. CASE ServerCloses
  BY <1>31, <1>0 DEF ServerCloses, ServerUnchanged, benchVars, frozen, readerVars,
     Numbers, QueueShape, CleanQueueInv, Newest, Len_
<1>32. CASE ServerQuits
  BY <1>32, <1>0 DEF ServerQuits, ServerUnchanged, benchVars, frozen, readerVars,
     Numbers, QueueShape, CleanQueueInv, Newest, Len_
<1>33. CASE ServerRefuses
  BY <1>33, <1>0 DEF ServerRefuses, ServerUnchanged, benchVars, frozen, readerVars,
     Numbers, QueueShape, CleanQueueInv, Newest, Len_
<1>34. CASE MainStep /\ MainUnchanged
  BY <1>34, <1>0 DEF MainStep, MainUnchanged, end_warmup, set_shutting_down,
     NotifyShutdown, frozen, writerVars, readerVars, wire, Numbers, QueueShape,
     CleanQueueInv, Newest, Len_
<1>35. CASE UNCHANGED vars
  BY <1>35, <1>0 DEF vars, frozen, wire, benchVars, Numbers, QueueShape,
     CleanQueueInv, Newest, Len_
<1> QED
  BY <1>1, <1>2, <1>3, <1>4, <1>5, <1>6, <1>7, <1>8, <1>9, <1>9a, <1>10, <1>11, <1>12,
     <1>13, <1>14, <1>15, <1>16, <1>17, <1>18, <1>19, <1>20, <1>21, <1>22, <1>23,
     <1>24, <1>25, <1>26, <1>27, <1>28, <1>29, <1>30, <1>31, <1>32, <1>33, <1>34,
     <1>35 DEF Next, WriterStep, ReaderStep, Environment

\* Every step keeps the count exact, or is not clean.
LEMMA CleanNext ==
  ASSUME Types, ControlInv, QueueInv, FirstInv, FlowInv, CleanQueueInv, CleanInv, [Next]_vars
  PROVE  CleanInv'
<1>0. Numbers /\ QueueShape /\ FirstShape
  BY TypeFacts
<1>1. CASE Begin
  BY <1>1, <1>0 DEF Begin, frozen, wire, readerVars, Numbers, CleanInv, Owed, Len_
<1>2. CASE Connect
  BY <1>2, <1>0 DEF Connect, FirstStop, benchVars, frozen, wire, readerVars,
     Numbers, CleanInv, Owed, Len_
<1>3. CASE ConnectFails
  BY <1>3, <1>0 DEF ConnectFails, GiveUp, frozen, readerVars, DropStream, Numbers,
     CleanInv, Owed, Len_
<1>4. CASE SetNodelay
  BY <1>4, <1>0 DEF SetNodelay, FirstStop, benchVars, frozen, wire, readerVars,
     Numbers, CleanInv, Owed, Len_
<1>5. CASE SetNodelayFails
  BY <1>5, <1>0 DEF SetNodelayFails, DropStream, benchVars, frozen, readerVars,
     Numbers, CleanInv, Owed, Len_
<1>6. CASE FirstWrite
  <2>1. rpc' = "off" /\ rpc = "off" /\ ~fin
    BY <1>6, FirstWriteFacts DEF ControlInv, SetUp
  <2>2. UNCHANGED <<server, rst, eof, clean>>
    BY <1>6, FirstWriteFacts
  <2> QED
    BY <2>1, <2>2 DEF CleanInv
<1>7. CASE FirstWriteFails
  BY <1>7, <1>0 DEF FirstWriteFails, GiveUp, frozen, readerVars, DropStream,
     Numbers, CleanInv, Owed, Len_
<1>8. CASE FirstReadFill
  <2>1. rpc' = "off" /\ rpc = "off" /\ ~fin
    BY <1>8, <1>0, FirstReadFillFacts DEF ControlInv, SetUp, FirstReadFill
  <2>2. UNCHANGED <<server, rst, eof, clean>>
    BY <1>8, <1>0, FirstReadFillFacts
  <2> QED
    BY <2>1, <2>2 DEF CleanInv
<1>9. CASE FirstReadCompletes
  <2>1. rpc' = "off" /\ rpc = "off" /\ ~fin
    BY <1>9 DEF FirstReadCompletes, frozen, wire, readerVars, ControlInv, SetUp
  <2>2. UNCHANGED <<server, rst, eof, clean>>
    BY <1>9 DEF FirstReadCompletes, frozen, wire, readerVars
  <2> QED
    BY <2>1, <2>2 DEF CleanInv
<1>9a. CASE FirstRequest
  <2>1. rpc' = "off" /\ rpc = "off" /\ ~fin
    BY <1>9a DEF FirstRequest, frozen, wire, readerVars, ControlInv, SetUp
  <2>2. UNCHANGED <<server, rst, eof, clean>>
    BY <1>9a DEF FirstRequest, frozen, wire, readerVars
  <2> QED
    BY <2>1, <2>2 DEF CleanInv
<1>10. CASE FirstReadFails
  BY <1>10, <1>0 DEF FirstReadFails, GiveUp, ReadFails, frozen, readerVars,
     DropStream, Numbers, CleanInv, Owed, Len_
<1>11. CASE Spawn
  <2>1. clean /\ server.echo => c2s = 0 /\ s2c = 0 /\ got = 0
    BY <1>11 DEF Spawn, FirstInv, Faithful, SetUp
  <2>2. written = 0 /\ consumed = 0 /\ sent_times = <<>> /\ ~fin
    BY <1>11 DEF Spawn, ControlInv, SetUp
  <2>3. /\ rpc' = "read" /\ wpc' # "write"
        /\ UNCHANGED <<server, clean, rst, eof, fin, c2s, s2c, got, consumed, written,
                        sent_times>>
    BY <1>11 DEF Spawn, benchVars, frozen, wire, Len_
  <2> QED
    BY <2>1, <2>2, <2>3 DEF CleanInv, Owed
<1>12. CASE LifetimeEnds
  BY <1>12, <1>0 DEF LifetimeEnds, DropWriter, benchVars, frozen, readerVars,
     Numbers, CleanInv, Owed, Len_
<1>13. CASE ShutdownEnds
  BY <1>13, <1>0 DEF ShutdownEnds, DropWriter, benchVars, frozen, readerVars,
     MainLoop, Numbers, CleanInv, Owed, Len_
<1>14. CASE PushSentTime
  <2>1. UNCHANGED <<config, server, clean, rst, eof, fin, rpc, c2s, s2c, got, consumed,
                    written, sent_time>>
    BY <1>14, PushFacts
  <2>2. sent_times' # <<>> /\ Owed' = Owed /\ Len_' = Len_
    BY <1>14, <2>1, PushFacts DEF Owed, Len_
  <2>3. CASE sent_times = <<>>
    <3>1. sent_times'[1] = written
      <4>1. Len(sent_times) = 0
        BY <1>0, <2>3 DEF QueueShape
      <4> QED
        BY <1>14, <4>1, PushFacts
    <3> QED
      BY <2>1, <2>2, <2>3, <3>1 DEF CleanInv
  <2>4. CASE sent_times # <<>>
    <3>1. sent_times'[1] = sent_times[1]
      <4>1. 1 \in 1 .. Len(sent_times)
        BY <1>0, <2>4 DEF QueueShape, Numbers
      <4> QED
        BY <1>14, <4>1, PushFacts
    <3> QED
      BY <2>1, <2>2, <2>4, <3>1 DEF CleanInv
  <2> QED
    BY <2>3, <2>4
<1>15. CASE Write
  <2>1. /\ wpc = "write"
        /\ UNCHANGED <<config, server, rpc, sent_times, s2c, got, fin, eof, rst, consumed,
                        sent_time>>
    BY <1>15, <1>0, WriteFacts
  <2>2. \/ clean' = FALSE
        \/ clean' = clean /\ c2s' = c2s + Len_ /\ written' = written + Len_
    BY <1>15, <1>0, WriteFacts
  <2>3. CASE clean' = FALSE
    BY <2>3 DEF CleanInv
  <2>4. CASE clean' = clean /\ c2s' = c2s + Len_ /\ written' = written + Len_
    <3> SUFFICES ASSUME clean, server.echo PROVE CleanInv'
      BY <2>1, <2>4 DEF CleanInv
    <3>1. ~fin /\ rpc # "off"
      BY <2>1 DEF ControlInv, SetUp
    <3>2. /\ ~rst /\ ~eof /\ rpc # "done"
          /\ consumed + (c2s + (s2c + got)) = written
          /\ sent_times # <<>> => sent_times[1] + Owed = consumed
          /\ rpc \in {"request", "latency"} => sent_time + Len_ = consumed
      BY <3>1 DEF CleanInv
    <3>3. sent_times # <<>>
      BY <2>1, <3>1 DEF FlowInv, Faithful
    <3>4. consumed' + (c2s' + (s2c' + got')) = written'
      BY <1>0, <2>1, <2>4, <3>2 DEF Numbers
    <3>5. Owed' = Owed /\ Len_' = Len_
      BY <2>1 DEF Owed, Len_
    <3> QED
      BY <2>1, <3>1, <3>2, <3>3, <3>4, <3>5 DEF CleanInv
  <2> QED
    BY <2>2, <2>3, <2>4
<1>16. CASE WriteFails
  BY <1>16, <1>0 DEF WriteFails, frozen, wire, readerVars, Numbers, CleanInv, Owed,
     Len_
<1>17. CASE Pace
  BY <1>17, <1>0 DEF Pace, benchVars, frozen, wire, readerVars, Numbers, CleanInv,
     Owed, Len_
<1>18. CASE Join
  BY <1>18, <1>0 DEF Join, frozen, wire, readerVars, Numbers, CleanInv, Owed, Len_
<1>19. CASE ReadFill
  <2>1. PICK n \in Nat : n <= s2c /\ s2c' = s2c - n /\ got' = got + n
    BY <1>19, <1>0, ReadFillFacts
  <2>2. /\ rpc = "read"
        /\ UNCHANGED <<config, server, rpc, sent_times, c2s, fin, eof, rst, written,
                        consumed, clean>>
    BY <1>19, <1>0, ReadFillFacts
  <2> SUFFICES ASSUME clean, server.echo PROVE CleanInv'
    BY <2>2 DEF CleanInv
  <2>3. consumed' + (c2s' + (s2c' + got')) = written'
    BY <1>0, <2>1, <2>2 DEF CleanInv, Numbers
  <2>4. Owed' = Owed
    BY <2>2 DEF Owed
  <2> QED
    BY <2>2, <2>3, <2>4 DEF CleanInv
<1>20. CASE ReadCompletes
  <2>1. /\ rpc = "read" /\ rpc' = "steal" /\ got = Len_ /\ got' = 0
        /\ consumed' = consumed + Len_
        /\ UNCHANGED <<config, server, sent_times, c2s, s2c, fin, eof, rst, written, clean>>
    BY <1>20 DEF ReadCompletes, benchVars, frozen, wire, writerVars, Len_
  <2> SUFFICES ASSUME clean, server.echo PROVE CleanInv'
    BY <2>1 DEF CleanInv
  <2>2. Owed = 0 /\ Owed' = Len_
    BY <2>1 DEF Owed, Len_
  <2>3. /\ consumed + (c2s + (s2c + got)) = written
        /\ sent_times # <<>> => sent_times[1] + 0 = consumed
        /\ sent_times = <<>> => written + 0 = consumed
    BY <2>1, <2>2 DEF CleanInv
  <2>4. consumed' + (c2s' + (s2c' + got')) = written'
    BY <1>0, <2>1, <2>3 DEF Numbers
  <2>5. sent_times # <<>> => sent_times[1] + Len_ = consumed + Len_
    <3>1. sent_times # <<>> => sent_times[1] \in Nat
      BY <1>0 DEF QueueShape, Numbers
    <3> QED
      BY <2>3, <3>1
  <2>6. sent_times = <<>> => written + Len_ = consumed + Len_
    BY <1>0, <2>3 DEF Numbers
  <2> QED
    BY <2>1, <2>2, <2>4, <2>5, <2>6 DEF CleanInv
<1>21. CASE Steal
  <2>1. /\ rpc = "steal" /\ rpc' = "request" /\ sent_times # <<>>
        /\ sent_time' = sent_times[1] /\ Len(sent_times') = Len(sent_times) - 1
        /\ \A i \in 1 .. Len(sent_times) - 1 : sent_times'[i] = sent_times[i + 1]
        /\ sent_times' = <<>> <=> Len(sent_times) = 1
        /\ UNCHANGED <<config, server, c2s, s2c, got, fin, eof, rst, written, consumed,
                        clean>>
    BY <1>21, StealFacts
  <2> SUFFICES ASSUME clean, server.echo PROVE CleanInv'
    BY <2>1 DEF CleanInv
  <2>2. Len(sent_times) \in Nat \ {0} /\ sent_times[1] \in Nat
    BY <1>0, <2>1 DEF Numbers, QueueShape
  <2>3. Len_' = Len_ /\ Owed = Len_ /\ Owed' = 0
    BY <2>1 DEF Len_, Owed
  <2>4. /\ sent_times[1] + Len_ = consumed
        /\ consumed + (c2s + (s2c + got)) = written
    BY <2>1, <2>3 DEF CleanInv
  <2>5. sent_times' # <<>> => sent_times'[1] + 0 = consumed
    <3>1. sent_times' # <<>> =>
            /\ 1 \in 1 .. Len(sent_times) - 1
            /\ 2 \in 1 .. Len(sent_times)
      BY <2>1, <2>2
    <3>2. sent_times' # <<>> =>
            /\ sent_times'[1] = sent_times[2] /\ sent_times[2] \in Nat
            /\ sent_times[2] = sent_times[1] + Len_
      BY <1>0, <2>1, <3>1 DEF QueueShape, CleanQueueInv
    <3> QED
      BY <2>4, <3>2
  <2>6. sent_times' = <<>> => written + 0 = consumed
    <3>1. sent_times' = <<>> => written \in {sent_times[1], sent_times[1] + Len_}
      BY <2>1 DEF CleanQueueInv, Newest
    <3> QED
      BY <1>0, <2>2, <2>4, <3>1 DEF Numbers
  <2>7. sent_time' + Len_' = consumed'
    BY <2>1, <2>3, <2>4
  <2>8. consumed' + (c2s' + (s2c' + got')) = written'
    BY <2>1, <2>4
  <2> QED
    BY <2>1, <2>3, <2>5, <2>6, <2>7, <2>8 DEF CleanInv
<1>22. CASE StealMisses
  BY <1>22, <1>0 DEF StealMisses, benchVars, frozen, wire, writerVars, Numbers,
     CleanInv, Owed, Len_
<1>23. CASE RecordRequest
  BY <1>23, <1>0 DEF RecordRequest, frozen, wire, writerVars, Numbers, CleanInv,
     Owed, Len_
<1>24. CASE RecordLatency
  BY <1>24, <1>0 DEF RecordLatency, frozen, wire, writerVars, Numbers, CleanInv,
     Owed, Len_
<1>25. CASE ReadEnds
  <2>1. /\ rpc = "read" /\ rpc' = "done" /\ got < Len_
        /\ rst \/ (eof /\ s2c = 0)
        /\ UNCHANGED <<config, server, sent_times, c2s, s2c, got, fin, eof, rst, written,
                        consumed, clean>>
    BY <1>25 DEF ReadEnds, ReadFails, frozen, wire, writerVars, Len_
  <2> SUFFICES ASSUME clean, server.echo PROVE CleanInv'
    BY <2>1 DEF CleanInv
  <2>2. Owed = 0 /\ Owed' = 0
    BY <2>1 DEF Owed
  <2>3. /\ ~rst /\ eof /\ fin /\ c2s = 0 /\ s2c = 0
        /\ consumed + (c2s + (s2c + got)) = written
        /\ sent_times # <<>> => sent_times[1] + 0 = consumed
        /\ sent_times = <<>> => written + 0 = consumed
    BY <2>1, <2>2 DEF CleanInv
  <2>4. consumed + got = written
    BY <1>0, <2>3 DEF Numbers
  <2>5. CASE sent_times = <<>>
    <3>1. consumed = written
      BY <1>0, <2>3, <2>5 DEF Numbers
    <3> QED
      BY <2>1, <2>2, <2>3, <3>1 DEF CleanInv
  <2>6. CASE Len(sent_times) = 1
    <3>1. sent_times # <<>> /\ sent_times[1] \in Nat
      BY <1>0, <2>6 DEF QueueShape
    <3>2. written \in {sent_times[1], sent_times[1] + Len_}
      BY <2>6, <3>1 DEF CleanQueueInv, Newest
    <3>3. consumed = written
      BY <1>0, <2>1, <2>3, <2>4, <3>1, <3>2 DEF Numbers
    <3> QED
      BY <2>1, <2>2, <2>3, <3>1, <3>3 DEF CleanInv
  <2>7. CASE Len(sent_times) >= 2
    <3>1. sent_times # <<>> /\ sent_times[1] \in Nat /\ sent_times[2] \in Nat
      BY <1>0, <2>7 DEF QueueShape, Numbers
    <3>2. 1 \in 1 .. Len(sent_times) - 1 /\ 2 \in 1 .. Len(sent_times)
      BY <1>0, <2>7 DEF Numbers
    <3>3. sent_times[2] = sent_times[1] + Len_ /\ sent_times[2] <= written
      BY <3>2 DEF CleanQueueInv, QueueInv
    <3> QED
      BY <1>0, <2>1, <2>3, <2>4, <3>1, <3>3 DEF Numbers
  <2>8. Len(sent_times) = 0 \/ Len(sent_times) = 1 \/ Len(sent_times) >= 2
    <3>1. Len(sent_times) \in Nat
      BY <1>0 DEF Numbers
    <3>2. \A n \in Nat : n = 0 \/ n = 1 \/ n >= 2
      OBVIOUS
    <3> QED
      BY <3>1, <3>2
  <2>9. sent_times = <<>> <=> Len(sent_times) = 0
    BY <1>0 DEF QueueShape
  <2> QED
    BY <2>5, <2>6, <2>7, <2>8, <2>9
<1>26. CASE CtrlC
  BY <1>26, <1>0 DEF CtrlC, benchVars, frozen, wire, writerVars, Numbers, CleanInv,
     Owed, Len_
<1>27. CASE Expire
  BY <1>27, <1>0 DEF Expire, benchVars, frozen, wire, readerVars, MainLoop, Numbers,
     CleanInv, Owed, Len_
<1>28. CASE ServerEcho
  <2>1. PICK n \in Nat : n <= c2s /\ c2s' = c2s - n /\ s2c' = s2c + n
    BY <1>28, <1>0, EchoFacts
  <2>2. /\ ~eof
        /\ UNCHANGED <<config, server, rpc, sent_times, got, fin, eof, rst, written,
                        sent_time, consumed, clean>>
    BY <1>28, <1>0, EchoFacts
  <2> SUFFICES ASSUME clean, server.echo PROVE CleanInv'
    BY <2>2 DEF CleanInv
  <2>3. rpc # "off" => consumed' + (c2s' + (s2c' + got')) = written'
    BY <1>0, <2>1, <2>2 DEF CleanInv, Numbers
  <2>4. Owed' = Owed /\ Len_' = Len_
    BY <2>2 DEF Owed, Len_
  <2> QED
    BY <2>2, <2>3, <2>4 DEF CleanInv
<1>29. CASE ServerReads
  BY <1>29, <1>0 DEF ServerReads, ServerUnchanged, benchVars, frozen, readerVars,
     Numbers, CleanInv, Owed, Len_
<1>30. CASE ServerChats
  BY <1>30, <1>0 DEF ServerChats, ServerUnchanged, benchVars, frozen, readerVars,
     Numbers, CleanInv, Owed, Len_
<1>31. CASE ServerCloses
  BY <1>31, <1>0 DEF ServerCloses, ServerUnchanged, benchVars, frozen, readerVars,
     Numbers, CleanInv, Owed, Len_
<1>32. CASE ServerQuits
  BY <1>32, <1>0 DEF ServerQuits, ServerUnchanged, benchVars, frozen, readerVars,
     Numbers, CleanInv, Owed, Len_
<1>33. CASE ServerRefuses
  BY <1>33, <1>0 DEF ServerRefuses, ServerUnchanged, benchVars, frozen, readerVars,
     Numbers, CleanInv, Owed, Len_
<1>34. CASE MainStep /\ MainUnchanged
  BY <1>34, <1>0 DEF MainStep, MainUnchanged, end_warmup, set_shutting_down,
     NotifyShutdown, frozen, writerVars, readerVars, wire, Numbers, CleanInv, Owed,
     Len_
<1>35. CASE UNCHANGED vars
  BY <1>35, <1>0 DEF vars, frozen, wire, benchVars, Numbers, CleanInv, Owed, Len_
<1> QED
  BY <1>1, <1>2, <1>3, <1>4, <1>5, <1>6, <1>7, <1>8, <1>9, <1>9a, <1>10, <1>11, <1>12,
     <1>13, <1>14, <1>15, <1>16, <1>17, <1>18, <1>19, <1>20, <1>21, <1>22, <1>23,
     <1>24, <1>25, <1>26, <1>27, <1>28, <1>29, <1>30, <1>31, <1>32, <1>33, <1>34,
     <1>35 DEF Next, WriterStep, ReaderStep, Environment

-----------------------------------------------------------------------------
(***************************************************************************)
(* The invariants hold of the specification, and so do the properties.     *)
(***************************************************************************)
IInv ==
  /\ Types /\ ControlInv /\ BufferInv /\ RequestInv /\ AnswersInv /\ QueueInv
  /\ FirstInv /\ FlowInv /\ CleanQueueInv /\ CleanInv

\* The inductive invariant holds at the start.
LEMMA InductiveInit == Init => IInv
<1> SUFFICES ASSUME Init PROVE IInv
  OBVIOUS
<1>1. Types
  BY TypeInit
<1>2. Numbers
  BY <1>1, TypeFacts
<1>3. wpc = "start" /\ rpc = "off" /\ sent_times = <<>> /\ Len(sent_times) = 0
  BY DEF Init
<1>4. ControlInv
  BY DEF Init, ControlInv, SetUp
<1>5. RequestInv
  <2>1. total_requests = 0 /\ pushed = 0
    BY DEF Init, BenchInit
  <2> QED
    BY <1>3, <2>1 DEF RequestInv, FirstRequests, SetUp
<1>6. QueueInv
  BY <1>3 DEF QueueInv
<1>7. FirstInv
  BY <1>3 DEF Init, FirstInv
<1>8. FlowInv
  BY <1>3 DEF FlowInv
<1>9. CleanQueueInv
  BY <1>3 DEF CleanQueueInv
<1>10. CleanInv
  BY <1>3 DEF Init, CleanInv
<1>11. BufferInv
  BY DEF Init, BufferInv, ReadWithinBuffer
<1>12. AnswersInv
  BY <1>3 DEF AnswersInv
<1> QED
  BY <1>1, <1>4, <1>5, <1>6, <1>7, <1>8, <1>9, <1>10, <1>11, <1>12 DEF IInv

\* Every step keeps the inductive invariant.
LEMMA InductiveNext == IInv /\ [Next]_vars => IInv'
BY TypeNext, ControlNext, BufferNext, RequestNext, AnswersNext, QueueNext, FirstNext,
   FlowNext, CleanQueueNext, CleanNext DEF IInv

\* Every behaviour of the pipeline worker satisfies the inductive invariant.
THEOREM Inductive == Spec => []IInv
<1> QED
  BY InductiveInit, InductiveNext, PTL DEF Spec

\* Every variable keeps its type, and no read goes past the end of the buffer it was
\* given, in the first exchange or later.
THEOREM TypeCorrect == Spec => []TypeOK
<1>1. IInv => TypeOK
  BY DEF IInv, BufferInv, TypeOK
<1> QED
  BY Inductive, <1>1, PTL

\* At an echo server a complete answer always finds a send time in the queue, and
\* one that was taken before the message it answers was written: no reordering of
\* the two tasks, short write, failed write or missed steal makes a latency come
\* out too small.  This holds for every message length, window and first message.
THEOREM PairingCorrect == Spec => []AnswerPairedWithEarlierSend
<1>1. IInv => AnswerPairedWithEarlierSend
  <2> SUFFICES ASSUME IInv, EchoServer, Len_ > 0
               PROVE  /\ rpc = "steal" => sent_times # <<>>
                      /\ rpc \in {"request", "latency"} => sent_time + Len_ <= consumed
    BY DEF AnswerPairedWithEarlierSend
  <2>1. Numbers
    BY TypeFacts DEF IInv
  <2>2. Faithful /\ FlowInv
    BY DEF IInv, EchoServer, Faithful
  <2>3. ASSUME rpc = "steal", sent_times = <<>> PROVE FALSE
    <3>1. /\ consumed + (c2s + (s2c + got)) <= written
          /\ written + Len_ <= consumed
      BY <2>2, <2>3 DEF FlowInv, Owed
    <3> QED
      BY <2>1, <3>1 DEF Numbers
  <2> QED
    BY <2>2, <2>3 DEF FlowInv
<1> QED
  BY Inductive, <1>1, PTL

\* However the benchmark is stopped, the worker counts no more answered requests than
\* it has begun rounds, whatever the server says; and at an echo server the bytes the
\* kernel has accepted of the messages cover all of them.
THEOREM RequestsCorrect == Spec => []RequestsAccountedFor
<1>1. IInv => RequestsAccountedFor
  <2> SUFFICES ASSUME IInv PROVE RequestsAccountedFor
    OBVIOUS
  <2>1. Numbers /\ QueueShape /\ FirstRequests \in Nat
    BY TypeFacts DEF IInv, FirstRequests
  <2>2. total_requests + Len(sent_times) <= pushed + FirstRequests
    BY DEF IInv, RequestInv
  <2>3. total_requests <= pushed + FirstRequests
    BY <2>1, <2>2 DEF Numbers
  <2>4. ASSUME EchoServer
        PROVE  Bytes(total_requests, Len_) <= written + Bytes(FirstRequests, Len_)
    <3>1. /\ Bytes(total_requests, Len_) \in Nat /\ Bytes(FirstRequests, Len_) \in Nat
          /\ Bytes(0, Len_) = 0
      BY <2>1, ByteFacts DEF Numbers
    <3>2. CASE rpc = "off"
      <4>1. total_requests <= FirstRequests
        BY <2>1, <2>2, <3>2 DEF IInv, ControlInv, Numbers, QueueShape
      <4>2. total_requests = FirstRequests \/ total_requests = 0
        BY <2>1, <4>1 DEF Numbers, FirstRequests
      <4> QED
        BY <2>1, <3>1, <4>2 DEF Numbers
    <3>3. CASE rpc # "off"
      <4>1. Faithful
        BY <2>4 DEF EchoServer, Faithful
      <4>2. consumed + (c2s + (s2c + got)) <= written
        BY <3>3, <4>1 DEF IInv, FlowInv
      <4>3. Bytes(total_requests, Len_) + Uncounted <= consumed + Bytes(FirstRequests, Len_)
        BY <3>3 DEF IInv, AnswersInv
      <4>4. Uncounted \in Nat
        BY <2>1 DEF Uncounted, Numbers
      <4> QED
        BY <2>1, <3>1, <4>2, <4>3, <4>4 DEF Numbers
    <3> QED
      BY <3>2, <3>3
  <2> QED
    BY <2>3, <2>4 DEF RequestsAccountedFor, Bytes
<1> QED
  BY Inductive, <1>1, PTL

\* Until something goes wrong the time an answer is given is the very time taken
\* before its own message, however the two tasks interleave.
THEOREM ExactPairingCorrect == Spec => []PairingExactWhileClean
<1>1. IInv => PairingExactWhileClean
  BY DEF IInv, CleanInv, EchoServer, PairingExactWhileClean
<1> QED
  BY Inductive, <1>1, PTL

\* A connection that ends normally at an echo server has had every message it sent
\* answered: closing the writer's half loses nothing.
THEOREM DrainCorrect == Spec => []GracefulDrain
<1>1. IInv => GracefulDrain
  BY DEF IInv, ControlInv, CleanInv, GracefulDrain
<1> QED
  BY Inductive, <1>1, PTL

-----------------------------------------------------------------------------
(***************************************************************************)
(* The refinement of Connection.                                           *)
(***************************************************************************)

\* What Connection knows of the counters.
Counters == <<total_connections, success_connections, connection_errors, total_requests>>

\* A step that stays on one side of the beginning and the end, and touches no counter
\* but the histogram, is none of Connection's business.
LEMMA Stutter ==
  ASSUME UNCHANGED Counters, ConnOf("c")' = ConnOf("c")
  PROVE  UNCHANGED Conn!connVars
BY DEF Counters, Conn!connVars

\* While the reader runs the connection is open, so that what the reader counts
\* is counted before the end.
LEMMA ReaderWithinLife ==
  ASSUME Types, ControlInv, rpc \notin {"off", "done"}
  PROVE  ConnOf("c") = "open"
BY DEF Types, WriterStates, ControlInv, SetUp, ConnOf, WorkerEnded, EndStates

\* The worker's own steps.
LEMMA WriterRefines ==
  ASSUME Types, ControlInv, WriterStep
  PROVE  Conn!Next \/ UNCHANGED Conn!connVars
<1> USE DEF benchVars, Counters, ConnOf, WorkerEnded, EndStates
<1>1. CASE Begin
  <2>1. ConnOf("c") = "waiting" /\ ConnOf("c")' = "open"
    BY <1>1 DEF Begin
  <2>2. Conn!Begin("c")
    BY <1>1, <2>1 DEF Begin, Conn!Begin
  <2> QED
    BY <2>2 DEF Conn!Next, Conn!ConnStep
<1>2. ASSUME GiveUp, wpc \in {"connect", "first_write", "first_read"},
             UNCHANGED <<total_connections, success_connections, total_requests>>
      PROVE  Conn!Next
  <2>1. ConnOf("c") = "open" /\ ConnOf("c")' = "failed"
    BY <1>2 DEF GiveUp
  <2>2. Conn!GiveUp("c")
    BY <1>2, <2>1 DEF GiveUp, record_connection_error, Conn!GiveUp
  <2> QED
    BY <2>2 DEF Conn!Next, Conn!ConnStep
<1>3. CASE ConnectFails \/ FirstWriteFails \/ FirstReadFails
  BY <1>2, <1>3 DEF ConnectFails, FirstWriteFails, FirstReadFails
<1>4. CASE FirstWrite
  <2>1. CASE GiveUp
    BY <1>2, <1>4, <2>1 DEF FirstWrite
  <2>2. CASE wpc' = "first_read" /\ UNCHANGED connection_errors
    BY <1>4, <2>2, Stutter DEF FirstWrite
  <2> QED
    BY <1>4, <2>1, <2>2 DEF FirstWrite
<1>5. CASE SetNodelayFails
  <2>1. ConnOf("c") = "open" /\ ConnOf("c")' = "aborted"
    BY <1>5 DEF SetNodelayFails
  <2>2. Conn!Abort("c")
    BY <1>5, <2>1 DEF SetNodelayFails, Conn!Abort
  <2> QED
    BY <2>2 DEF Conn!Next, Conn!ConnStep
<1>6. CASE Join
  <2>1. ConnOf("c") = "open" /\ ConnOf("c")' = "closed"
    BY <1>6 DEF Join
  <2>2. Conn!Finish("c")
    BY <1>6, <2>1 DEF Join, Conn!Finish
  <2> QED
    BY <2>2 DEF Conn!Next, Conn!ConnStep
<1>7. CASE FirstRequest
  <2>1. ConnOf("c") = "open" /\ ConnOf("c")' = "open"
    BY <1>7 DEF FirstRequest
  <2>2. CASE total_requests' = total_requests
    BY <1>7, <2>1, <2>2, Stutter DEF FirstRequest
  <2>3. CASE total_requests' = total_requests + 1
    <3>1. Conn!Answer("c")
      BY <1>7, <2>1, <2>3 DEF FirstRequest, Conn!Answer
    <3> QED
      BY <3>1 DEF Conn!Next, Conn!ConnStep
  <2> QED
    BY <1>7, <2>2, <2>3 DEF FirstRequest, record_request
<1>8. ASSUME record_connection_error, wpc = "write", wpc' = "loop",
             UNCHANGED <<total_connections, success_connections, total_requests>>
      PROVE  Conn!Next
  <2>1. Conn!Fault("c")
    BY <1>8 DEF record_connection_error, Conn!Fault
  <2> QED
    BY <2>1 DEF Conn!Next, Conn!ConnStep
<1>9. CASE Write
  <2>1. CASE record_connection_error /\ wpc' = "loop"
    BY <1>8, <1>9, <2>1 DEF Write
  <2>2. CASE wpc' = "pace" /\ UNCHANGED connection_errors
    BY <1>9, <2>2, Stutter DEF Write
  <2> QED
    BY <1>9, <2>1, <2>2 DEF Write
<1>10. CASE WriteFails
  BY <1>8, <1>10 DEF WriteFails
<1>11. CASE Connect \/ SetNodelay \/ FirstReadFill \/ FirstReadCompletes \/ Spawn
  BY <1>11, Stutter DEF Connect, SetNodelay, FirstReadFill, FirstReadCompletes, Spawn,
     FirstStop
<1>12. CASE LifetimeEnds \/ ShutdownEnds
  BY <1>12, Stutter DEF LifetimeEnds, ShutdownEnds, DropWriter, MainLoop
<1>13. CASE PushSentTime \/ Pace
  BY <1>13, Stutter DEF PushSentTime, Pace
<1> QED
  BY <1>1, <1>3, <1>4, <1>5, <1>6, <1>7, <1>9, <1>10, <1>11, <1>12, <1>13 DEF WriterStep

\* The reader's steps; it runs only within the life of the connection.
LEMMA ReaderRefines ==
  ASSUME Types, ControlInv, ReaderStep
  PROVE  Conn!Next \/ UNCHANGED Conn!connVars
<1>0. ConnOf("c") = "open" /\ ConnOf("c")' = "open"
  <2>1. rpc \notin {"off", "done"} /\ UNCHANGED wpc
    BY DEF ReaderStep, ReadFill, ReadCompletes, Steal, StealMisses, RecordRequest,
           RecordLatency, ReadEnds, writerVars
  <2> QED
    BY <2>1, ReaderWithinLife DEF ConnOf, WorkerEnded
<1> USE DEF benchVars, Counters
<1>1. CASE ReadFill \/ ReadCompletes \/ Steal \/ StealMisses \/ RecordLatency
  BY <1>0, <1>1, Stutter DEF ReadFill, ReadCompletes, Steal, StealMisses, RecordLatency
<1>2. CASE RecordRequest
  <2>1. CASE total_requests' = total_requests
    BY <1>0, <1>2, <2>1, Stutter DEF RecordRequest
  <2>2. CASE total_requests' = total_requests + 1
    <3>1. Conn!Answer("c")
      BY <1>0, <1>2, <2>2 DEF RecordRequest, Conn!Answer
    <3> QED
      BY <3>1 DEF Conn!Next, Conn!ConnStep
  <2> QED
    BY <1>2, <2>1, <2>2 DEF RecordRequest, record_request
<1>3. CASE ReadEnds
  <2>1. Conn!Fault("c")
    BY <1>0, <1>3 DEF ReadEnds, record_connection_error, Conn!Fault
  <2> QED
    BY <2>1 DEF Conn!Next, Conn!ConnStep
<1> QED
  BY <1>1, <1>2, <1>3 DEF ReaderStep

\* Every step of the two tasks and of the benchmark is one of Connection, or none.
LEMMA Refines == IInv /\ [Next]_vars => [Conn!Next]_Conn!connVars
<1> SUFFICES ASSUME IInv, [Next]_vars PROVE Conn!Next \/ UNCHANGED Conn!connVars
  OBVIOUS
<1> USE DEF IInv, benchVars, Counters, ConnOf, WorkerEnded
<1>1. CASE WriterStep
  BY <1>1, WriterRefines
<1>2. CASE ReaderStep
  BY <1>2, ReaderRefines
<1>3. CASE Environment
  BY <1>3, Stutter DEF Environment, CtrlC, Expire, ServerEcho, ServerReads, ServerChats,
     ServerCloses, ServerQuits, ServerRefuses, ServerUnchanged, writerVars
<1>4. CASE MainStep /\ MainUnchanged
  <2>1. ConnOf("c")' = ConnOf("c")
    BY <1>4 DEF MainUnchanged, writerVars
  <2>2. CASE end_warmup
    BY <2>1, <2>2 DEF end_warmup, Conn!Next, Conn!ResetRequests
  <2>3. CASE set_shutting_down \/ NotifyShutdown
    BY <2>1, <2>3, Stutter DEF set_shutting_down, NotifyShutdown
  <2> QED
    BY <1>4, <2>2, <2>3 DEF MainStep
<1>5. CASE UNCHANGED vars
  BY <1>5, Stutter DEF vars, writerVars
<1> QED
  BY <1>1, <1>2, <1>3, <1>4, <1>5 DEF Next

\* The worker and its reader together are a connection task as the runner knows it; in
\* particular the reader counts nothing after the worker has ended.
THEOREM ImplementsConnection == Spec => ConnectionSpec
<1>1. Init => Conn!Init
  BY DEF Init, BenchInit, Conn!Init, ConnOf, WorkerEnded, EndStates
<1>2. ConnectionSpec <=> Conn!Init /\ [][Conn!Next]_Conn!connVars
  BY DEF ConnectionSpec, Conn!Spec
<1> QED
  BY <1>1, <1>2, Refines, Inductive, PTL DEF Spec
=============================================================================
