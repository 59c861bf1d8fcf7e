----------------------------- MODULE TcpPipeline -----------------------------
(***************************************************************************)
(* One connection in TCP pipeline mode: tcp_worker_pipeline in             *)
(* src/src/tcp_worker.rs.  The writer task sends without waiting for       *)
(* answers; a reader task it spawns takes the answers off the same socket. *)
(* The only thing the two share is sent_times, a lock-free FIFO queue: the *)
(* writer pushes the time before each write, the reader steals one time    *)
(* per complete answer and records the difference as the latency.  Nothing *)
(* ties a stolen time to the message an answer belongs to; that the        *)
(* pairing is right is what this module is about.                          *)
(*                                                                         *)
(* Bytes are counted, not spelled out.  A clock reading is represented by  *)
(* the number of payload bytes the writer had handed to the kernel when it *)
(* was taken, so that "was the clock read before the message was sent?"    *)
(* is a comparison of two numbers.                                         *)
(*                                                                         *)
(* The wire and the server are external: the code only sees what write()   *)
(* accepts and what read_exact() returns.                                  *)
(***************************************************************************)
EXTENDS Bench, Sequences

CONSTANTS
  Configs,    \* the configurations to consider, records of ConfigType
  Servers,    \* the servers to consider, records of ServerType
  Window,     \* bytes a direction of the connection can buffer
  MaxSends,   \* bound: rounds of the send loop
  MaxBytes    \* bound: bytes a server may send in all

ConfigType ==
  [message_len      : Nat,             \* config.message.len()
   first_message    : SUBSET Nat,      \* length of the first message, if any
   zero_rate        : BOOLEAN,         \* message_rate == Some(0)
   channel_lifetime : BOOLEAN,         \* channel_lifetime is given
   nagle            : BOOLEAN]

ServerType ==
  [echo   : BOOLEAN,   \* sends back what it receives; otherwise it stays silent
   closes : BOOLEAN,   \* closes its side when the client has closed
   fails  : BOOLEAN,   \* may close or reset the connection at any time
   chatty : BOOLEAN,   \* may send bytes nobody asked for
   ctrl_c : BOOLEAN]   \* (not the server's) SIGINT may reach the process

ASSUME ConfigsAssumption ==
  /\ Configs \subseteq ConfigType
  /\ \A c \in Configs : \A m, n \in c.first_message : m = n
ASSUME ServersAssumption == Servers \subseteq ServerType
ASSUME WindowAssumption == Window \in Nat \ {0}
ASSUME BoundsAssumption == MaxSends \in Nat /\ MaxBytes \in Nat

VARIABLES
  config, server,   \* chosen once, never changed
  wpc,              \* where the worker's own task is
  rpc,              \* where the spawned reader task is
  expired,          \* Instant::now() >= end_time
  sent_times,       \* the queue between the two tasks
  sent_time,        \* reader: the time it has stolen
  counter,          \* reader: complete answers; only its rest modulo SampleEvery
                    \* is looked at, so that is what the variable holds
  got,              \* bytes read_exact has put into the current buffer
  c2s, s2c,         \* bytes under way to the server, and to the client
  fin, eof, rst,    \* client closed, server closed, connection reset
  pushed,           \* rounds of the send loop so far
  written,          \* history: payload bytes the kernel has accepted
  consumed,         \* history: payload bytes read in complete answers
  clean             \* history: nothing out of the ordinary has happened yet

wire == <<c2s, s2c, fin, eof, rst>>
vars == <<benchVars, config, server, wpc, rpc, expired, sent_times, sent_time,
          counter, got, wire, pushed, written, consumed, clean>>

\* What only the writer, and only the reader, touches besides wire and counters.
writerVars == <<wpc, pushed, written>>
readerVars == <<rpc, sent_time, counter, consumed>>
frozen == <<config, server>>

Len_ == config.message_len
Least(a, b) == IF a <= b THEN a ELSE b

(***************************************************************************)
(* The worker's task: "start" in the staggered delay before it runs,       *)
(* "connect", "nodelay" (set_nodelay), "first_write", "first_read" and     *)
(* "first_request" (the first message), "spawn", then "idle" (the wait     *)
(* loop of a worker that sends nothing) or the send loop "loop" ->         *)
(* "write" -> "pace", "join" (writer dropped, awaiting the reader) and one *)
(* of three ends.                                                          *)
(***************************************************************************)
WriterStates == {"start", "connect", "nodelay", "first_write", "first_read",
                 "first_request", "spawn", "idle", "loop", "write", "pace", "join",
                 "closed", "failed", "aborted"}
ReaderStates == {"off", "read", "steal", "request", "latency", "done"}
MainLoop == {"idle", "loop", "write", "pace"}
EndStates == {"closed", "failed", "aborted"}

WorkerEnded == wpc \in EndStates

Types ==
  /\ BenchTypeOK
  /\ config \in Configs /\ server \in Servers
  /\ wpc \in WriterStates /\ rpc \in ReaderStates
  /\ expired \in BOOLEAN /\ clean \in BOOLEAN
  /\ sent_times \in Seq(Nat) /\ sent_time \in Nat
  /\ counter \in 0 .. SampleEvery - 1
  /\ got \in Nat /\ c2s \in Nat /\ s2c \in Nat
  /\ fin \in BOOLEAN /\ eof \in BOOLEAN /\ rst \in BOOLEAN
  /\ pushed \in Nat /\ written \in Nat /\ consumed \in Nat

\* got counts bytes of the buffer that is being read into: one as long as the
\* first message before the reader exists, one as long as the message after.
ReadWithinBuffer ==
  /\ wpc = "first_read" => \A len \in config.first_message : got <= len
  /\ rpc # "off" => got <= Len_

\* Every variable has its type, and no read goes past the end of its buffer.
TypeOK == Types /\ ReadWithinBuffer

Init ==
  /\ BenchInit
  /\ config \in Configs /\ server \in Servers
  /\ wpc = "start" /\ rpc = "off"
  /\ expired = FALSE
  /\ sent_times = <<>> /\ sent_time = 0 /\ counter = 0 /\ got = 0
  /\ c2s = 0 /\ s2c = 0
  /\ fin = FALSE /\ eof = FALSE /\ rst = FALSE
  /\ pushed = 0 /\ written = 0 /\ consumed = 0
  /\ clean = TRUE

-----------------------------------------------------------------------------
(***************************************************************************)
(* The socket calls.                                                       *)
(***************************************************************************)

\* How many of len bytes one call of write() may take.  It is enabled only
\* while there is room: a full buffer leaves the call pending.
Accepted(len) == IF len = 0 THEN {0} ELSE 1 .. Least(len, Window - c2s)

\* read_exact takes what has arrived, up to what is missing.
Fill(len) ==
  LET n == Least(s2c, len - got)
  IN  /\ got < len /\ n > 0
      /\ s2c' = s2c - n
      /\ got' = got + n

ReadFails(len) == got < len /\ (rst \/ (eof /\ s2c = 0))

\* A worker that returns drops both halves of its stream.
DropStream == fin' = TRUE /\ UNCHANGED <<c2s, s2c, eof, rst>>

GiveUp ==
  /\ record_connection_error
  /\ wpc' = "failed"
  /\ DropStream

-----------------------------------------------------------------------------
(***************************************************************************)
(* The worker's task up to its main loop.                                  *)
(***************************************************************************)
Begin ==
  /\ wpc = "start"
  /\ wpc' = "connect"
  /\ total_connections' = total_connections + 1
  /\ UNCHANGED <<phase, success_connections, connection_errors, total_requests,
                 latency_samples, frozen, readerVars, expired, sent_times, got,
                 wire, pushed, written, clean>>

FirstStop == IF config.first_message = {} THEN "spawn" ELSE "first_write"

Connect ==
  /\ wpc = "connect"
  /\ wpc' = IF config.nagle THEN "nodelay" ELSE FirstStop
  /\ UNCHANGED <<benchVars, frozen, readerVars, expired, sent_times, got, wire,
                 pushed, written, clean>>

\* Refused, unreachable or timed out.
ConnectFails ==
  /\ wpc = "connect"
  /\ GiveUp
  /\ UNCHANGED <<phase, total_connections, success_connections, total_requests,
                 latency_samples, frozen, readerVars, expired, sent_times, got,
                 pushed, written, clean>>

SetNodelay ==
  /\ wpc = "nodelay"
  /\ wpc' = FirstStop
  /\ UNCHANGED <<benchVars, frozen, readerVars, expired, sent_times, got, wire,
                 pushed, written, clean>>

\* The ? after set_nodelay: the error is returned and nothing is counted.
SetNodelayFails ==
  /\ wpc = "nodelay" /\ rst
  /\ wpc' = "aborted"
  /\ DropStream
  /\ UNCHANGED <<benchVars, frozen, readerVars, expired, sent_times, got, pushed,
                 written, clean>>

\* One write() of the first message; a short write gives the connection up.
FirstWrite ==
  /\ wpc = "first_write" /\ ~rst
  /\ \E len \in config.first_message : \E n \in Accepted(len) :
       IF n = len
       THEN /\ wpc' = "first_read"
            /\ c2s' = c2s + n
            /\ UNCHANGED <<connection_errors, s2c, fin, eof, rst, clean>>
       ELSE /\ GiveUp
            /\ UNCHANGED clean
  /\ UNCHANGED <<phase, total_connections, success_connections, total_requests,
                 latency_samples, frozen, readerVars, expired, sent_times, got,
                 pushed, written>>

FirstWriteFails ==
  /\ wpc = "first_write" /\ rst
  /\ GiveUp
  /\ UNCHANGED <<phase, total_connections, success_connections, total_requests,
                 latency_samples, frozen, readerVars, expired, sent_times, got,
                 pushed, written, clean>>

FirstReadFill ==
  /\ wpc = "first_read"
  /\ \E len \in config.first_message : Fill(len)
  /\ UNCHANGED <<benchVars, frozen, wpc, readerVars, expired, sent_times, c2s, fin,
                 eof, rst, pushed, written, clean>>

\* The first answer is always sampled: its sample_count is 0.
FirstReadCompletes ==
  /\ wpc = "first_read" /\ got \in config.first_message
  /\ record_latency(0)
  /\ got' = 0
  /\ wpc' = "first_request"
  /\ UNCHANGED <<phase, total_connections, success_connections, connection_errors,
                 total_requests, frozen, readerVars, expired, sent_times, wire,
                 pushed, written, clean>>

FirstRequest ==
  /\ wpc = "first_request"
  /\ record_request
  /\ wpc' = "spawn"
  /\ UNCHANGED <<phase, total_connections, success_connections, connection_errors,
                 latency_samples, frozen, readerVars, expired, sent_times, got, wire,
                 pushed, written, clean>>

FirstReadFails ==
  /\ wpc = "first_read"
  /\ \E len \in config.first_message : ReadFails(len)
  /\ GiveUp
  /\ UNCHANGED <<phase, total_connections, success_connections, total_requests,
                 latency_samples, frozen, readerVars, expired, sent_times, got,
                 pushed, written, clean>>

\* The reader task is spawned; the worker enters one of its two loops.
Spawn ==
  /\ wpc = "spawn"
  /\ wpc' = IF config.zero_rate \/ Len_ = 0 THEN "idle" ELSE "loop"
  /\ rpc' = "read"
  /\ UNCHANGED <<benchVars, frozen, sent_time, counter, consumed, expired,
                 sent_times, got, wire, pushed, written, clean>>

-----------------------------------------------------------------------------
(***************************************************************************)
(* The worker's main loops.  A round of the send loop is the async block   *)
(* of tokio::select!: whenever it waits (for room in the socket buffer, in *)
(* yield_now, in the rate-control sleep) the shutdown broadcast may end it *)
(* instead, dropping the block where it stands.  While is_shutting_down is *)
(* set the block returns at once and the loop comes round again: that is a *)
(* stuttering step and not an action.                                      *)
(***************************************************************************)
DropWriter == fin' = TRUE /\ wpc' = "join"

\* Mutant: only the wait loop looks at end_time.
LifetimeEndsIdleOnly ==
  /\ wpc = "idle" /\ expired
  /\ DropWriter
  /\ UNCHANGED <<benchVars, frozen, readerVars, expired, sent_times, got, c2s, s2c,
                 eof, rst, pushed, written, clean>>

\* Both loops look at end_time before anything else.
LifetimeEnds ==
  /\ wpc \in {"idle", "loop"} /\ expired
  /\ DropWriter
  /\ UNCHANGED <<benchVars, frozen, readerVars, expired, sent_times, got, c2s, s2c,
                 eof, rst, pushed, written, clean>>

\* Mutant: the signal is looked at between two rounds and not within one.
ShutdownEndsBetweenRounds ==
  /\ wpc \in {"idle", "loop"} /\ shutdown_received
  /\ DropWriter
  /\ UNCHANGED <<benchVars, frozen, readerVars, expired, sent_times, got, c2s, s2c,
                 eof, rst, pushed, written, clean>>

ShutdownEnds ==
  /\ wpc \in MainLoop /\ shutdown_received
  /\ wpc \in {"idle", "loop"} => ~expired
  /\ DropWriter
  /\ UNCHANGED <<benchVars, frozen, readerVars, expired, sent_times, got, c2s, s2c,
                 eof, rst, pushed, written, clean>>

\* The time is read and queued before the write is attempted.
PushSentTime ==
  /\ wpc = "loop" /\ ~expired /\ ~is_shutting_down
  /\ pushed < MaxSends
  /\ sent_times' = Append(sent_times, written)
  /\ pushed' = pushed + 1
  /\ wpc' = "write"
  /\ UNCHANGED <<benchVars, frozen, readerVars, expired, got, wire, written, clean>>

\* Mutant: the count write() returns is not compared with the length.
WriteAnyLength ==
  /\ wpc = "write" /\ ~rst
  /\ \E n \in Accepted(Len_) : c2s' = c2s + n /\ written' = written + n
  /\ wpc' = "pace"
  /\ UNCHANGED <<benchVars, frozen, readerVars, expired, sent_times, got, s2c, fin,
                 eof, rst, pushed, clean>>

\* A short write is an error, yet the loop goes on: the rest of the message
\* is never sent, and its time stays in the queue.
Write ==
  /\ wpc = "write" /\ ~rst
  /\ \E n \in Accepted(Len_) :
       /\ c2s' = c2s + n
       /\ written' = written + n
       /\ IF n = Len_
          THEN /\ wpc' = "pace"
               /\ UNCHANGED <<connection_errors, clean>>
          ELSE /\ record_connection_error
               /\ wpc' = "loop"
               /\ clean' = FALSE
  /\ UNCHANGED <<phase, total_connections, success_connections, total_requests,
                 latency_samples, frozen, readerVars, expired, sent_times, got, s2c,
                 fin, eof, rst, pushed>>

WriteFails ==
  /\ wpc = "write" /\ rst
  /\ record_connection_error
  /\ wpc' = "loop"
  /\ clean' = FALSE
  /\ UNCHANGED <<phase, total_connections, success_connections, total_requests,
                 latency_samples, frozen, readerVars, expired, sent_times, got, wire,
                 pushed, written>>

\* yield_now and the rate-control sleep, or neither.
Pace ==
  /\ wpc = "pace"
  /\ wpc' = "loop"
  /\ UNCHANGED <<benchVars, frozen, readerVars, expired, sent_times, got, wire,
                 pushed, written, clean>>

\* Mutant: the reader is left behind.
JoinAtOnce ==
  /\ wpc = "join"
  /\ success_connections' = success_connections + 1
  /\ wpc' = "closed"
  /\ UNCHANGED <<phase, total_connections, connection_errors, total_requests,
                 latency_samples, frozen, readerVars, expired, sent_times, got, wire,
                 pushed, written, clean>>

\* reader_handle.await returns once the reader task is done.
Join ==
  /\ wpc = "join" /\ rpc = "done"
  /\ success_connections' = success_connections + 1
  /\ wpc' = "closed"
  /\ UNCHANGED <<phase, total_connections, connection_errors, total_requests,
                 latency_samples, frozen, readerVars, expired, sent_times, got, wire,
                 pushed, written, clean>>

WriterStep ==
  \/ Begin \/ Connect \/ ConnectFails \/ SetNodelay \/ SetNodelayFails
  \/ FirstWrite \/ FirstWriteFails
  \/ FirstReadFill \/ FirstReadCompletes \/ FirstRequest \/ FirstReadFails
  \/ Spawn \/ LifetimeEnds \/ ShutdownEnds
  \/ PushSentTime \/ Write \/ WriteFails \/ Pace \/ Join

-----------------------------------------------------------------------------
(***************************************************************************)
(* The reader task.                                                        *)
(***************************************************************************)
\* Mutant: the reader is handed the buffer of the first answer again.
ReadFillFirstBuffer ==
  /\ rpc = "read"
  /\ \E len \in config.first_message \cup {Len_} : Fill(len)
  /\ UNCHANGED <<benchVars, frozen, writerVars, readerVars, expired, sent_times, c2s,
                 fin, eof, rst, clean>>

ReadFill ==
  /\ rpc = "read"
  /\ Fill(Len_)
  /\ UNCHANGED <<benchVars, frozen, writerVars, readerVars, expired, sent_times, c2s,
                 fin, eof, rst, clean>>

\* A buffer of length zero is full at once, whatever the socket holds.
ReadCompletes ==
  /\ rpc = "read" /\ got = Len_
  /\ counter' = (counter + 1) % SampleEvery
  /\ consumed' = consumed + Len_
  /\ got' = 0
  /\ rpc' = "steal"
  /\ UNCHANGED <<benchVars, frozen, writerVars, sent_time, expired, sent_times, wire,
                 clean>>

\* Mutant: a worker's local deque, which gives back the newest time.
StealNewest ==
  /\ rpc = "steal" /\ sent_times # <<>>
  /\ sent_time' = sent_times[Len(sent_times)]
  /\ sent_times' = SubSeq(sent_times, 1, Len(sent_times) - 1)
  /\ rpc' = "request"
  /\ UNCHANGED <<benchVars, frozen, writerVars, counter, consumed, expired, got, wire,
                 clean>>

Steal ==
  /\ rpc = "steal" /\ sent_times # <<>>
  /\ sent_time' = Head(sent_times)
  /\ sent_times' = Tail(sent_times)
  /\ rpc' = "request"
  /\ UNCHANGED <<benchVars, frozen, writerVars, counter, consumed, expired, got, wire,
                 clean>>

\* Mutant: an answer is counted whether or not a time was found.
StealMissesButCounts ==
  /\ rpc = "steal"
  /\ rpc' = "request"
  /\ clean' = FALSE
  /\ UNCHANGED <<benchVars, frozen, writerVars, sent_time, counter, consumed, expired,
                 sent_times, got, wire>>

\* Steal::Empty, or Steal::Retry, which the queue may answer although it
\* holds a time: either way the answer is not counted and nothing is taken.
StealMisses ==
  /\ rpc = "steal"
  /\ rpc' = "read"
  /\ clean' = FALSE
  /\ UNCHANGED <<benchVars, frozen, writerVars, sent_time, counter, consumed, expired,
                 sent_times, got, wire>>

RecordRequest ==
  /\ rpc = "request"
  /\ record_request
  /\ rpc' = "latency"
  /\ UNCHANGED <<phase, total_connections, success_connections, connection_errors,
                 latency_samples, frozen, writerVars, sent_time, counter, consumed,
                 expired, sent_times, got, wire, clean>>

RecordLatency ==
  /\ rpc = "latency"
  /\ record_latency(counter)
  /\ rpc' = "read"
  /\ UNCHANGED <<phase, total_connections, success_connections, connection_errors,
                 total_requests, frozen, writerVars, sent_time, counter, consumed,
                 expired, sent_times, got, wire, clean>>

\* Mutant: the reader listens for the shutdown as well.
ReadEndsAtShutdown ==
  /\ rpc = "read"
  /\ ReadFails(Len_) \/ shutdown_received
  /\ record_connection_error
  /\ rpc' = "done"
  /\ UNCHANGED <<phase, total_connections, success_connections, total_requests,
                 latency_samples, frozen, writerVars, sent_time, counter, consumed,
                 expired, sent_times, got, wire, clean>>

\* End of stream is an error of read_exact, and is recorded as one even when
\* it is the server's answer to our own close.
ReadEnds ==
  /\ rpc = "read"
  /\ ReadFails(Len_)
  /\ record_connection_error
  /\ rpc' = "done"
  /\ UNCHANGED <<phase, total_connections, success_connections, total_requests,
                 latency_samples, frozen, writerVars, sent_time, counter, consumed,
                 expired, sent_times, got, wire, clean>>

ReaderStep ==
  ReadFill \/ ReadCompletes \/ Steal \/ StealMisses \/ RecordRequest \/ RecordLatency
  \/ ReadEnds

\* SIGINT ends the reader alone; the writer does not listen for it.
CtrlC ==
  /\ rpc = "read" /\ server.ctrl_c
  /\ rpc' = "done"
  /\ clean' = FALSE
  /\ UNCHANGED <<benchVars, frozen, writerVars, sent_time, counter, consumed, expired,
                 sent_times, got, wire>>

-----------------------------------------------------------------------------
(***************************************************************************)
(* The clock, the wire and the server.                                     *)
(***************************************************************************)

\* end_time exists from the moment the main loop is entered.
Expire ==
  /\ config.channel_lifetime /\ ~expired
  /\ wpc \in MainLoop
  /\ expired' = TRUE
  /\ UNCHANGED <<benchVars, frozen, wpc, readerVars, sent_times, got, wire, pushed,
                 written, clean>>

ServerUnchanged == UNCHANGED <<benchVars, frozen, wpc, readerVars, expired, sent_times,
                               got, pushed, written>>

ServerUp == ~eof /\ ~rst /\ wpc \notin {"start", "connect"}

ServerEcho ==
  /\ ServerUp /\ server.echo
  /\ \E n \in 1 .. Least(c2s, Window - s2c) :
       /\ c2s' = c2s - n
       /\ s2c' = s2c + n
  /\ UNCHANGED <<fin, eof, rst, clean>>
  /\ ServerUnchanged

ServerReads ==
  /\ ServerUp /\ ~server.echo
  /\ c2s > 0 /\ c2s' = 0
  /\ UNCHANGED <<s2c, fin, eof, rst, clean>>
  /\ ServerUnchanged

ServerChats ==
  /\ ServerUp /\ server.chatty
  /\ s2c < Window /\ consumed + s2c < MaxBytes
  /\ s2c' = s2c + 1
  /\ clean' = FALSE
  /\ UNCHANGED <<c2s, fin, eof, rst>>
  /\ ServerUnchanged

\* It has read everything and then the end of the stream.
ServerCloses ==
  /\ ServerUp /\ server.closes
  /\ fin /\ c2s = 0
  /\ eof' = TRUE
  /\ UNCHANGED <<c2s, s2c, fin, rst, clean>>
  /\ ServerUnchanged

\* It goes away in the middle: closing, so that what still reaches it is
\* refused, or resetting the connection at once.
ServerQuits ==
  /\ ServerUp /\ server.fails
  /\ \/ eof' = TRUE /\ UNCHANGED <<c2s, rst>>
     \/ rst' = TRUE /\ c2s' = 0 /\ UNCHANGED eof
  /\ clean' = FALSE
  /\ UNCHANGED <<s2c, fin>>
  /\ ServerUnchanged

ServerRefuses ==
  /\ eof /\ ~rst /\ c2s > 0
  /\ rst' = TRUE /\ c2s' = 0
  /\ UNCHANGED <<s2c, fin, eof, clean>>
  /\ ServerUnchanged

Environment ==
  CtrlC \/ Expire \/ ServerEcho \/ ServerReads \/ ServerChats \/ ServerCloses
  \/ ServerQuits \/ ServerRefuses

MainUnchanged == UNCHANGED <<frozen, writerVars, readerVars, expired, sent_times, got,
                             wire, clean>>

Next == WriterStep \/ ReaderStep \/ Environment \/ (MainStep /\ MainUnchanged)

Spec == Init /\ [][Next]_vars

(***************************************************************************)
(* Each task that can run is run: tokio polls every woken task, and at the *)
(* select! of the send loop a random branch is polled first, so a pending  *)
(* broadcast is seen.  The broadcast follows the flag without an await.    *)
(* The server keeps echoing and, if it is one that closes, closes.         *)
(* Nothing obliges the clock, the warm-up, the duration, SIGINT or a       *)
(* failing server to act.                                                  *)
(***************************************************************************)
Fairness ==
  /\ WF_vars(WriterStep)
  /\ WF_vars(ReaderStep)
  /\ WF_vars(NotifyShutdown /\ MainUnchanged)
  /\ WF_vars(ServerEcho) /\ WF_vars(ServerReads) /\ WF_vars(ServerCloses)

FairSpec == Spec /\ Fairness

-----------------------------------------------------------------------------
(***************************************************************************)
(* Safety.                                                                 *)
(***************************************************************************)

\* What the tool takes for granted of the server it measures.
EchoServer == server.echo /\ ~server.chatty

\* At an echo server every complete answer finds a send time in the queue, and
\* the time it is given was taken before the message it answers was written,
\* whatever short writes, failed writes and missed steals came before: a
\* latency may be overestimated but is never measured from a later message.
AnswerPairedWithEarlierSend ==
  EchoServer /\ Len_ > 0 =>
    /\ rpc = "steal" => sent_times # <<>>
    /\ rpc \in {"request", "latency"} => sent_time + Len_ <= consumed

\* Until a write is short, a steal misses or the server misbehaves, the time
\* an answer is given is the very time taken just before its own message.
PairingExactWhileClean ==
  clean /\ EchoServer /\ rpc \in {"request", "latency"} => sent_time + Len_ = consumed

\* The request the first exchange may add.
FirstRequests == IF config.first_message = {} THEN 0 ELSE 1

\* Whatever the server sends, the worker reports no more answered requests than
\* it has begun rounds, the first exchange included: a round whose write is still
\* pending, was short or failed is one too, for its time is in the queue.  Where
\* the server sends nothing unasked, the requests it reports are also covered by
\* bytes the kernel has accepted, message by message.
RequestsAccountedFor ==
  /\ total_requests <= pushed + FirstRequests
  /\ EchoServer => total_requests * Len_ <= written + FirstRequests * Len_

\* Shutting down loses nothing: dropping the writer closes one direction only,
\* and the reader takes in every answer to what was sent before the task ends.
GracefulDrain ==
  wpc = "closed" /\ clean /\ server.echo => consumed = written

\* The worker is a connection task as the runner knows it.
ConnOf(c) ==
  IF wpc = "start" THEN "waiting" ELSE IF WorkerEnded THEN wpc ELSE "open"

Conn == INSTANCE Connection WITH Conns <- {"c"}, conn <- [c \in {"c"} |-> ConnOf(c)]

ConnectionSpec == Conn!Spec

(***************************************************************************)
(* Liveness.                                                               *)
(***************************************************************************)

\* The first exchange has no timeout, and the final join waits for the server
\* to close: the worker depends on the server for both.
ServerCooperates ==
  /\ server.closes
  /\ server.echo \/ config.first_message = {}

\* Once the shutdown has been broadcast the worker ends, wherever the signal
\* finds it: connecting, in the first exchange, blocked in write() behind a
\* reader that has left, in a pause, or joining.
ShutdownEndsWorker ==
  (phase = "notified" /\ ServerCooperates /\ Len_ > 0) ~> WorkerEnded

\* A channel whose lifetime is over ends without any shutdown; the one thing
\* that can hold it is a write() that nobody's reading makes room for.
LifetimeEndsWorker ==
  (expired /\ ServerCooperates /\ Len_ > 0)
    ~> (WorkerEnded \/ (wpc = "write" /\ rpc = "done"))

\* README.md: --duration is "Load test for the specified amount of time", and
\* the comment on the wait loop says that a worker with an empty message will
\* "only check connection lifetime and shutdown signal".
DurationEndsWorker == (phase = "notified" /\ ServerCooperates) ~> WorkerEnded
=============================================================================
