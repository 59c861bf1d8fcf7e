----------------------------- MODULE TcpPingpong -----------------------------
(***************************************************************************)
(* One connection in TCP ping-pong mode: tcp_worker_pingpong in            *)
(* src/src/tcp_worker.rs.  A single task writes a message, reads as many   *)
(* bytes as it has written, records the time between, and starts again.    *)
(* It takes the bytes it reads for the answer to the message it has just   *)
(* written; that is right as long as nothing is left over from an earlier  *)
(* round, and a round can end in the middle: a short write, a read error   *)
(* and the shutdown leave it where it stands.                              *)
(*                                                                         *)
(* Bytes are counted as in TcpPipeline, and a clock reading is the number  *)
(* of payload bytes written when it was taken.  The wire and the server    *)
(* are external.                                                           *)
(***************************************************************************)
EXTENDS Bench

CONSTANTS
  Configs,    \* the configurations to consider, records of ConfigType
  Servers,    \* the servers to consider, records of ServerType
  Window,     \* bytes a direction of the connection can buffer
  MaxRounds,  \* bound: rounds of the send loop
  MaxBytes    \* bound: unasked-for bytes a server may send in all

ConfigType ==
  [message_len      : Nat,
   first_message    : SUBSET Nat,      \* length of the first message, if any
   zero_rate        : BOOLEAN,         \* message_rate == Some(0)
   channel_lifetime : BOOLEAN,
   nagle            : BOOLEAN]

ServerType ==
  [echo   : BOOLEAN,   \* sends back what it receives; otherwise it stays silent
   fails  : BOOLEAN,   \* may close or reset the connection at any time
   chatty : BOOLEAN]   \* may send bytes nobody asked for

ASSUME ConfigsAssumption ==
  /\ Configs \subseteq ConfigType
  /\ \A c \in Configs : \A m, n \in c.first_message : m = n
ASSUME ServersAssumption == Servers \subseteq ServerType
ASSUME WindowAssumption == Window \in Nat \ {0}
ASSUME BoundsAssumption == MaxRounds \in Nat /\ MaxBytes \in Nat

VARIABLES
  config, server,   \* chosen once, never changed
  pc,               \* where the worker is
  expired,          \* Instant::now() >= end_time
  counter,          \* complete writes; only its rest modulo SampleEvery is
                    \* looked at, so that is what the variable holds
  send_time,        \* the time the round began
  got,              \* bytes read_exact has put into the buffer
  c2s, s2c,         \* bytes under way to the server, and to the client
  fin, eof, rst,    \* client closed, server closed, connection reset
  rounds,           \* rounds of the send loop so far
  answers,          \* history: rounds that read a complete answer
  written,          \* history: payload bytes the kernel has accepted
  consumed,         \* history: payload bytes read in complete answers
  chatter,          \* bytes the server has sent unasked
  clean             \* history: nothing out of the ordinary has happened yet

wire == <<c2s, s2c, fin, eof, rst>>
frozen == <<config, server>>
history == <<rounds, answers, written, consumed>>
vars == <<benchVars, frozen, pc, expired, counter, send_time, got, wire, history,
          chatter, clean>>

Len_ == config.message_len
Least(a, b) == IF a <= b THEN a ELSE b

(***************************************************************************)
(* "start" to "first_request" as in TcpPipeline; then "idle" (the wait loop)  *)
(* or the rounds "loop" -> "write" -> "read" -> "latency" -> "request" ->  *)
(* "pace" -> "loop"; and the three ends.                                   *)
(***************************************************************************)
SetUp == {"start", "connect", "nodelay", "first_write", "first_read", "first_request"}
MainLoop == {"idle", "loop", "write", "read", "latency", "request", "pace"}
EndStates == {"closed", "failed", "aborted"}

\* The points of a round at which the task waits, and select! may drop it.
Waiting == {"idle", "loop", "write", "read", "pace"}

WorkerEnded == pc \in EndStates

Types ==
  /\ BenchTypeOK
  /\ config \in Configs /\ server \in Servers
  /\ pc \in SetUp \cup MainLoop \cup EndStates
  /\ expired \in BOOLEAN /\ clean \in BOOLEAN
  /\ counter \in 0 .. SampleEvery - 1
  /\ send_time \in Nat /\ got \in Nat /\ c2s \in Nat /\ s2c \in Nat
  /\ fin \in BOOLEAN /\ eof \in BOOLEAN /\ rst \in BOOLEAN
  /\ rounds \in Nat /\ answers \in Nat /\ written \in Nat /\ consumed \in Nat
  /\ chatter \in Nat

\* got counts bytes of the buffer that is being read into: one as long as the
\* first message before the main loop, one as long as the message in it.
ReadWithinBuffer ==
  /\ pc = "first_read" => \A len \in config.first_message : got <= len
  /\ pc \in MainLoop => got <= Len_

\* Every variable has its type, and no read goes past the end of its buffer.
TypeOK == Types /\ ReadWithinBuffer

Init ==
  /\ BenchInit
  /\ config \in Configs /\ server \in Servers
  /\ pc = "start" /\ expired = FALSE
  /\ counter = 0 /\ send_time = 0 /\ got = 0
  /\ c2s = 0 /\ s2c = 0 /\ fin = FALSE /\ eof = FALSE /\ rst = FALSE
  /\ rounds = 0 /\ answers = 0 /\ written = 0 /\ consumed = 0
  /\ chatter = 0 /\ clean = TRUE

-----------------------------------------------------------------------------
(***************************************************************************)
(* The socket calls, and the ways out.                                     *)
(***************************************************************************)
Goes(from, to) == pc = from /\ pc' = to

\* How many of len bytes one write() may take; none while the buffer is full.
Accepted(len) == IF len = 0 THEN {0} ELSE 1 .. Least(len, Window - c2s)

Fill(len) ==
  LET n == Least(s2c, len - got)
  IN  /\ got < len /\ n > 0
      /\ s2c' = s2c - n
      /\ got' = got + n

ReadFails(len) == got < len /\ (rst \/ (eof /\ s2c = 0))

DropStream == fin' = TRUE /\ UNCHANGED <<c2s, s2c, eof, rst>>

\* An error before the main loop: recorded, and the worker returns Ok.
GiveUp(from) ==
  /\ Goes(from, "failed") /\ CountError /\ DropStream
  /\ UNCHANGED <<counter, send_time, got, history, clean>>

\* Mutant: only connections that were shut down from outside are successes.
CloseUncounted(from) ==
  /\ Goes(from, "closed") /\ DropStream
  /\ UNCHANGED <<benchVars, counter, send_time, got, history, clean>>

\* The loop is left: the stream is dropped and the connection is a success.
Close(from) ==
  /\ Goes(from, "closed") /\ CountSuccess /\ DropStream
  /\ UNCHANGED <<counter, send_time, got, history, clean>>

\* A round is given up: the error is recorded and the loop comes round again.
Abandon(from) ==
  /\ Goes(from, "loop") /\ CountError
  /\ clean' = FALSE
  /\ UNCHANGED <<counter, send_time, rounds, answers, consumed>>

-----------------------------------------------------------------------------
(***************************************************************************)
(* Up to the main loop.                                                    *)
(***************************************************************************)
Loop == IF config.zero_rate \/ Len_ = 0 THEN "idle" ELSE "loop"
FirstStop == IF config.first_message = {} THEN Loop ELSE "first_write"

SetUpOnly == UNCHANGED <<counter, send_time, history, clean>>

Begin == Goes("start", "connect") /\ CountConnection /\ UNCHANGED <<got, wire>> /\ SetUpOnly

Connect ==
  /\ Goes("connect", IF config.nagle THEN "nodelay" ELSE FirstStop)
  /\ UNCHANGED <<benchVars, got, wire>> /\ SetUpOnly

ConnectFails == GiveUp("connect")

SetNodelay ==
  Goes("nodelay", FirstStop) /\ UNCHANGED <<benchVars, got, wire>> /\ SetUpOnly

SetNodelayFails ==
  /\ Goes("nodelay", "aborted") /\ rst /\ DropStream
  /\ UNCHANGED <<benchVars, got>> /\ SetUpOnly

FirstWrite ==
  /\ Goes("first_write", "first_read") /\ ~rst
  /\ \E len \in config.first_message : len \in Accepted(len) /\ c2s' = c2s + len
  /\ UNCHANGED <<benchVars, got, s2c, fin, eof, rst>> /\ SetUpOnly

\* A failed write, or a short one.
FirstWriteFails ==
  /\ GiveUp("first_write")
  /\ rst \/ \E len \in config.first_message : Accepted(len) \ {len} # {}

FirstReadFill ==
  /\ pc = "first_read"
  /\ \E len \in config.first_message : Fill(len)
  /\ UNCHANGED <<benchVars, pc, c2s, fin, eof, rst>> /\ SetUpOnly

FirstReadCompletes ==
  /\ Goes("first_read", "first_request") /\ got \in config.first_message
  /\ CountLatency(0)
  /\ got' = 0
  /\ UNCHANGED wire /\ SetUpOnly

FirstRequest ==
  Goes("first_request", Loop) /\ CountRequest /\ UNCHANGED <<got, wire>> /\ SetUpOnly

FirstReadFails ==
  GiveUp("first_read") /\ \E len \in config.first_message : ReadFails(len)

-----------------------------------------------------------------------------
(***************************************************************************)
(* The loops.  While is_shutting_down is set and the broadcast has not     *)
(* come the send loop goes round without doing anything.                   *)
(***************************************************************************)
\* Mutant: only the wait loop looks at end_time.
LifetimeEndsIdleOnly == expired /\ Close("idle")

LifetimeEnds == expired /\ \E from \in {"idle", "loop"} : Close(from)

\* Mutant: the signal does not interrupt a read.
ShutdownEndsUnlessReading == shutdown_received /\ \E from \in Waiting \ {"read"} : Close(from)

ShutdownEnds == shutdown_received /\ \E from \in Waiting : Close(from)

StartRound ==
  /\ Goes("loop", "write") /\ ~expired /\ ~is_shutting_down
  /\ rounds < MaxRounds
  /\ send_time' = written
  /\ rounds' = rounds + 1
  /\ UNCHANGED <<benchVars, counter, got, wire, answers, written, consumed, clean>>

Write ==
  /\ Goes("write", "read") /\ ~rst
  /\ Len_ \in Accepted(Len_)
  /\ c2s' = c2s + Len_ /\ written' = written + Len_
  /\ counter' = (counter + 1) % SampleEvery
  /\ UNCHANGED <<benchVars, send_time, got, s2c, fin, eof, rst, rounds, answers, consumed,
                 clean>>

\* Mutant: a short write is not recorded.
WriteShortUnrecorded ==
  /\ Goes("write", "loop") /\ ~rst
  /\ \E n \in Accepted(Len_) \ {Len_} : c2s' = c2s + n /\ written' = written + n
  /\ clean' = FALSE
  /\ UNCHANGED <<benchVars, counter, send_time, got, s2c, fin, eof, rst, rounds, answers,
                 consumed>>

\* The rest of the message is never sent, and the answer to what was sent is
\* left for the next round to read.
WriteShort ==
  /\ Abandon("write") /\ ~rst
  /\ \E n \in Accepted(Len_) \ {Len_} : c2s' = c2s + n /\ written' = written + n
  /\ UNCHANGED <<got, s2c, fin, eof, rst>>

WriteFails == Abandon("write") /\ rst /\ UNCHANGED <<got, wire, written>>

\* Mutant: the buffer of the first answer is read into again.
ReadFillFirstBuffer ==
  /\ pc = "read"
  /\ \E len \in config.first_message \cup {Len_} : Fill(len)
  /\ UNCHANGED <<benchVars, pc, counter, send_time, c2s, fin, eof, rst, history, clean>>

ReadFill ==
  /\ pc = "read" /\ Fill(Len_)
  /\ UNCHANGED <<benchVars, pc, counter, send_time, c2s, fin, eof, rst, history, clean>>

\* Mutant: read for read_exact.
ReadSome ==
  /\ Goes("read", "latency") /\ got > 0
  /\ got' = 0 /\ answers' = answers + 1 /\ consumed' = consumed + got
  /\ UNCHANGED <<benchVars, counter, send_time, wire, rounds, written, clean>>

ReadCompletes ==
  /\ Goes("read", "latency") /\ got = Len_
  /\ got' = 0 /\ answers' = answers + 1 /\ consumed' = consumed + Len_
  /\ UNCHANGED <<benchVars, counter, send_time, wire, rounds, written, clean>>

\* Mutant: the end of the stream is taken for an answer.
ReadEndsAnswered ==
  /\ Goes("read", "latency") /\ ReadFails(Len_)
  /\ got' = 0 /\ clean' = FALSE
  /\ UNCHANGED <<benchVars, counter, send_time, wire, history>>

\* What has arrived of the answer is thrown away.
ReadEnds == Abandon("read") /\ ReadFails(Len_) /\ got' = 0 /\ UNCHANGED <<wire, written>>

Kept == UNCHANGED <<counter, send_time, got, wire, history, clean>>

RecordLatency == Goes("latency", "request") /\ CountLatency(counter) /\ Kept
RecordRequest == Goes("request", "pace") /\ CountRequest /\ Kept

\* The rate-control sleep and yield_now, or neither.
Pace == Goes("pace", "loop") /\ UNCHANGED benchVars /\ Kept

WorkerStep ==
  /\ \/ Begin \/ Connect \/ ConnectFails \/ SetNodelay \/ SetNodelayFails \/ FirstWrite
     \/ FirstWriteFails \/ FirstReadFill \/ FirstReadCompletes \/ FirstRequest
     \/ FirstReadFails
     \/ LifetimeEnds \/ ShutdownEnds \/ StartRound \/ Write \/ WriteShort \/ WriteFails
     \/ ReadFill \/ ReadCompletes \/ ReadEnds \/ RecordLatency \/ RecordRequest \/ Pace
  /\ UNCHANGED <<frozen, expired, chatter>>

-----------------------------------------------------------------------------
(***************************************************************************)
(* The clock, the wire and the server.                                     *)
(***************************************************************************)
ServerOnly == UNCHANGED <<benchVars, frozen, pc, counter, send_time, got, history>>

Expire ==
  /\ config.channel_lifetime /\ ~expired /\ pc \in MainLoop
  /\ expired' = TRUE
  /\ UNCHANGED <<wire, chatter, clean>>
  /\ ServerOnly

ServerUp == ~eof /\ ~rst /\ pc \notin {"start", "connect"}

ServerEcho ==
  /\ ServerUp /\ server.echo
  /\ \E n \in 1 .. Least(c2s, Window - s2c) : c2s' = c2s - n /\ s2c' = s2c + n
  /\ UNCHANGED <<fin, eof, rst, expired, chatter, clean>>
  /\ ServerOnly

ServerReads ==
  /\ ServerUp /\ ~server.echo
  /\ c2s > 0 /\ c2s' = 0
  /\ UNCHANGED <<s2c, fin, eof, rst, expired, chatter, clean>>
  /\ ServerOnly

ServerChats ==
  /\ ServerUp /\ server.chatty
  /\ s2c < Window /\ chatter < MaxBytes
  /\ s2c' = s2c + 1 /\ chatter' = chatter + 1
  /\ clean' = FALSE
  /\ UNCHANGED <<c2s, fin, eof, rst, expired>>
  /\ ServerOnly

\* It closes, so that what still reaches it is refused, or resets at once.
ServerQuits ==
  /\ ServerUp /\ server.fails
  /\ \/ eof' = TRUE /\ UNCHANGED <<c2s, rst>>
     \/ rst' = TRUE /\ c2s' = 0 /\ UNCHANGED eof
  /\ clean' = FALSE
  /\ UNCHANGED <<s2c, fin, expired, chatter>>
  /\ ServerOnly

ServerRefuses ==
  /\ eof /\ ~rst /\ c2s > 0
  /\ rst' = TRUE /\ c2s' = 0
  /\ UNCHANGED <<s2c, fin, eof, expired, chatter, clean>>
  /\ ServerOnly

Environment ==
  Expire \/ ServerEcho \/ ServerReads \/ ServerChats \/ ServerQuits \/ ServerRefuses

MainUnchanged ==
  UNCHANGED <<frozen, pc, expired, counter, send_time, got, wire, history, chatter, clean>>

Next == WorkerStep \/ Environment \/ (MainStep /\ MainUnchanged)

Spec == Init /\ [][Next]_vars

(***************************************************************************)
(* The worker runs whenever it can; at a select! with the broadcast in it  *)
(* a random branch is polled first, so the broadcast is taken in the end.  *)
(* The server keeps echoing, and its host refuses what comes after it has  *)
(* closed.                                                                 *)
(***************************************************************************)
Fairness ==
  /\ WF_vars(WorkerStep)
  /\ WF_vars(NotifyShutdown /\ MainUnchanged)
  /\ WF_vars(ServerEcho) /\ WF_vars(ServerReads) /\ WF_vars(ServerRefuses)

FairSpec == Spec /\ Fairness

-----------------------------------------------------------------------------
(***************************************************************************)
(* Safety.                                                                 *)
(***************************************************************************)
EchoServer == server.echo /\ ~server.chatty

\* Until a round is abandoned or the server misbehaves, the bytes taken for the
\* answer are the whole answer to the message just written, and nothing is under
\* way when the next round begins.
AnswerIsOwn ==
  clean /\ EchoServer =>
    /\ pc \in {"latency", "request"} => consumed = written /\ consumed = send_time + Len_
    /\ pc \in {"loop", "pace"} => c2s = 0 /\ s2c = 0 /\ got = 0

\* Every round is accounted for: it has read an answer, or an error is recorded for
\* it, or it is the one under way (or the one the shutdown has dropped).
RoundsAccountedFor ==
  /\ pc \in {"idle", "loop", "latency", "request", "pace"} =>
       rounds = answers + connection_errors
  /\ pc \in {"write", "read"} => rounds = answers + connection_errors + 1
  /\ pc = "closed" => rounds - (answers + connection_errors) \in {0, 1}

\* No more requests are counted than rounds have read a whole answer, the first
\* exchange included, whatever the server sends; and no latency is sampled of an
\* answer that is not counted in the next step.
CountsNeverExceedAnswers ==
  /\ total_requests <= answers + (IF config.first_message = {} THEN 0 ELSE 1)
  /\ latency_samples <=
       total_requests + (IF pc \in {"first_request", "request"} THEN 1 ELSE 0)

\* The worker is a connection task as the runner knows it.
ConnOf == IF pc = "start" THEN "waiting" ELSE IF WorkerEnded THEN pc ELSE "open"

Conn == INSTANCE Connection WITH Conns <- {"c"}, conn <- [c \in {"c"} |-> ConnOf]

ConnectionSpec == Conn!Spec

(***************************************************************************)
(* Liveness.                                                               *)
(***************************************************************************)

\* The first exchange has no timeout: a worker in it depends on the server.
FirstAnswered == server.echo \/ config.first_message = {}

\* Once the shutdown has been broadcast the worker ends, wherever the signal finds
\* it: connecting, in the first exchange, blocked in a write or a read, in a pause.
ShutdownEndsWorker == (phase = "notified" /\ FirstAnswered) ~> WorkerEnded

\* At an echo server a channel whose lifetime is over ends without any shutdown,
\* unless the rests of short writes have filled both directions of the connection.
Jammed == pc = "write" /\ c2s = Window /\ s2c = Window

LifetimeEndsWorker == (expired /\ server.echo) ~> (WorkerEnded \/ Jammed)

\* README.md on --channel-lifetime: "Shut down each connection after T seconds".
LifetimeIsKept == expired ~> WorkerEnded
=============================================================================
