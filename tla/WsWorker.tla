------------------------------- MODULE WsWorker -------------------------------
(***************************************************************************)
(* What the two WebSocket workers in src/src/websocket_worker.rs have in   *)
(* common: the way to the main loop, the ways out of it, and the stream    *)
(* they talk to.  Their text is the same up to the main loop and at its    *)
(* edges; WsPingpong and WsPipeline add the rounds.                        *)
(*                                                                         *)
(* The stream is tokio-tungstenite's and external.  What matters of it:    *)
(*  - send() is refused at once unless no Close frame has been seen in     *)
(*    either direction; otherwise it buffers the frame and waits until the *)
(*    buffer is empty.  Dropping the wait leaves the frame in the buffer.  *)
(*  - next() yields control frames as well.  After an error it yields None *)
(*    for ever, although after an invalid frame sending still works.       *)
(* Left out: pongs, and the Close that answers the server's; both go out   *)
(* behind the worker's back and change nothing it sees.                    *)
(*                                                                         *)
(* The actions here constrain pc, rounds, net and the counters; the worker *)
(* that uses them says what becomes of the rest.                           *)
(***************************************************************************)
EXTENDS Bench, Sequences

CONSTANTS
  Configs,    \* the configurations to consider, records of ConfigType
  Servers,    \* the servers to consider, records of ServerType
  Window,     \* frames a direction of the connection can buffer
  MaxRounds,  \* bound: rounds of the send loop
  MaxExtra    \* bound: frames a server may send unasked

ConfigType ==
  [idle             : BOOLEAN,   \* message_rate is Some(0), or the message empty
   first_message    : BOOLEAN,   \* there is one
   channel_lifetime : BOOLEAN]

ServerType ==
  [echo   : BOOLEAN,   \* answers each message; otherwise it stays silent
   mixed  : BOOLEAN,   \* its answers may be text frames
   pings  : BOOLEAN,   \* may send pings
   chatty : BOOLEAN,   \* may send binary frames nobody asked for
   fails  : BOOLEAN,   \* may send an invalid frame, close or reset at any time
   closes : BOOLEAN]   \* answers a Close and hangs up

ASSUME ConfigsAssumption == Configs \subseteq ConfigType
ASSUME ServersAssumption == Servers \subseteq ServerType
ASSUME WindowAssumption == Window \in Nat \ {0}
ASSUME BoundsAssumption == MaxRounds \in Nat /\ MaxExtra \in Nat

VARIABLES
  config, server,   \* chosen once, never changed
  pc,               \* where the worker's task is
  expired,          \* Instant::now() >= end_time
  rounds,           \* rounds of the send loop so far
  net               \* the stream, see NetType

frozen == <<config, server>>

\* A frame, and the round of the message it carries or answers (0: none, or the
\* first message).
Frame == [kind : {"binary", "other", "invalid", "close"}, of : Nat]
Carries(kind, round) == [kind |-> kind, of |-> round]

NetType ==
  [state : {"active", "by_us", "by_peer", "acked", "terminated"},
   ended : BOOLEAN,      \* next() yields None from now on
   out   : Seq(Frame),   \* buffered in the client, not sent yet
   c2s   : Seq(Frame),   \* under way to the server
   s2c   : Seq(Frame),   \* under way to the client
   bye   : BOOLEAN,      \* the server has sent a Close of its own accord
   eof   : BOOLEAN,      \* the server has closed the TCP connection
   rst   : BOOLEAN,      \* the connection is reset
   extra : Nat]          \* frames sent unasked

(***************************************************************************)
(* "loop" -> "send" is a round's beginning, "close" -> "flush" sends the   *)
(* Close frame; what is between, and what follows, is the worker's own.    *)
(***************************************************************************)
BeforeLoop == {"start", "connect", "first_send", "first_read", "first_request"}
MainLoop == {"idle", "loop", "send", "read", "latency", "request", "pace"}
Places == BeforeLoop \cup MainLoop \cup {"close", "flush", "join", "closed", "failed"}
Waiting == {"idle", "loop", "send", "read", "pace"}   \* where select! may drop a round

WorkerEnded == pc \in {"closed", "failed"}

WsTypeOK ==
  /\ BenchTypeOK
  /\ config \in Configs /\ server \in Servers
  /\ pc \in Places /\ expired \in BOOLEAN /\ rounds \in 0 .. MaxRounds
  /\ net \in NetType

WsInit ==
  /\ BenchInit
  /\ config \in Configs /\ server \in Servers
  /\ pc = "start" /\ expired = FALSE /\ rounds = 0
  /\ net = [state |-> "active", ended |-> FALSE, out |-> <<>>, c2s |-> <<>>,
            s2c |-> <<>>, bye |-> FALSE, eof |-> FALSE, rst |-> FALSE, extra |-> 0]

Goes(from, to) == pc = from /\ pc' = to

-----------------------------------------------------------------------------
(***************************************************************************)
(* The stream.                                                             *)
(***************************************************************************)

\* start_send
Buffer(f) ==
  /\ net.state = "active"
  /\ net' = [net EXCEPT !.out = Append(@, f),
                        !.state = IF f.kind = "close" THEN "by_us" ELSE @]

\* A buffered frame goes out; only a task that awaits a send makes it do so.
Flush ==
  /\ pc \in {"first_send", "send", "flush"}
  /\ net.out # <<>> /\ ~net.rst /\ Len(net.c2s) < Window
  /\ net' = [net EXCEPT !.c2s = Append(@, Head(net.out)), !.out = Tail(@)]
  /\ UNCHANGED <<benchVars, pc, rounds>>

Flushed == net.out = <<>> /\ UNCHANGED net
FlushFails == net.out # <<>> /\ net.rst /\ net' = [net EXCEPT !.out = <<>>]

\* next() yields Some(Ok(frame)).
Yields(kinds) ==
  /\ ~net.ended /\ net.s2c # <<>> /\ Head(net.s2c).kind \in kinds
  /\ net' = [net EXCEPT
       !.s2c = Tail(@),
       !.state = CASE Head(net.s2c).kind = "close" /\ @ = "active" -> "by_peer"
                   [] Head(net.s2c).kind = "close" /\ @ = "by_us" -> "acked"
                   [] OTHER -> @]

NoMore == net.s2c = <<>> /\ (net.eof \/ net.rst)
Shaken == net.state \in {"by_peer", "acked"}

\* next() yields Some(Err(_)): an invalid frame, or an end without a Close.
YieldsError ==
  /\ ~net.ended
  /\ \/ /\ net.s2c # <<>> /\ Head(net.s2c).kind = "invalid"
        /\ net' = [net EXCEPT !.s2c = Tail(@), !.ended = TRUE]
     \/ /\ NoMore /\ ~Shaken
        /\ net' = [net EXCEPT !.ended = TRUE,
                              !.state = IF net.eof THEN "terminated" ELSE @]

\* next() yields None.
YieldsNone ==
  /\ net.ended \/ (NoMore /\ Shaken)
  /\ net' = [net EXCEPT !.ended = TRUE]

-----------------------------------------------------------------------------
(***************************************************************************)
(* Up to the main loop.  connect_timeout bounds the connection attempt and *)
(* its handshake; nothing bounds the exchange of the first message, nor    *)
(* does the shutdown interrupt it.                                         *)
(***************************************************************************)
MainStop == IF config.idle THEN "idle" ELSE "loop"

\* An error before the main loop: recorded, and the worker returns Ok.
GiveUp(from) == Goes(from, "failed") /\ CountError /\ UNCHANGED rounds

\* Mutant: a failed attempt is left to the caller to count.
ConnectFailsUncounted == Goes("connect", "failed") /\ UNCHANGED <<benchVars, rounds, net>>

ConnectFails == GiveUp("connect") /\ UNCHANGED net

Begin == Goes("start", "connect") /\ CountConnection /\ UNCHANGED <<rounds, net>>

Connect ==
  /\ IF config.first_message
     THEN Goes("connect", "first_send") /\ Buffer(Carries("binary", 0))
     ELSE Goes("connect", MainStop) /\ UNCHANGED net
  /\ UNCHANGED <<benchVars, rounds>>

FirstSent == Goes("first_send", "first_read") /\ Flushed /\ UNCHANGED <<benchVars, rounds>>
FirstSendFails == GiveUp("first_send") /\ FlushFails

\* The first answer is always sampled: its sample_count is 0.
FirstAnswer ==
  Goes("first_read", "first_request") /\ Yields({"binary"}) /\ CountLatency(0)
  /\ UNCHANGED rounds

FirstRequest == Goes("first_request", MainStop) /\ CountRequest /\ UNCHANGED <<rounds, net>>

\* A control frame is as unexpected as an error.
FirstAnswerUnusable ==
  GiveUp("first_read") /\ (Yields({"other", "close"}) \/ YieldsError)

SetUp ==
  Begin \/ Connect \/ ConnectFails \/ FirstSent \/ FirstSendFails \/ FirstAnswer
  \/ FirstRequest \/ FirstAnswerUnusable

-----------------------------------------------------------------------------
(***************************************************************************)
(* The edges of the main loop.                                             *)
(***************************************************************************)
CanStart == pc = "loop" /\ ~expired /\ ~is_shutting_down /\ rounds < MaxRounds

\* A round begins; on a stream that has seen a Close it is over at once, and
\* no pause follows.
BeginSend ==
  /\ CanStart /\ Buffer(Carries("binary", rounds + 1))
  /\ pc' = "send" /\ rounds' = rounds + 1
  /\ UNCHANGED benchVars

SendRefused ==
  /\ CanStart /\ net.state # "active"
  /\ rounds' = rounds + 1
  /\ CountError
  /\ UNCHANGED <<pc, net>>

SendFails == Goes("send", "loop") /\ FlushFails /\ CountError /\ UNCHANGED rounds

Pace == Goes("pace", "loop") /\ UNCHANGED <<benchVars, rounds, net>>

LifetimeEnds ==
  /\ pc \in {"idle", "loop"} /\ expired
  /\ pc' = "close"
  /\ UNCHANGED <<benchVars, rounds, net>>

\* Mutant: the signal is looked at between two rounds and not within one.
ShutdownEndsBetweenRounds ==
  /\ pc \in {"idle", "loop"} /\ shutdown_received
  /\ pc' = "close"
  /\ UNCHANGED <<benchVars, rounds, net>>

ShutdownEnds ==
  /\ pc \in Waiting /\ shutdown_received
  /\ pc' = "close"
  /\ UNCHANGED <<benchVars, rounds, net>>

\* No shutdown interrupts the wait for the Close frame to go out.  A stream that has
\* seen a Close refuses it, at once or after sending what an earlier send has left in
\* the buffer.
SendClose ==
  /\ Goes("close", "flush")
  /\ \/ Buffer(Carries("close", 0))
     \/ net.state # "active" /\ (UNCHANGED net \/ net' = [net EXCEPT !.out = <<>>])
  /\ UNCHANGED <<benchVars, rounds>>

Leave == LifetimeEnds \/ ShutdownEnds \/ SendClose

Expire ==
  /\ config.channel_lifetime /\ ~expired /\ pc \in MainLoop
  /\ expired' = TRUE

-----------------------------------------------------------------------------
(***************************************************************************)
(* The server; its steps constrain net alone.                              *)
(***************************************************************************)
ServerUp == pc \notin {"start", "connect", "closed", "failed"} /\ ~net.eof /\ ~net.rst

Takes(kind) == ServerUp /\ net.c2s # <<>> /\ Head(net.c2s).kind = kind

\* A ping takes no room to speak of.
Room == Len(SelectSeq(net.s2c, LAMBDA f : f.kind # "other" \/ f.of # 0)) < Window

ServerAnswers ==
  /\ Takes("binary") /\ server.echo /\ ~net.bye /\ Room
  /\ \E kind \in {"binary"} \cup (IF server.mixed THEN {"other"} ELSE {}) :
       net' = [net EXCEPT !.c2s = Tail(@),
                          !.s2c = Append(@, Carries(kind, Head(net.c2s).of))]

ServerIgnores ==
  /\ \/ Takes("binary") /\ (~server.echo \/ net.bye)
     \/ Takes("close") /\ ~server.closes
  /\ net' = [net EXCEPT !.c2s = Tail(@)]

ServerCloses ==
  /\ Takes("close") /\ server.closes /\ Room
  /\ net' = [net EXCEPT !.c2s = Tail(@), !.eof = TRUE,
                        !.s2c = IF net.bye THEN @ ELSE Append(@, Carries("close", 0))]

ServerReads == ServerAnswers \/ ServerIgnores \/ ServerCloses

ServerSays(kind) ==
  /\ ServerUp /\ ~net.bye /\ (Room \/ kind = "other") /\ net.extra < MaxExtra
  /\ net' = [net EXCEPT !.s2c = Append(@, Carries(kind, 0)), !.extra = @ + 1,
                        !.bye = (kind = "close")]

ServerPings == server.pings /\ ServerSays("other")
ServerChats == server.chatty /\ ServerSays("binary")

ServerFails ==
  /\ ServerUp /\ server.fails
  /\ \/ ServerSays("invalid")
     \/ ServerSays("close")
     \/ net' = [net EXCEPT !.eof = TRUE]
     \/ net' = [net EXCEPT !.rst = TRUE, !.c2s = <<>>]

ServerHangsUp == ServerUp /\ net.bye /\ net' = [net EXCEPT !.eof = TRUE]

\* What reaches a closed socket is answered with a reset.
ServerRefuses ==
  /\ ~WorkerEnded /\ net.eof /\ ~net.rst /\ net.c2s # <<>>
  /\ net' = [net EXCEPT !.rst = TRUE, !.c2s = <<>>]

ServerStep ==
  ServerReads \/ ServerPings \/ ServerChats \/ ServerFails \/ ServerHangsUp
  \/ ServerRefuses

-----------------------------------------------------------------------------
(***************************************************************************)
(* What the properties of both workers are stated with.                    *)
(***************************************************************************)
EchoServer == server.echo /\ ~server.chatty

\* The first exchange depends on the server.
FirstAnswered == server.echo \/ ~config.first_message

\* Both directions are full while the worker waits to send: nobody reads any more.
Jammed == pc \in {"send", "flush"} /\ Len(net.c2s) = Window /\ ~Room

ConnOf == IF pc = "start" THEN "waiting" ELSE IF WorkerEnded THEN pc ELSE "open"

Conn == INSTANCE Connection WITH Conns <- {"c"}, conn <- [c \in {"c"} |-> ConnOf]
=============================================================================
