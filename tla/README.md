# A verification of tcpkali2

tcpkali2 is a load generator for TCP and WebSocket servers: it opens a number of
connections, sends messages on each, takes the answers off the wire, and prints
how many there were and how long they took. What can go wrong in it is not a
crash but a wrong number, or a benchmark that does not end. Both come from many
tasks that share counters without locks, from answers that are matched to
messages by nothing but their order, and from rounds that stop half way. These
modules model that, TLC checks them on small instances, and TLAPS proves their
safety, and the refinements between them, for every instance.

Contents: [the system](#the-system), [the modules](#the-modules),
[the runs](#the-runs), [fairness](#fairness), [proofs](#proofs),
[disagreements](#disagreements-with-the-documentation),
[what is left out](#what-is-not-modelled), [plan](#plan).

## The system

| component | source | state | operations |
|---|---|---|---|
| runner | `runner.rs`: `async_main`, `warmup_phase`, `execute_benchmark` | the set of spawned tasks, their broadcast receivers, the phase of the benchmark | spawn with a staggered delay, end the warm-up, raise the shutdown flag, broadcast, join, report |
| printer | `runner.rs`: `spawn_stats_printer`, not spawned with `-q` | base time and count of the live line (in `Stats`) | poll the warm-up, set the base, `get_qps` once a second, stop at the broadcast |
| statistics | `stats.rs`: `Stats` | ten atomics and a histogram behind a mutex | `record_request`, `record_latency`, `record_connection_error`, `end_warmup`, `get_qps`, the two flags, `print_final_stats` |
| TCP ping-pong worker | `tcp_worker.rs`: `tcp_worker_pingpong` | where it is in its round, send time, read buffer, sample counter, end time | connect, first message, write, read, record, pause, end |
| TCP pipeline worker | `tcp_worker.rs`: `tcp_worker_pipeline` | two tasks: the writer's place and the reader's place, the queue `sent_times` between them | as above, with the read in a task of its own that steals a time per answer |
| WebSocket ping-pong worker | `websocket_worker.rs`: `websocket_worker_pingpong` | where it is in its round, send time, sample counter, end time, the stream | connect, first message, send, next, record, pause, send a Close, end |
| WebSocket pipeline worker | `websocket_worker.rs`: `websocket_worker_pipeline` | two tasks that share the stream, the queue `sent_times` | as above, with `next` in a task of its own |
| parsers, payloads | `utils.rs` | none | `parse_duration`, `parse_rate`, `unescape_string`, message and file arguments |
| configuration | `command.rs` | `Config`, never changed after `parse_config` | option declarations, four checks |
| errors, entry | `error.rs`, `main.rs` | none | conversions; the tokio runtime |

How they interact. `async_main` subscribes a broadcast receiver for each
connection and spawns the task. A task sleeps for its staggered delay, runs one
of the four workers, and ends with `Ok` or `Err`. Workers never talk to each
other; they add to the atomics of `Stats`. `async_main` sleeps for the warm-up,
calls `end_warmup`, sleeps for the duration, sets `is_shutting_down`, sends the
broadcast, joins every task and prints. The printer reads the same atomics.

What is hard, and the properties that make each part right:

* **Pipeline worker.** Two tasks and a queue. A latency is right only if the
  k-th complete answer finds the k-th time; short writes, failed writes and
  missed steals disturb that. The writer may be dropped at any await. *An answer
  is never measured from a later message; without trouble it is measured from its
  own; no more requests are reported than rounds begun and, at an echo server, none
  beyond the bytes the kernel has accepted; a shutdown drains the connection; the worker
  ends.*
* **Ping-pong worker.** One task, but a round can be dropped at any await, or
  abandoned with bytes under way that the next round takes for its own. *Without
  trouble a round reads its own answer; every round is accounted for by an
  answer or an error; nothing is counted twice; the worker ends.*
* **WebSocket workers.** The stream keeps messages apart but yields control frames
  as well, refuses to send once a Close has been seen, and yields nothing more
  after an error. A send that the shutdown drops stays in the buffer and goes out
  before the Close. *In ping-pong a latency is too short by exactly the rounds that
  took another frame for their answer; in a pipeline too long by exactly the
  answers that went unmatched; every round is accounted for; the closing handshake
  drains a pipeline; the worker ends unless both directions are full.*
* **Parsers.** *Each number with a unit is read as what it says and nothing else is
  read; unescaping undoes escaping.*
* **Statistics.** Every operation is a few separate relaxed loads and stores.
  *The reset at the end of the warm-up erases nothing that was counted; the final
  report is exact; `get_qps` never subtracts the larger number; its intervals
  do not overlap, and between them only what a second call in one millisecond gives up
  is lost; all in all each call is as good as one step.*
* **Runner.** The shutdown may come while tasks still wait for their start.
  *Nobody misses the broadcast; the report comes last, accounts for every
  connection and is printed unless `-q` keeps it back; connections start in their
  slots.*

`PROJECT.json` lists these hazards line by line.

## The modules

    Connection          what every connection task promises (abstract)
      ^ implemented by    TcpPipeline, TcpPingpong, WsPipeline, WsPingpong
      ^ used by           Runner
    Bench               the counters and the phases a worker sees, one step per call
      ^ extended by       TcpPipeline, TcpPingpong, WsWorker
    WsWorker            the stream, its server, and what both WebSocket workers share
      ^ extended by       WsPipeline, WsPingpong
    Stats               what the statistics promise, one step per call (abstract)
      ^ implemented by    StatsAtomics
    StatsAtomics        the same calls, one step per atomic operation, and the printer
    Runner              async_main with all its tasks
    Options             the parsers of options, by themselves
    TcpPipelineProofs, TcpPingpongProofs, WsPingpongProofs, WsPipelineProofs,
    StatsAtomicsProofs, RunnerProofs, OptionsProofs    theorems
      and WsWorkerProofs                        the lemmas both WebSocket workers need
    MC*                 the instances TLC checks

`MC` modules hold the sets of configurations and servers of an instance; the
numbers are in the `.cfg` files. A definition whose comment begins with *Mutant:*
is not part of any specification. It is a plausible slip in the definition that
follows it, and a property is kept only if one of these slips violates it.

**Connection.** A task is waiting, open, or has ended as closed (`Ok`, counted in
`success_connections`), failed (`Ok` after recording an error before its main
loop) or aborted (`Err`, from the `?` after `set_nodelay`). It is counted once
when it begins, and touches no counter after it has ended. That is all the runner
needs to know.

**Bench.** `phase` stands for the flags `is_warmup` and `is_shutting_down` and the
broadcast: `warmup`, `running`, `stopping` (flag set, broadcast not yet sent) and
`notified`. A call on `Stats` is one step; `record_latency` and `record_request` are two,
each with its own look at the warm-up, in the first exchange as well (`FirstRequest`). Of the
sample counter of a worker, which the code only ever increments, the remainder modulo
`SampleEvery` (256 in the code) is kept, for nothing else of it is ever looked at.

**TcpPipeline.** `wpc` is the place of the worker's own task, `rpc` that of the
reader it spawns. Bytes are counted, not spelled out, and a clock reading is
represented by the number of payload bytes written when it was taken
(`written`), so that "the time was taken before this message was sent" is
`sent_time + Len_ <= consumed` for an answer that ends at byte `consumed`.
`write()` takes any positive number of bytes that fits and waits if none does;
`read_exact` fills in any number of steps. `select!` around the send loop is the
action `ShutdownEnds`, possible at every await of a round. The history variable
`clean` becomes FALSE at the first short or failed write, missed steal, SIGINT or
misbehaviour of the server. A steal may miss at any time, because `Injector::steal`
may answer `Retry` and the code treats that as `Empty`.

**TcpPingpong.** The same wire, one task. `answers` counts the rounds that read a
complete answer, `rounds` all that were begun.

**WsWorker.** The two functions of `websocket_worker.rs` have the same text up to the
main loop and at its edges; these steps are here. `net` is the stream of
tokio-tungstenite with the connection under it: the state of the closing handshake, the
frames buffered in the client (`out`), under way to the server (`c2s`) and back (`s2c`).
A direction holds `Window` frames, so `Window` 1 stands for messages as large as the
buffers and larger values for smaller messages. A frame carries the number of its round, or
0 if it answers no message of the main loop. `send()` is two steps: `Buffer`, refused unless
no Close has been seen either way, and `Flushed`, with `Flush` in between; a `select!` that
drops it leaves the frame in `out`. `next()` is `Yields`, `YieldsError` or `YieldsNone`, and
waits otherwise. Where the stream refuses the Close at the end, it may first have sent what an
earlier send left in `out` (`SendClose`). The server may ping, answer in text frames, chatter, send an invalid frame or
a Close, close the TCP connection without one, or have the connection reset; each does what
its `ServerType` allows.

**WsPingpong.** A round sends and takes one frame. `answers`, `lost` and
`connection_errors` say how rounds ended; `behind` counts the rounds that took a frame that
answers no message, so that their own answer stayed on the stream.

**WsPipeline.** `pc` is the place of the worker's task, `rpc` that of the reader. The time of
a send is the number of its round. `unmatched` counts the answers that took no time from the
queue: frames of another kind, and missed steals.

**Options.** What the user types is the only variable; a parser is an operator from what is
typed to the set of its results, `{}` for an error. `str`, `u64` and `char` methods of the
standard library are modelled by what they do to the characters considered. A `u64` ends at
`U64Max`.

**Stats.** An answer is counted if `record_request` finds the warm-up over, and nothing else
can happen to it: it is in the final report. Bench, where a call is one step, relies on that.

**StatsAtomics.** Each load, store, `fetch_add` and `swap` of `record_request`,
`record_latency`, `end_warmup`, `get_qps` and the printer's base is an action.
Recorders in `LatencyFirst` call `record_latency` first, as ping-pong workers do; the
others have the order of the pipeline reader. `get_qps` has two ends: for less than a
millisecond it returns 0.0, its swaps done all the same. `due` counts the answers that found
the warm-up over, `covered` the requests the live lines have measured so far, `skipped` those
of the intervals that were too short, and `first_count` is where the first interval began;
`due`, `covered` and the report are the state of Stats (`StatsSpec`). With `quiet` there is
no printer and no report.

**Runner.** The spawn loop goes target by target and i by i; a task subscribes
before it is spawned; its delay begins when it is spawned. Time passes in slots of
`connect_delay`. `quiet` and `connect_rate` are chosen at the start. The rate is divided by as
a `u32` (`AsU32`): one that is a multiple of 2^32 panics before anything is started
(`ConnectDelay`), and the delays of larger ones are cut off (`Stagger`). `Printed` says that
`print_final_stats` has put out its lines. Tasks may do whatever Connection allows.

## The runs

| run | instance | checks |
|---|---|---|
| `tcp_pipeline` | one connection; two-byte messages, one-byte messages after a two-byte first message, and a worker that only waits; five servers: echo, echo with SIGINT, echo that may fail, echo that chatters, silent; window 2, 3 rounds | `TypeOK`, `AnswerPairedWithEarlierSend`, `PairingExactWhileClean`, `RequestsAccountedFor`, `GracefulDrain`, `ConnectionSpec`, `ShutdownEndsWorker`, `LifetimeEndsWorker` |
| `tcp_pingpong` | one connection; four configurations (two-byte messages, one-byte messages after a two-byte first message, zero rate, empty message); four servers; window 2, 5 rounds | `TypeOK`, `AnswerIsOwn`, `RoundsAccountedFor`, `CountsNeverExceedAnswers`, `ConnectionSpec`, `ShutdownEndsWorker`, `LifetimeEndsWorker` |
| `stats_atomics` | two recorders, one in each order of the calls, 2 answers each, every answer sampled, clock 0..1, with and without `-q` | `TypeOK`, `QpsNeverUnderflows`, `LiveIntervalsAddUp`, `CountersNeverDecrease`, `StatsSpec` |
| `runner` | one target, 3 connections; rates 0, 2, 3 and 4, of which a `u32` of 3 values makes 0, 2, 0 and 1; with and without `-q` | `TypeOK`, `ReportExact`, `NobodyMissesShutdown`, `OnePerSlot`, `ReportIsFinal`, `ReportIsPrinted` |
| `ws_pingpong` | one connection; configurations with and without a first message, with a lifetime, and one that only waits; servers that echo, ping, chatter, stay silent, fail; window 2, 4 rounds, 2 frames nobody asked for | `TypeOK`, `LatencyLag`, `RoundsAccountedFor`, `ConnectionSpec`, `WorkerEndsInTime` |
| `ws_pipeline` | one connection, the same with servers that answer in text or do not close; window 1, 3 rounds, 2 frames nobody asked for | `TypeOK`, `LatencyLate`, `RequestsNeverExceedRounds`, `GracefulDrain`, `ConnectionSpec`, `WorkerEndsInTime` |
| `options` | every string of up to 5 characters of a duration or a rate (12 characters to choose from) and every message of up to 5 (11 to choose from); `U64Max` 99 | `DurationsParsed`, `RatesParsed`, `UnescapeInvertsEscape` |
| `tcp_pipeline_empty_message` | a well-behaved server, empty message | `DurationEndsWorker` is violated |
| `tcp_pingpong_silent_server` | a server that reads and says nothing | `LifetimeIsKept` is violated |
| `runner_connect_rate` | 3 connections, 2 a second | `ConnectRateIsKept` is violated |
| `ws_pingpong_ping` | an echo server that pings once | `AnswerIsOwn` is violated |
| `ws_pingpong_jam` | the same, messages as large as the buffers of a direction | `DurationEndsWorker` is violated |

What they show.

* *Pairing.* At an echo server a short write makes later answers fill up with bytes
  of other messages, but the queue then holds more times than there are answers: a
  latency can only come out too long, never from a later message, and never does a
  complete answer meet an empty queue. Until then the pairing is exact.
* *Counts.* A server that sends unasked can have a request counted whose message is not
  written yet, was cut short or failed, but never more requests than rounds begun, because
  each takes a time off the queue. At one that only echoes, the bytes accepted by the
  kernel cover every request.
* *Live lines.* The swaps hand each request to exactly one interval, whatever is added
  meanwhile. An interval of less than a millisecond is thrown away with what is in it: the
  first one may be, for the first tick of the interval is due at once.
* *Draining.* Dropping the write half closes one direction. The reader takes in every
  answer under way before the worker ends, so a shutdown loses none. The end of the
  stream that follows is recorded as a connection error of a successful connection:
  `Connection` has to allow that, and `connection_errors` must not be read as a
  number of failed connections.
* *Ending.* A worker ends once the broadcast is sent, even if it is blocked in
  `write()`, provided the server answers the first message and, in a pipeline,
  closes after we have closed. At the end of a channel's lifetime, without a
  shutdown, a pipeline may instead hang in `write()` if SIGINT has taken its
  reader away, and a ping-pong worker may be jammed: short writes have left so many
  bytes under way that both directions are full and each side waits for the other.
* *Warm-up.* Because the flag is cleared last and every recorder looks at it before
  it adds, the five separate resets lose nothing. The two looks at the flag for one
  answer can disagree, but then at most one latency per pipeline worker has no
  request.
* *Frames.* One ping shifts a ping-pong connection by a round for the rest of its life: each
  latency is then the time from the latest send to the answer of an earlier message.
  In a pipeline the error has the other sign: a text answer or a missed steal
  makes later latencies too long. Both errors are exactly the number of such frames.
* *Closing.* A WebSocket pipeline that is shut down in the middle of a send still
  sends that message, then the Close, and reads every answer before it ends. The Close is
  awaited without a limit. That is harmless as long as someone reads; it is not once
  lost rounds (ping-pong) or an error (pipeline) have left both directions full.
* *Options.* Blanks, capitals and a plus sign are accepted where one expects them;
  a number without a unit is refused as a duration, as the comments in `parse_duration`
  want it. `DurationsParsed` leaves out a single `0`, of which the help on `--warmup` says
  otherwise.
* *Report.* However the shutdown falls between the staggered starts, each task ends, and
  `async_main` returns with counters that are final and account for every connection. They
  are printed unless `-q` was given, and a rate that is zero as a `u32`
  starts nothing at all.
* *Types.* The type invariants say a little more than the sets of values: a read stays
  within the buffer it was given (TCP), a ping-pong round takes one frame, and a
  pipeline's reader is there from the main loop on.

Bounds. `MaxSends`, `MaxRounds`, `MaxBytes`, `MaxAnswers`, `MaxTime`, `MaxSlot` and
`MaxCount` stop what the program could go on doing; each only takes steps away.
A window of two bytes and messages of two bytes give a short write at every
possible place, an answer that comes in two pieces, and a full buffer in both
directions; three pipelined rounds put a time behind two others, and
five ping-pong rounds are what it takes to fill both directions with the rests
of short writes. For the WebSocket workers, four ping-pong rounds with two frames nobody asked for let
a connection lag by two rounds and go on; three pipelined rounds in a window of one keep a
message in every place of the wire at once, and the deadlock of full directions is reached.
`MaxLength` 5 is the longest unit with a two-digit number and a blank, capital or plus sign,
and lets two escapes meet, the five named ones and `\xHH`; with `U64Max` 99 a number of three
digits is refused, and one in minutes, hours, days or thousands saturates.
`SampleEvery` 2 separates sampled from unsampled answers and the
first message from the others. In `stats_atomics` two answers per recorder let one
fall before and one into or after the reset. In `runner` three connections at a rate
of two put two in the same slot; `U32Values` 3 lets the rates 3 and 4 become 0 and 1, which
takes 2^32 and more in the code. Runs check deadlock only where the modelled program
does not end, and it always does: `CHECK_DEADLOCK FALSE` throughout, with the liveness
properties in its place.

## Fairness

Tokio runs every task that is ready: weak fairness of the worker, of the reader and of
each connection task in Runner. `select!` polls its branches in random order, so a
broadcast that stays receivable is taken in the end even if the other branch is
always ready. Between the flag and the broadcast there is no await. The server is
assumed to go on echoing (or reading) and, where a property names it, to close; its
host refuses data that reaches a closed socket. `WorkerEndsInTime` of the WebSocket
workers assumes the same and excepts the jam (`Jammed`), which is a real end of progress and
not a lack of fairness. Nothing is assumed of the clock, the
end of the warm-up or the duration, SIGINT, or a server that may fail. Runner assumes of
a task that has heard the broadcast that it ends: that is `ShutdownEndsWorker`, under the
conditions stated there.

## Proofs

`TcpPipelineProofs` proves, for every message length, window, set of servers and number of
rounds, `TypeOK` and the four safety properties of the TCP pipeline. The argument counts bytes.
With `Q` the queue:

* `consumed + got + s2c + c2s <= written` once the first exchange is over (`FlowInv`);
  `FirstInv` brings the count through the first exchange, whose bytes are no payload;
* a time in the queue is at most a message after the one before it, `written` at most a
  message after the newest, and the oldest, if there is one, not after the bytes consumed
  (`QueueInv`); if the queue is empty while the reader looks, less than a message is on
  its way. So the head is never the time of a later message, and an answer never meets an
  empty queue;
* while `clean` holds, the inequalities are equalities (`CleanInv`, `CleanQueueInv`), and the
  head is the answer's own time; at the end of the stream nothing is on its way
  (`GracefulDrain`);
* `RequestInv` bounds the counted answers by the times taken off the queue, and `AnswersInv`,
  at a server that sends nothing unasked, by the messages that have been read
  (`RequestsAccountedFor`); `FlowInv` takes that on to the bytes accepted;
* `BufferInv` says which buffer a read fills at which place, and that it is never longer
  (`ReadWithinBuffer`, the part of `TypeOK` that is not about sets of values);
* `ControlInv` says which places of the two tasks go together.

None of the four properties is inductive by itself: each speaks of the moment an answer is
complete, and nothing in it says what is in the queue a step earlier.

`StatsAtomicsProofs` proves, for any number of recorders and answers, `TypeOK`,
`CountersNeverDecrease`, `QpsNeverUnderflows`, `LiveIntervalsAddUp`, and that StatsAtomics
implements Stats (`ImplementsStats`). The invariant:

* while the flag is set all counters are zero, nobody is past the test of the flag, and the
  printer has not begun (`WarmupInv`), so the resets meet zeros and nobody can see them half done;
* the printer's two words only move forward and never ahead of the count and the clock
  (`PrintInv`), and what `get_qps` has told and given up adds up to the requests between
  them and the beginning of the first interval;
* a worker between the test of the flag and one of its adds owes that add: each counter plus the
  number of workers that owe it is `due` (`DueInv`), so the counters agree when all have ended;
* a latency sampled before its request is owed by the request test to come, one sampled after it
  is paid for, or is the one its worker may have too many because the flag was cleared between
  its two tests (`SampleInv`).

The last two compare counters with numbers of workers in certain places, before and after one of
them has moved; the first lemmas of the module, `CountMoves` above all, are about that. In the refinement a call takes place when it looks at
the flag (`record_request`), clears it (`end_warmup`) or subtracts (`get_qps`).

`RunnerProofs` proves, for any number of targets and connections, any connect rate and any
width of the `u32`, `TypeOK`,
`ReportExact`, `ReportIsFinal`, `NobodyMissesShutdown` and `OnePerSlot`. The counters of the
report are the numbers of tasks in certain states (`CountInv`, with the same lemmas), and the
join loop leaves no task behind (`JoinInv`). Whoever is spawned has subscribed, and all are
spawned when the broadcast is sent (`ReceiverInv`). A task begins in the slot of its delay or
later (`StaggerInv`), so those that have begun by slot k are among those due by then.

`TcpPingpongProofs` proves `TypeOK`, `RoundsAccountedFor`, `CountsNeverExceedAnswers` and
`AnswerIsOwn` of the TCP ping-pong worker. Each property speaks of a few places of the worker,
and the invariant says what holds at the others: before the main loop nothing is counted
(`RoundsInv`), and a read has the buffer of its place (`BufferInv`); an answer that has been read and is not counted yet pays for its request, and
in the warm-up all counts are zero (`CountInv`); as long as nothing goes wrong the bytes of
the round's message are whole, wherever they are: on the wire in either direction, in the
reader's buffer, or consumed (`OwnInv`).

`WsPingpongProofs` proves `TypeOK`, `RoundsAccountedFor` and `LatencyLag`, `WsPipelineProofs`
`TypeOK`, `RequestsNeverExceedRounds`, `LatencyLate` and `GracefulDrain` of the WebSocket workers,
for every number of rounds, window, server and configuration. `WsWorkerProofs` shows once for
both that the stream carries only numbers of rounds that have begun, and in which order.

* *Accounts.* In ping-pong the ends of the rounds are counted by the place of the worker
  (`RoundsInv`). In the pipeline a time in the queue or in the reader's hand pays for one request,
  and a round for one time (`CountInv`), which needs that the reader lives from the beginning of
  the main loop to the end of the worker (`LifeInv`).
* *Order.* At an echo server the answers under way, then the messages under way, then those in the
  client's buffer carry consecutive numbers, whatever pings and other frames stand between them
  (`Ordered`). The first of them is the answer that is read next. In the pipeline that is the round
  after the last answer (`OrderInv`). In ping-pong it is the present round less those that took
  another frame for their answer, as long as the stream is intact (`InOrder`): a round whose send
  or read fails is never followed by one that reads an answer. `LatencyLag` is then what the
  numbers say when a frame is read.
* *Queue.* The queue of a pipeline holds the latest rounds in their order, and every answer has
  taken a time, or has gone by unmatched, or is the one in hand (`QueueInv`). An answer belongs
  to a round that has begun, so its time is in the queue, or an earlier one is (`LatencyLate`).
* *Draining.* At an orderly server the Close is the last frame the worker sends and the last the
  server answers, and the end comes after that (`Closing`). When the reader meets the end, the
  numbers between the last answer and the latest round are used up (`DrainInv`).

None of these speaks of a single step: the lag of a latency is decided rounds before it is
measured, so the invariant has to follow every frame through both directions of the stream. TLC
found `OrderInv`, `QueueInv` and `DrainInv` to hold on the instances of `ws_pingpong` and
`ws_pipeline` before they were proved.

All four workers are proved to implement `Connection` (`ImplementsConnection`): the initial
state maps to an initial state, and every step of the worker, its reader, the server and the
benchmark is a step of the connection task or a stutter. For the pipelines the reader's life
is what matters: it must touch no counter once the connection has ended.

`OptionsProofs` proves the three properties of Options (`DurationsCorrect`, `RatesCorrect`,
`UnescapeCorrect`) for every set of characters, every length and every `U64Max`. That nothing but
such characters is typed is the whole invariant; the rest is about the operators.

* *Induction.* The value of digits, `FlattenSeq` and the loop of `unescape_string` are defined by
  recursion. The induction theorems of the library take an operator as a parameter, which the
  provers cannot instantiate; the lemma `Induction` says the same of a set: one that holds 0, and
  n + 1 with every n, holds all. Each induction defines the set of numbers for which its
  statement holds. `Value` and `UnescapeLoop` need it to show that the recursive function exists.
* *Numbers.* `Numbers(s, m)` are the values the first m characters of `s` have as a number, read
  as the grammar says, with any split. There is only one split that can work, from the first
  character that is no blank to the last, less a plus sign (`NumberEnds`), and that is where
  `trim` and `parse` look (`ParsedTrimmed`). Lower case and the blanks that were cut off before
  change none of it (`Shifted`).
* *Suffixes.* What `s` means with a suffix are the numbers in front of it, if `s` ends with it, and
  nothing otherwise (`ValuesEnds`). A string that ends in "ms" is no number of seconds, because
  its "m" is no digit (`EndsInLetter`): the order of the cases in `parse_duration` loses nothing.
  Saturating in seconds is the same as limiting the milliseconds (`Saturated`).
* *Escapes.* Every character is written as itself, as a backslash and a letter, or as two
  hexadecimal digits (`Escaped`), and the loop, wherever it meets these in a longer string, reads
  the character and goes on right behind them (`Unescaped`). From the end of the message
  backwards the loop then returns what remains of it (`EscapeUndone`).

These proofs leave no bound on the length of what is typed. What the `options` run adds is that the
meaning they refer to tells the parsers from plausible wrong ones: a mutant of each violates it.

The proofs assume what the modules assume of their constants (`ConfigsAssumption`: a
configuration has at most one first message; `WindowAssumption`, `SampleEveryAssumption`: not
zero; `CodesAssumption`: messages are ASCII; and so on) and nothing else.

Only model-checked: liveness (`ShutdownEndsWorker`, `LifetimeEndsWorker`, `WorkerEndsInTime`,
`ReportIsPrinted`), which is beyond the prover. Every safety property and refinement that a
passing run checks is also a theorem.

## Disagreements with the documentation

* `tcp_pipeline_empty_message`: with an empty message in pipeline mode the benchmark never
  ends, although the comments on the wait loop (`tcp_worker.rs:406-408`) provide for it.
* `tcp_pingpong_silent_server`: `--channel-lifetime`, "Shut down each connection after T
  seconds", is not looked at while a round waits for its answer.
* `runner_connect_rate`: `--connect-rate`, "Limit number of new connections per second",
  staggers within one second but limits nothing: connection i and i + rate start together.
* `ws_pingpong_ping`: "each message expects a response" (`websocket_worker.rs:51`), but a ping
  is taken for the response, and every later response for that of the next message.
* `ws_pingpong_jam`: a ping-pong benchmark with large messages may not end at `--duration`: the
  Close frame is awaited behind a message that nobody reads.

Three more are in the modules, where one definition shows them and no run is needed; the
properties that are checked make no claim there:

* `--warmup`, "Warmup duration before benchmark (0 to skip)" (`README.md:56`,
  `command.rs:184`), does not take `0`, but `0s` (`parse_duration`).
* `-q`, "Suppress real-time output" (`README.md:64`, `command.rs:239`), suppresses the result
  of the benchmark as well: `print_final_stats` returns at once (`Printed` in Runner,
  `FinalReport` in StatsAtomics).
* `get_qps`, "the QPS based on the request count since the last call" (`stats.rs:194`), drops
  the requests of an interval of less than a millisecond, which are then in no live line
  (`Subtract`). `LiveIntervalsAddUp` counts them as `skipped`.

## What is not modelled

* The content of messages, output, percentiles and the formatting of the final report.
* Real time: pauses are steps that take any time; the exact length of the rate-control
  sleeps (and the sleeps up to 1 ms that ping-pong leaves out) is not modelled.
* Memory orders weaker than x86-64: StatsAtomics makes the stores of one thread visible in
  program order, which `Relaxed` does not promise on other machines.
* A system clock that is set back (`get_qps` would then subtract the larger number).
* `LocalStatsCache` and `record_request_batch`: dead code.
* Cancelling of the printer by the end of the runtime; its lines may or may not come.
* Of the WebSocket stream: the pongs and the Close it answers with of its own accord, frames
  in fragments, TLS, and what happens before the handshake is complete. The byte counters of these workers
  (the pipeline counts `--message-size` whatever it sends).
* Servers that stop reading for a while and go on later: the server reads whenever it has room.
* Of `utils.rs`: escapes above `\x7f`, which become characters of two bytes; characters
  whose lower case is another character's; reading of files; random payloads.
* `command.rs` (declarations, and four tests for zero), `error.rs` and `main.rs`: no state.

## Plan

Done: every part of the program with state of its own is modelled, and so are the parsers; every
safety property that is checked is proved as well. What is left, most important first:

1. The safety half of the endings: that a worker that is still there after the broadcast has, at
   a server that closes, a step that takes it nearer to its end; from the invariants at hand.
2. StatsAtomics with stores that become visible out of order, as `Relaxed` allows on machines
   other than x86-64, and what then remains of Stats.
3. The pauses of rate control with a clock, and what `--message-rate` promises.
