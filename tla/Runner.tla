------------------------------- MODULE Runner -------------------------------
(***************************************************************************)
(* async_main in src/src/runner.rs with all its connection tasks: the      *)
(* spawn loop, the staggered starts, warm-up, duration, the shutdown flag  *)
(* and broadcast, the join loop and the final report.                      *)
(*                                                                         *)
(* The tasks are those of module Connection, which the worker modules      *)
(* implement; here they may do whatever that module lets them do.  Time    *)
(* passes in slots of connect_delay, the unit of the staggered delay (an   *)
(* empty one from a thousand million connections a second on).             *)
(***************************************************************************)
EXTENDS Naturals, FiniteSets

CONSTANTS
  Targets,        \* how many host:port arguments there are
  Connections,    \* config.connections, for each of them
  ConnectRates,   \* what --connect-rate may be; 0 is no limit
  U32Values,      \* how many values a u32 has, 2^32 in the code
  MaxSlot,        \* bound: slots before the clock may stop
  MaxCount        \* bound: answers and recorded faults

ASSUME TargetsAssumption == Targets \in Nat \ {0} /\ Connections \in Nat
ASSUME RateAssumption == ConnectRates \subseteq Nat /\ U32Values \in Nat \ {0}
ASSUME BoundsAssumption == MaxSlot \in Nat /\ MaxCount \in Nat

\* A task is the i-th connection to the t-th target.
Conns == (1 .. Targets) \X (0 .. Connections - 1)

VARIABLES
  quiet, connect_rate,   \* of config, which never changes
  conn, total_connections, success_connections, connection_errors, total_requests,
  main,          \* how far async_main has come
  spawned,       \* the tasks spawned so far, in the order of the loop
  subscribed,    \* the tasks that hold a receiver of the broadcast
  heard,         \* the tasks whose receiver holds the shutdown message
  is_warmup, is_shutting_down,
  slot,          \* the clock
  wake,          \* when the staggered delay of a task is over
  begun_at       \* history: when a task began to connect

C == INSTANCE Connection

configVars == <<quiet, connect_rate>>
taskVars == <<conn, total_connections, success_connections, connection_errors, total_requests>>
runnerVars == <<main, spawned, subscribed, heard, is_warmup, is_shutting_down>>
timeVars == <<slot, wake, begun_at>>
vars == <<configVars, taskVars, runnerVars, timeVars>>

(***************************************************************************)
(* "starting"  before connect_delay is calculated                          *)
(* "spawning"  in the loop over targets and connections                    *)
(* "warmup"    asleep in warmup_phase; "running" asleep for the duration   *)
(* "stopping"  the flag is set, the broadcast comes next                   *)
(* "joining"   waiting for every task                                      *)
(* "reported"  async_main has returned; "panicked" it never will           *)
(***************************************************************************)
MainStates == {"starting", "spawning", "warmup", "running", "stopping", "joining",
               "reported", "panicked"}

TypeOK ==
  /\ quiet \in BOOLEAN /\ connect_rate \in ConnectRates
  /\ conn \in [Conns -> C!ConnStates]
  /\ total_connections \in Nat /\ success_connections \in Nat
  /\ connection_errors \in Nat /\ total_requests \in Nat
  /\ main \in MainStates
  /\ spawned \subseteq Conns /\ subscribed \subseteq Conns /\ heard \subseteq subscribed
  /\ is_warmup \in BOOLEAN /\ is_shutting_down \in BOOLEAN
  /\ slot \in Nat
  /\ wake \in [Conns -> Nat] /\ begun_at \in [Conns -> Nat]

Init ==
  /\ quiet \in BOOLEAN /\ connect_rate \in ConnectRates
  /\ C!Init
  /\ main = "starting" /\ spawned = {} /\ subscribed = {} /\ heard = {}
  /\ is_warmup = TRUE /\ is_shutting_down = FALSE
  /\ slot = 0
  /\ wake = [c \in Conns |-> 0] /\ begun_at = [c \in Conns |-> 0]

-----------------------------------------------------------------------------
(***************************************************************************)
(* async_main.                                                             *)
(***************************************************************************)
MainGoes(from, to) == main = from /\ main' = to

\* The conversion n as u32 keeps the lower bits.
AsU32(n) == n % U32Values

\* connect_delay is a second divided by the rate; dividing by zero panics.
DividesByZero == connect_rate > 0 /\ AsU32(connect_rate) = 0

ConnectDelay ==
  /\ main = "starting"
  /\ main' = IF DividesByZero THEN "panicked" ELSE "spawning"
  /\ UNCHANGED <<configVars, taskVars, spawned, subscribed, heard, is_warmup,
                 is_shutting_down, timeVars>>

\* Target by target, and for each one i by i.
Before(c, d) == c[1] < d[1] \/ (c[1] = d[1] /\ c[2] < d[2])
IsNext(c) == c \notin spawned /\ \A d \in Conns \ spawned : d = c \/ Before(c, d)

\* How many slots the start of a task is put off; the index is taken modulo the whole
\* rate.
Stagger(c) == IF connect_rate = 0 THEN 0 ELSE AsU32(c[2] % connect_rate)

\* Mutant: the delay is the same for all.
NoStagger(c) == slot

\* Mutant: the time that has passed since the start is taken off the delay.
WakeSlotSinceStart(c) == Stagger(c) - slot

\* staggered_delay, counted from the moment the task is spawned.
WakeSlot(c) == slot + Stagger(c)

\* Mutant: the task subscribes when it runs, not before it is spawned.
SpawnUnsubscribed(c) ==
  /\ main = "spawning" /\ IsNext(c)
  /\ spawned' = spawned \cup {c}
  /\ wake' = [wake EXCEPT ![c] = WakeSlot(c)]
  /\ UNCHANGED <<configVars, taskVars, main, subscribed, heard, is_warmup,
                 is_shutting_down, slot,
                 begun_at>>

Spawn(c) ==
  /\ main = "spawning" /\ IsNext(c)
  /\ subscribed' = subscribed \cup {c}
  /\ spawned' = spawned \cup {c}
  /\ wake' = [wake EXCEPT ![c] = WakeSlot(c)]
  /\ UNCHANGED <<configVars, taskVars, main, heard, is_warmup, is_shutting_down, slot,
                 begun_at>>

StartWarmup ==
  /\ MainGoes("spawning", "warmup") /\ spawned = Conns
  /\ UNCHANGED <<configVars, taskVars, spawned, subscribed, heard, is_warmup,
                 is_shutting_down, timeVars>>

EndWarmup ==
  /\ MainGoes("warmup", "running")
  /\ C!ResetRequests
  /\ is_warmup' = FALSE
  /\ UNCHANGED <<configVars, spawned, subscribed, heard, is_shutting_down, timeVars>>

SetShuttingDown ==
  /\ MainGoes("running", "stopping")
  /\ is_shutting_down' = TRUE
  /\ UNCHANGED <<configVars, taskVars, spawned, subscribed, heard, is_warmup, timeVars>>

\* The message reaches every receiver there is, and none that comes later.
NotifyShutdown ==
  /\ MainGoes("stopping", "joining")
  /\ heard' = subscribed
  /\ UNCHANGED <<configVars, taskVars, spawned, subscribed, is_warmup, is_shutting_down,
                 timeVars>>

\* Mutant: the first result ends the join loop.
ReportAfterOne ==
  /\ MainGoes("joining", "reported")
  /\ \E c \in Conns : conn[c] \in C!Ended
  /\ UNCHANGED <<configVars, taskVars, spawned, subscribed, heard, is_warmup,
                 is_shutting_down, timeVars>>

\* An Err of a task is logged and the loop goes on; so is a panic.  When all have ended
\* print_final_stats is called and async_main returns.
Report ==
  /\ MainGoes("joining", "reported")
  /\ \A c \in Conns : conn[c] \in C!Ended
  /\ UNCHANGED <<configVars, taskVars, spawned, subscribed, heard, is_warmup,
                 is_shutting_down, timeVars>>

\* print_final_stats has put out its lines; with -q it returns at once.
Printed == main = "reported" /\ ~quiet

Main ==
  ConnectDelay \/ (\E c \in Conns : Spawn(c)) \/ StartWarmup \/ EndWarmup \/ SetShuttingDown
  \/ NotifyShutdown \/ Report

-----------------------------------------------------------------------------
(***************************************************************************)
(* The tasks run as soon as they are spawned, while async_main goes on.    *)
(***************************************************************************)
Begin(c) ==
  /\ c \in spawned /\ slot >= wake[c]
  /\ C!Begin(c)
  /\ begun_at' = [begun_at EXCEPT ![c] = slot]
  /\ UNCHANGED <<configVars, runnerVars, slot, wake>>

\* An answer in the warm-up is not counted, and so not a step.
Answer(c) ==
  /\ ~is_warmup /\ total_requests < MaxCount
  /\ C!Answer(c)
  /\ UNCHANGED <<configVars, runnerVars, timeVars>>

Fault(c) ==
  /\ connection_errors < MaxCount
  /\ C!Fault(c)
  /\ UNCHANGED <<configVars, runnerVars, timeVars>>

GiveUp(c) == C!GiveUp(c) /\ UNCHANGED <<configVars, runnerVars, timeVars>>

Abort(c) == C!Abort(c) /\ UNCHANGED <<configVars, runnerVars, timeVars>>

\* At the end of the channel lifetime, or at the shutdown.
Finish(c) == C!Finish(c) /\ UNCHANGED <<configVars, runnerVars, timeVars>>

Task(c) == Begin(c) \/ Answer(c) \/ Fault(c) \/ GiveUp(c) \/ Abort(c) \/ Finish(c)

\* The clock stops at MaxSlot unless a task still waits for it.
Tick ==
  /\ slot < MaxSlot \/ \E c \in spawned : conn[c] = "waiting" /\ slot < wake[c]
  /\ slot' = slot + 1
  /\ UNCHANGED <<configVars, taskVars, runnerVars, wake, begun_at>>

Next == Main \/ (\E c \in Conns : Task(c)) \/ Tick

Spec == Init /\ [][Next]_vars

(***************************************************************************)
(* async_main and the clock go on; a task whose delay is over is run, and  *)
(* one that holds the shutdown message ends.  The last is what the worker  *)
(* modules establish (ShutdownEndsWorker) for a server that cooperates.    *)
(***************************************************************************)
Fairness ==
  /\ WF_vars(Main) /\ WF_vars(Tick)
  /\ \A c \in Conns : WF_vars(Begin(c)) /\ WF_vars(c \in heard /\ Finish(c))

FairSpec == Spec /\ Fairness

-----------------------------------------------------------------------------
(***************************************************************************)
(* Safety.                                                                 *)
(***************************************************************************)
InState(s) == Cardinality({c \in Conns : conn[c] = s})

\* The final report accounts for every connection: all have been counted as started,
\* exactly those that ran to their end as successful, and at least one error for each
\* that gave up; also for those still in their staggered delay at the shutdown.
ReportExact ==
  main = "reported" =>
    /\ total_connections = Targets * Connections
    /\ success_connections = InState("closed")
    /\ success_connections + InState("failed") + InState("aborted") = total_connections
    /\ connection_errors >= InState("failed")

\* Nothing is counted any more once print_final_stats reads the counters.
ReportIsFinal == [][main = "reported" => UNCHANGED taskVars]_vars

\* No task is out of reach of the shutdown: once async_main waits for the tasks, the
\* message is in the receiver of every one, also of those that have not begun.
NobodyMissesShutdown == main \in {"joining", "reported"} => heard = Conns

\* By slot k at most the connections due in slots 0 to k have begun.
OnePerSlot ==
  connect_rate > 0 =>
    \A k \in 0 .. slot :
      Cardinality({c \in Conns : conn[c] # "waiting" /\ begun_at[c] <= k})
        <= Cardinality({c \in Conns : Stagger(c) <= k})

\* Whenever the shutdown comes, async_main returns, no task having missed the broadcast;
\* and the report has been printed then.  Nothing is said of the report of a run with -q,
\* which the code keeps back although README.md says "Suppress real-time output", and
\* nothing of a rate that is zero as a u32, with which no connection is ever started.
ReportIsPrinted ==
  ~DividesByZero => /\ <>(main = "reported")
                    /\ ~quiet => <>Printed

\* README.md on --connect-rate: "Limit number of new connections per second".  A
\* second has as many slots as the rate is as a u32.
ConnectRateIsKept ==
  connect_rate > 0 =>
    \A k \in 0 .. slot :
      Cardinality({c \in Conns : conn[c] # "waiting"
                                   /\ begun_at[c] \in k .. k + AsU32(connect_rate) - 1})
        <= connect_rate
=============================================================================
