-------------------------------- MODULE Bench --------------------------------
(***************************************************************************)
(* What a connection task shares with the rest of tcpkali2: the counters   *)
(* of Stats (src/src/stats.rs) and the course of the benchmark that        *)
(* async_main drives (src/src/runner.rs).  The worker modules EXTEND this  *)
(* module; their actions call the operators below the way the workers call *)
(* the methods of Stats.                                                   *)
(*                                                                         *)
(* A call on Stats is one step here.  Module StatsAtomics takes the calls  *)
(* apart into their atomic operations and shows what may happen between    *)
(* them.  Byte counters are left to StatsAtomics: in the TCP workers they  *)
(* are total_requests times the message length.                            *)
(***************************************************************************)
EXTENDS Naturals

CONSTANT
  SampleEvery   \* one latency in SampleEvery enters the histogram (256 in the code)

ASSUME SampleEveryAssumption == SampleEvery \in Nat \ {0}

VARIABLES
  phase,                \* how far async_main has come
  total_connections,    \* connection tasks that have started
  success_connections,  \* connection tasks that ran to their end
  connection_errors,    \* errors recorded
  total_requests,       \* answered messages counted since the warm-up
  latency_samples       \* entries of the latency histogram

benchVars == <<phase, total_connections, success_connections,
               connection_errors, total_requests, latency_samples>>

(***************************************************************************)
(* "warmup"    is_warmup is true, nothing is counted                       *)
(* "running"   the warm-up is over, the duration is running                *)
(* "stopping"  is_shutting_down is set, the broadcast is still to come     *)
(* "notified"  the shutdown broadcast is in every receiver                 *)
(***************************************************************************)
Phases == {"warmup", "running", "stopping", "notified"}

is_warmup == phase = "warmup"
is_shutting_down == phase \in {"stopping", "notified"}
shutdown_received == phase = "notified"

BenchTypeOK ==
  /\ phase \in Phases
  /\ total_connections \in Nat
  /\ success_connections \in Nat
  /\ connection_errors \in Nat
  /\ total_requests \in Nat
  /\ latency_samples \in Nat

BenchInit ==
  /\ phase = "warmup"
  /\ total_connections = 0
  /\ success_connections = 0
  /\ connection_errors = 0
  /\ total_requests = 0
  /\ latency_samples = 0

-----------------------------------------------------------------------------
(***************************************************************************)
(* The methods of Stats a worker calls.  Each constrains only the counter  *)
(* it writes; the action that calls it leaves the others alone.            *)
(***************************************************************************)
record_request ==
  total_requests' = IF is_warmup THEN total_requests ELSE total_requests + 1

\* sample_count matters only modulo the sampling interval.  (That the histogram
\* refuses a latency beyond 60 seconds is left to StatsAtomics.)
record_latency(sample_count) ==
  latency_samples' = IF sample_count % SampleEvery = 0 /\ ~is_warmup
                     THEN latency_samples + 1
                     ELSE latency_samples

record_connection_error == connection_errors' = connection_errors + 1

\* The same calls as steps that touch nothing else of Stats.
CountConnection ==
  /\ total_connections' = total_connections + 1
  /\ UNCHANGED <<phase, success_connections, connection_errors, total_requests,
                 latency_samples>>

CountSuccess ==
  /\ success_connections' = success_connections + 1
  /\ UNCHANGED <<phase, total_connections, connection_errors, total_requests,
                 latency_samples>>

CountError ==
  /\ record_connection_error
  /\ UNCHANGED <<phase, total_connections, success_connections, total_requests,
                 latency_samples>>

CountRequest ==
  /\ record_request
  /\ UNCHANGED <<phase, total_connections, success_connections, connection_errors,
                 latency_samples>>

CountLatency(sample_count) ==
  /\ record_latency(sample_count)
  /\ UNCHANGED <<phase, total_connections, success_connections, connection_errors,
                 total_requests>>

-----------------------------------------------------------------------------
(***************************************************************************)
(* The steps of async_main that a running connection can observe.          *)
(***************************************************************************)

\* The warm-up sleep is over: the counters are reset and counting begins.
end_warmup ==
  /\ phase = "warmup"
  /\ phase' = "running"
  /\ total_requests' = 0
  /\ latency_samples' = 0
  /\ UNCHANGED <<total_connections, success_connections, connection_errors>>

\* The duration is over: the flag is raised first ...
set_shutting_down ==
  /\ phase = "running"
  /\ phase' = "stopping"
  /\ UNCHANGED <<total_connections, success_connections, connection_errors,
                 total_requests, latency_samples>>

\* ... and then, with no await in between, the broadcast is sent.
NotifyShutdown ==
  /\ phase = "stopping"
  /\ phase' = "notified"
  /\ UNCHANGED <<total_connections, success_connections, connection_errors,
                 total_requests, latency_samples>>

MainStep == end_warmup \/ set_shutting_down \/ NotifyShutdown
=============================================================================
