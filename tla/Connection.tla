------------------------------ MODULE Connection ------------------------------
(***************************************************************************)
(* What every connection task promises the runner, whatever its transport  *)
(* and mode (the four functions tcp_worker_pingpong, tcp_worker_pipeline,  *)
(* websocket_worker_pingpong and websocket_worker_pipeline): it is counted *)
(* once when it starts, it ends in exactly one of three ways, it is        *)
(* counted as successful only if it ran to its end, and once it has ended  *)
(* it touches no counter any more.  The runner prints the final report     *)
(* when all tasks have ended and relies on all of this.                    *)
(*                                                                         *)
(* Nothing here says when a task ends: that is the liveness the detailed   *)
(* modules establish under the fairness of the runtime.                    *)
(***************************************************************************)
EXTENDS Naturals

CONSTANT Conns    \* the connection tasks

VARIABLES
  conn,                 \* the state of each task
  total_connections,
  success_connections,
  connection_errors,
  total_requests

connVars == <<conn, total_connections, success_connections,
              connection_errors, total_requests>>

(***************************************************************************)
(* "waiting"  spawned, in its staggered delay                              *)
(* "open"     running: connecting, exchanging messages or closing          *)
(* "closed"   returned Ok, counted as successful                           *)
(* "failed"   returned Ok before the main loop, after recording an error   *)
(* "aborted"  returned Err, without touching a counter                     *)
(***************************************************************************)
ConnStates == {"waiting", "open", "closed", "failed", "aborted"}
Ended == {"closed", "failed", "aborted"}

Init ==
  /\ conn = [c \in Conns |-> "waiting"]
  /\ total_connections = 0
  /\ success_connections = 0
  /\ connection_errors = 0
  /\ total_requests = 0

Begin(c) ==
  /\ conn[c] = "waiting"
  /\ conn' = [conn EXCEPT ![c] = "open"]
  /\ total_connections' = total_connections + 1
  /\ UNCHANGED <<success_connections, connection_errors, total_requests>>

Answer(c) ==
  /\ conn[c] = "open"
  /\ total_requests' = total_requests + 1
  /\ UNCHANGED <<conn, total_connections, success_connections, connection_errors>>

Fault(c) ==
  /\ conn[c] = "open"
  /\ connection_errors' = connection_errors + 1
  /\ UNCHANGED <<conn, total_connections, success_connections, total_requests>>

GiveUp(c) ==
  /\ conn[c] = "open"
  /\ conn' = [conn EXCEPT ![c] = "failed"]
  /\ connection_errors' = connection_errors + 1
  /\ UNCHANGED <<total_connections, success_connections, total_requests>>

Abort(c) ==
  /\ conn[c] = "open"
  /\ conn' = [conn EXCEPT ![c] = "aborted"]
  /\ UNCHANGED <<total_connections, success_connections, connection_errors,
                 total_requests>>

Finish(c) ==
  /\ conn[c] = "open"
  /\ conn' = [conn EXCEPT ![c] = "closed"]
  /\ success_connections' = success_connections + 1
  /\ UNCHANGED <<total_connections, connection_errors, total_requests>>

\* The runner's reset at the end of the warm-up.
ResetRequests ==
  /\ total_requests' = 0
  /\ UNCHANGED <<conn, total_connections, success_connections, connection_errors>>

ConnStep(c) ==
  Begin(c) \/ Answer(c) \/ Fault(c) \/ GiveUp(c) \/ Abort(c) \/ Finish(c)

Next == ResetRequests \/ \E c \in Conns : ConnStep(c)

Spec == Init /\ [][Next]_connVars
=============================================================================
