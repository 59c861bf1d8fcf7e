---------------------------- MODULE StatsAtomics ----------------------------
(***************************************************************************)
(* The counters of Stats (src/src/stats.rs) one atomic operation at a      *)
(* time.  Workers call record_request and record_latency, async_main calls *)
(* end_warmup and, at the very end, print_final_stats, and the printer     *)
(* task of src/src/runner.rs calls get_qps.  None of them takes a lock     *)
(* over more than the histogram, so between any two loads and stores below *)
(* anything else may happen.                                               *)
(*                                                                         *)
(* The operations are relaxed; that they become visible in program order   *)
(* is what x86-64 guarantees for the stores of one thread.  Bytes are      *)
(* counted in messages, the histogram by its number of entries.  The clock *)
(* is the system's, which is taken not to be set back.                     *)
(***************************************************************************)
EXTENDS Integers, FiniteSets

CONSTANTS
  Recorders,        \* the tasks that record answers
  LatencyFirst,     \* those that call record_latency before record_request
  SampleEvery,      \* one latency in SampleEvery enters the histogram
  MaxAnswers,       \* bound: answers per recorder
  MaxTime           \* bound: readings of the clock

ASSUME RecordersAssumption == IsFiniteSet(Recorders) /\ LatencyFirst \subseteq Recorders
ASSUME SampleEveryAssumption == SampleEvery \in Nat \ {0}
ASSUME BoundsAssumption == MaxAnswers \in Nat /\ MaxTime \in Nat

VARIABLES
  main,                                           \* where async_main is
  pc, answers,                                    \* of each recorder
  total_requests, total_bytes_sent, total_bytes_received, latency_histogram,
  is_warmup,
  last_print_time, last_print_count,
  printer, now, current_count, last_time, last_count,   \* the printer and its locals
  clock,                                          \* unix_timestamp_millis()
  quiet,     \* config.quiet, which never changes
  due,       \* history: answers that found the warm-up over
  first_count,   \* history: where the printer's first interval began
  covered,   \* history: requests in the intervals get_qps has measured
  skipped    \* history: requests in those it has given up as too short

counters == <<total_requests, total_bytes_sent, total_bytes_received, latency_histogram>>
prints == <<last_print_time, last_print_count>>
recorderVars == <<pc, answers, due>>
intervals == <<first_count, covered, skipped>>
printerVars == <<printer, now, current_count, last_time, last_count, intervals>>
vars == <<main, recorderVars, counters, is_warmup, prints, printerVars, clock, quiet>>

(***************************************************************************)
(* async_main is at "warmup" until the first store of end_warmup, then at  *)
(* the store that comes next, then "running" until every worker has ended. *)
(***************************************************************************)
MainStates == {"warmup", "reset_sent", "reset_received", "reset_histogram", "reset_count",
               "reset_time", "clear_warmup", "running", "joined"}
RecorderStates == {"idle", "latency", "record", "request", "add_request", "add_sent",
                   "add_received", "ended"}
PrinterStates == {"poll", "base_time", "base_load", "base_store", "tick", "qps_load",
                  "swap_time", "swap_count", "subtract", "done"}

TypeOK ==
  /\ main \in MainStates /\ printer \in PrinterStates
  /\ pc \in [Recorders -> RecorderStates]
  /\ answers \in [Recorders -> Nat]
  /\ total_requests \in Nat /\ total_bytes_sent \in Nat
  /\ total_bytes_received \in Nat /\ latency_histogram \in Nat
  /\ is_warmup \in BOOLEAN
  /\ last_print_time \in Nat /\ last_print_count \in Nat
  /\ now \in Nat /\ current_count \in Nat /\ last_time \in Nat /\ last_count \in Nat
  /\ clock \in Nat /\ quiet \in BOOLEAN
  /\ due \in Nat /\ first_count \in Nat /\ covered \in Int /\ skipped \in Int

Init ==
  /\ main = "warmup" /\ printer = "poll"
  /\ pc = [r \in Recorders |-> "idle"]
  /\ answers = [r \in Recorders |-> 0]
  /\ total_requests = 0 /\ total_bytes_sent = 0
  /\ total_bytes_received = 0 /\ latency_histogram = 0
  /\ is_warmup = TRUE
  /\ last_print_time = 0 /\ last_print_count = 0
  /\ now = 0 /\ current_count = 0 /\ last_time = 0 /\ last_count = 0
  /\ clock = 0 /\ quiet \in BOOLEAN
  /\ due = 0 /\ first_count = 0 /\ covered = 0 /\ skipped = 0

-----------------------------------------------------------------------------
(***************************************************************************)
(* A worker has an answer and records it.                                  *)
(***************************************************************************)
FirstCall(r) == IF r \in LatencyFirst THEN "latency" ELSE "request"
AfterLatency(r) == IF r \in LatencyFirst THEN "request" ELSE "idle"
AfterRequest(r) == IF r \in LatencyFirst THEN "idle" ELSE "latency"

Goes(r, from, to) == pc[r] = from /\ pc' = [pc EXCEPT ![r] = to]

RecordersOnly == UNCHANGED <<main, is_warmup, prints, printerVars, clock, quiet>>

Answer(r) ==
  /\ answers[r] < MaxAnswers
  /\ Goes(r, "idle", FirstCall(r))
  /\ answers' = [answers EXCEPT ![r] = @ + 1]
  /\ UNCHANGED <<counters, due>> /\ RecordersOnly

\* record_latency: the sample count, then the load of is_warmup ...
SampleCheck(r) ==
  /\ Goes(r, "latency", IF answers[r] % SampleEvery = 0 /\ ~is_warmup
                        THEN "record" ELSE AfterLatency(r))
  /\ UNCHANGED <<answers, counters, due>> /\ RecordersOnly

\* ... and the histogram, under its lock.  It refuses what is beyond 60 seconds.
RecordSample(r) ==
  /\ Goes(r, "record", AfterLatency(r))
  /\ latency_histogram' \in {latency_histogram, latency_histogram + 1}
  /\ UNCHANGED <<answers, total_requests, total_bytes_sent, total_bytes_received, due>>
  /\ RecordersOnly

\* record_request: the load of is_warmup and three separate fetch_adds.
RequestCheck(r) ==
  /\ Goes(r, "request", IF is_warmup THEN AfterRequest(r) ELSE "add_request")
  /\ due' = IF is_warmup THEN due ELSE due + 1
  /\ UNCHANGED <<answers, counters>> /\ RecordersOnly

AddRequest(r) ==
  /\ Goes(r, "add_request", "add_sent")
  /\ total_requests' = total_requests + 1
  /\ UNCHANGED <<answers, total_bytes_sent, total_bytes_received, latency_histogram, due>>
  /\ RecordersOnly

AddSent(r) ==
  /\ Goes(r, "add_sent", "add_received")
  /\ total_bytes_sent' = total_bytes_sent + 1
  /\ UNCHANGED <<answers, total_requests, total_bytes_received, latency_histogram, due>>
  /\ RecordersOnly

AddReceived(r) ==
  /\ Goes(r, "add_received", AfterRequest(r))
  /\ total_bytes_received' = total_bytes_received + 1
  /\ UNCHANGED <<answers, total_requests, total_bytes_sent, latency_histogram, due>>
  /\ RecordersOnly

\* A worker may end at any time, but not in the middle of a record.
End(r) ==
  /\ Goes(r, "idle", "ended")
  /\ UNCHANGED <<answers, counters, due>> /\ RecordersOnly

Record(r) ==
  Answer(r) \/ SampleCheck(r) \/ RecordSample(r) \/ RequestCheck(r) \/ AddRequest(r)
  \/ AddSent(r) \/ AddReceived(r) \/ End(r)

-----------------------------------------------------------------------------
(***************************************************************************)
(* end_warmup, store by store; then async_main waits for the workers.      *)
(***************************************************************************)
MainGoes(from, to) == main = from /\ main' = to

MainOnly == UNCHANGED <<recorderVars, printerVars, clock, quiet>>

\* Mutant: the flag is cleared before the resets.
ResetRequestsAfterFlag ==
  /\ MainGoes("warmup", "reset_sent")
  /\ is_warmup' = FALSE
  /\ total_requests' = 0
  /\ UNCHANGED <<total_bytes_sent, total_bytes_received, latency_histogram, prints>>
  /\ MainOnly

ResetRequests ==
  /\ MainGoes("warmup", "reset_sent")
  /\ total_requests' = 0
  /\ UNCHANGED <<total_bytes_sent, total_bytes_received, latency_histogram, is_warmup, prints>>
  /\ MainOnly

ResetSent ==
  /\ MainGoes("reset_sent", "reset_received")
  /\ total_bytes_sent' = 0
  /\ UNCHANGED <<total_requests, total_bytes_received, latency_histogram, is_warmup, prints>>
  /\ MainOnly

ResetReceived ==
  /\ MainGoes("reset_received", "reset_histogram")
  /\ total_bytes_received' = 0
  /\ UNCHANGED <<total_requests, total_bytes_sent, latency_histogram, is_warmup, prints>>
  /\ MainOnly

ResetHistogram ==
  /\ MainGoes("reset_histogram", "reset_count")
  /\ latency_histogram' = 0
  /\ UNCHANGED <<total_requests, total_bytes_sent, total_bytes_received, is_warmup, prints>>
  /\ MainOnly

ResetPrintCount ==
  /\ MainGoes("reset_count", "reset_time")
  /\ last_print_count' = 0
  /\ UNCHANGED <<counters, is_warmup, last_print_time>>
  /\ MainOnly

\* Mutant: the first interval is made to begin before the end of the warm-up.
ResetPrintTimeBackdated ==
  /\ MainGoes("reset_time", "clear_warmup")
  /\ last_print_time' = clock - 1
  /\ UNCHANGED <<counters, is_warmup, last_print_count>>
  /\ MainOnly

ResetPrintTime ==
  /\ MainGoes("reset_time", "clear_warmup")
  /\ last_print_time' = clock
  /\ UNCHANGED <<counters, is_warmup, last_print_count>>
  /\ MainOnly

\* The flag comes last: whoever sees it cleared comes after every reset.
ClearWarmup ==
  /\ MainGoes("clear_warmup", "running")
  /\ is_warmup' = FALSE
  /\ UNCHANGED <<counters, prints>>
  /\ MainOnly

\* Mutant: the final report does not wait for the workers.
JoinNobody ==
  /\ MainGoes("running", "joined")
  /\ UNCHANGED <<counters, is_warmup, prints>>
  /\ MainOnly

\* The final report is printed when every worker has ended.
JoinWorkers ==
  /\ MainGoes("running", "joined")
  /\ \A r \in Recorders : pc[r] = "ended"
  /\ UNCHANGED <<counters, is_warmup, prints>>
  /\ MainOnly

Main ==
  ResetRequests \/ ResetSent \/ ResetReceived \/ ResetHistogram \/ ResetPrintCount
  \/ ResetPrintTime \/ ClearWarmup \/ JoinWorkers

-----------------------------------------------------------------------------
(***************************************************************************)
(* The printer task, which is not spawned with -q.                         *)
(***************************************************************************)
PrinterGoes(from, to) == printer = from /\ printer' = to

PrinterOnly == UNCHANGED <<main, recorderVars, counters, is_warmup, clock, quiet>>

\* Mutant: the printer starts at once.
SeesNothing ==
  /\ PrinterGoes("poll", "base_time") /\ ~quiet
  /\ UNCHANGED <<prints, now, current_count, last_time, last_count, intervals>>
  /\ PrinterOnly

\* It polls is_warmup every 100 ms and then sleeps for a second.
SeesWarmupOver ==
  /\ PrinterGoes("poll", "base_time") /\ ~quiet /\ ~is_warmup
  /\ UNCHANGED <<prints, now, current_count, last_time, last_count, intervals>>
  /\ PrinterOnly

SetPrintTime ==
  /\ PrinterGoes("base_time", "base_load")
  /\ last_print_time' = clock
  /\ UNCHANGED <<last_print_count, now, current_count, last_time, last_count, intervals>>
  /\ PrinterOnly

LoadFirstCount ==
  /\ PrinterGoes("base_load", "base_store")
  /\ current_count' = total_requests
  /\ UNCHANGED <<prints, now, last_time, last_count, intervals>>
  /\ PrinterOnly

StoreFirstCount ==
  /\ PrinterGoes("base_store", "tick")
  /\ last_print_count' = current_count
  /\ first_count' = current_count
  /\ UNCHANGED <<last_print_time, now, current_count, last_time, last_count, covered,
                 skipped>>
  /\ PrinterOnly

\* get_qps: the clock, the count, two swaps, two subtractions.
ReadClock ==
  /\ PrinterGoes("tick", "qps_load")
  /\ now' = clock
  /\ UNCHANGED <<prints, current_count, last_time, last_count, intervals>>
  /\ PrinterOnly

LoadCount ==
  /\ PrinterGoes("qps_load", "swap_time")
  /\ current_count' = total_requests
  /\ UNCHANGED <<prints, now, last_time, last_count, intervals>>
  /\ PrinterOnly

SwapPrintTime ==
  /\ PrinterGoes("swap_time", "swap_count")
  /\ last_time' = last_print_time
  /\ last_print_time' = now
  /\ UNCHANGED <<last_print_count, now, current_count, last_count, intervals>>
  /\ PrinterOnly

\* Mutant: a load for the swap.
ReadPrintCount ==
  /\ PrinterGoes("swap_count", "subtract")
  /\ last_count' = last_print_count
  /\ UNCHANGED <<prints, now, current_count, last_time, intervals>>
  /\ PrinterOnly

SwapPrintCount ==
  /\ PrinterGoes("swap_count", "subtract")
  /\ last_count' = last_print_count
  /\ last_print_count' = current_count
  /\ UNCHANGED <<last_print_time, now, current_count, last_time, intervals>>
  /\ PrinterOnly

\* Both differences are of u64; they are taken as integers here, and shown never
\* to be negative (QpsNeverUnderflows) as long as the clock is not set back.  A
\* second call in one millisecond says 0.0 instead, its swaps done all the same; the
\* first tick of the interval is due at once and may well be in the millisecond of
\* SetPrintTime.
Subtract ==
  /\ PrinterGoes("subtract", "tick")
  /\ \/ /\ now - last_time < 1
        /\ skipped' = skipped + (current_count - last_count)
        /\ UNCHANGED covered
     \/ /\ now - last_time >= 1
        /\ covered' = covered + (current_count - last_count)
        /\ UNCHANGED skipped
  /\ UNCHANGED <<prints, now, current_count, last_time, last_count, first_count>>
  /\ PrinterOnly

\* The shutdown is heard between two lines, never within one.
PrinterEnds ==
  /\ PrinterGoes("tick", "done")
  /\ UNCHANGED <<prints, now, current_count, last_time, last_count, intervals>>
  /\ PrinterOnly

Printer ==
  SeesWarmupOver \/ SetPrintTime \/ LoadFirstCount \/ StoreFirstCount \/ ReadClock
  \/ LoadCount \/ SwapPrintTime \/ SwapPrintCount \/ Subtract \/ PrinterEnds

-----------------------------------------------------------------------------
ClockAdvances ==
  /\ clock < MaxTime /\ clock' = clock + 1
  /\ UNCHANGED <<main, recorderVars, counters, is_warmup, prints, printerVars, quiet>>

Next ==
  (\E r \in Recorders : Record(r)) \/ Main \/ Printer \/ ClockAdvances

Spec == Init /\ [][Next]_vars

-----------------------------------------------------------------------------
(***************************************************************************)
(* Safety.                                                                 *)
(***************************************************************************)

\* The reset at the end of the warm-up erases nothing that was counted, although
\* the workers go on recording while it runs and nothing stops them.
CountersNeverDecrease ==
  [][/\ total_requests <= total_requests' /\ total_bytes_sent <= total_bytes_sent'
     /\ total_bytes_received <= total_bytes_received'
     /\ latency_histogram <= latency_histogram']_vars

\* The u64 subtractions of get_qps do not wrap around.
QpsNeverUnderflows ==
  printer = "subtract" => last_count <= current_count /\ last_time <= now

\* No request is told of in two live lines, and none is lost between two calls of
\* get_qps, whatever the workers add in between: from the first interval on, every
\* request was in the interval of one call, which told of it or, if it was the second
\* in one millisecond, gave it up.
LiveIntervalsAddUp ==
  printer \in {"tick", "qps_load", "swap_time", "swap_count", "done"} =>
    last_print_count = first_count + covered + skipped

(***************************************************************************)
(* The promise of Stats.  An answer counts from the moment record_request  *)
(* finds the warm-up over, before its three adds; a live line when its     *)
(* difference is taken; and the report is what the counters hold when the  *)
(* workers have ended, unless -q keeps it back.                            *)
(***************************************************************************)
FinalReport ==
  IF main = "joined" /\ ~quiet
  THEN {[requests |-> total_requests, sent |-> total_bytes_sent,
         received |-> total_bytes_received, samples |-> latency_histogram]}
  ELSE {}

Calls == INSTANCE Stats
       WITH counted <- due, told <- covered, report <- FinalReport,
            Strays <- Cardinality(Recorders \ LatencyFirst)

\* Whatever the workers, the reset and the printer do between two loads or stores of one
\* call, the counters tell the same as if each call were one step: the reset loses no
\* answer that was recorded while it ran; the report has every answer that found the
\* warm-up over, with its bytes, and at most one stray latency of each worker that looks
\* at the flag again after its request; and the live lines never tell of more.
StatsSpec == Calls!Spec
=============================================================================
