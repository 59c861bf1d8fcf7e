-------------------------------- MODULE Stats --------------------------------
(***************************************************************************)
(* What Stats (src/src/stats.rs) promises those who call it, as if each of *)
(* its functions were one atomic step.  An answer is counted if the        *)
(* warm-up is over when record_request looks, and then it is in the final  *)
(* report, with its bytes.  The live lines together never tell of more     *)
(* answers than that.  The histogram may hold a few latencies of answers   *)
(* that are not counted.                                                   *)
(***************************************************************************)
EXTENDS Naturals

CONSTANT Strays    \* how many latencies may be sampled without being counted

VARIABLES
  is_warmup,
  counted,    \* answers that found the warm-up over
  told,       \* answers in the live lines so far
  report      \* the final report, in a set that is empty before it is printed

statsVars == <<is_warmup, counted, told, report>>

Init == is_warmup = TRUE /\ counted = 0 /\ told = 0 /\ report = {}

\* The end of the warm-up takes nothing away that was counted.
EndWarmup ==
  /\ is_warmup /\ is_warmup' = FALSE
  /\ UNCHANGED <<counted, told, report>>

\* An answer whose record is not in time for the report is not counted either.
RecordRequest ==
  /\ ~is_warmup /\ report = {}
  /\ counted' = counted + 1
  /\ UNCHANGED <<is_warmup, told, report>>

\* A live line tells of answers that no line before it has told of; of none, if it
\* comes in the same millisecond as the line before.
GetQps ==
  /\ ~is_warmup
  /\ told' \in told .. counted
  /\ UNCHANGED <<is_warmup, counted, report>>

\* The report is printed at most once; with -q it is not.  Bytes are counted in messages.
PrintFinalStats ==
  /\ ~is_warmup /\ report = {}
  /\ \E samples \in 0 .. counted + Strays :
       report' = {[requests |-> counted, sent |-> counted, received |-> counted,
                   samples |-> samples]}
  /\ UNCHANGED <<is_warmup, counted, told>>

Next == EndWarmup \/ RecordRequest \/ GetQps \/ PrintFinalStats

Spec == Init /\ [][Next]_statsVars
=============================================================================
