------------------------- MODULE StatsAtomicsProofs -------------------------
(***************************************************************************)
(* Proofs about StatsAtomics for any number of workers and answers.  The   *)
(* invariant says why relaxed, separate operations are enough: while the   *)
(* warm-up flag is set nothing is counted and the printer has not begun,   *)
(* so that the resets meet zeros and no one sees them half done; and the   *)
(* one task that swaps last_print_count and last_print_time only ever      *)
(* moves them forward.  From there to the report it is a matter of who     *)
(* owes how much to which counter, and the whole implements Stats.         *)
(***************************************************************************)
EXTENDS StatsAtomics, FiniteSetTheorems, TLAPS

-----------------------------------------------------------------------------
(***************************************************************************)
(* How many workers are at a given step.                                   *)
(***************************************************************************)
\* The members of Q that f takes into S.
In(Q, f, S) == {q \in Q : f[q] \in S}

\* From f to g nobody in Q moves but r.
OneMoves(Q, f, g, r) == \A q \in Q : q # r => g[q] = f[q]

\* Such a number is one.
LEMMA CountType ==
  ASSUME NEW Q, IsFiniteSet(Q), NEW f, NEW S
  PROVE  /\ IsFiniteSet(In(Q, f, S))
         /\ Cardinality(In(Q, f, S)) \in Nat
         /\ Cardinality(In(Q, f, S)) <= Cardinality(Q)
         /\ Cardinality(Q) \in Nat
<1>1. In(Q, f, S) \in SUBSET Q
  BY DEF In
<1> QED
  BY <1>1, FS_Subset, FS_CardinalityType

\* If one member enters the states that count, and the others stay, there is one more.
LEMMA CountEnters ==
  ASSUME NEW Q, IsFiniteSet(Q), NEW f, NEW g, NEW r \in Q, NEW S,
         OneMoves(Q, f, g, r), f[r] \notin S, g[r] \in S
  PROVE  Cardinality(In(Q, g, S)) = Cardinality(In(Q, f, S)) + 1
<1>1. In(Q, g, S) = In(Q, f, S) \cup {r} /\ r \notin In(Q, f, S)
  BY DEF In, OneMoves
<1>2. IsFiniteSet(In(Q, f, S))
  BY CountType
<1> QED
  BY <1>1, <1>2, FS_AddElement

\* If one member leaves them, there is one less.
LEMMA CountLeaves ==
  ASSUME NEW Q, IsFiniteSet(Q), NEW f, NEW g, NEW r \in Q, NEW S,
         OneMoves(Q, f, g, r), f[r] \in S, g[r] \notin S
  PROVE  Cardinality(In(Q, f, S)) = Cardinality(In(Q, g, S)) + 1
<1>1. OneMoves(Q, g, f, r)
  BY DEF OneMoves
<1> QED
  BY <1>1, CountEnters

\* If none moves that counts, the number stays.
LEMMA CountStays ==
  ASSUME NEW Q, NEW f, NEW g, NEW S, \A q \in Q : f[q] \in S <=> g[q] \in S
  PROVE  In(Q, g, S) = In(Q, f, S)
BY DEF In

\* From f to g nobody in Q moves but r, from this place to that.
Moves(Q, f, g, r, from, to) == OneMoves(Q, f, g, r) /\ f[r] = from /\ g[r] = to

\* All of this for one that moves, wherever it is and goes.
LEMMA CountMoves ==
  ASSUME NEW P, IsFiniteSet(P), NEW Q \in SUBSET P, NEW f, NEW g, NEW r, NEW from, NEW to,
         NEW S, Moves(P, f, g, r, from, to)
  PROVE  /\ Cardinality(In(Q, f, S)) \in Nat /\ Cardinality(In(Q, g, S)) \in Nat
         /\ r \in Q /\ from \notin S /\ to \in S =>
              Cardinality(In(Q, g, S)) = Cardinality(In(Q, f, S)) + 1
         /\ r \in Q /\ from \in S /\ to \notin S =>
              Cardinality(In(Q, f, S)) = Cardinality(In(Q, g, S)) + 1
         /\ r \notin Q \/ (from \in S <=> to \in S) =>
              Cardinality(In(Q, g, S)) = Cardinality(In(Q, f, S))
<1>0. IsFiniteSet(Q)
  BY FS_Subset
<1>1. OneMoves(Q, f, g, r) /\ f[r] = from /\ g[r] = to
  BY DEF Moves, OneMoves
<1>2. Cardinality(In(Q, f, S)) \in Nat /\ Cardinality(In(Q, g, S)) \in Nat
  BY <1>0, CountType
<1>3. ASSUME r \in Q, from \notin S, to \in S
      PROVE  Cardinality(In(Q, g, S)) = Cardinality(In(Q, f, S)) + 1
  BY <1>0, <1>1, <1>3, CountEnters
<1>4. ASSUME r \in Q, from \in S, to \notin S
      PROVE  Cardinality(In(Q, f, S)) = Cardinality(In(Q, g, S)) + 1
  BY <1>0, <1>1, <1>4, CountLeaves
<1>5. ASSUME r \notin Q \/ (from \in S <=> to \in S)
      PROVE  Cardinality(In(Q, g, S)) = Cardinality(In(Q, f, S))
  <2>1. \A q \in Q : f[q] \in S <=> g[q] \in S
    BY <1>1, <1>5 DEF OneMoves
  <2>2. In(Q, g, S) = In(Q, f, S)
    BY <2>1, CountStays
  <2> QED
    BY <2>2
<1> QED
  BY <1>2, <1>3, <1>4, <1>5

\* Nobody is where nobody can be.
LEMMA CountNone ==
  ASSUME NEW Q, NEW f, NEW S, \A q \in Q : f[q] \notin S
  PROVE  Cardinality(In(Q, f, S)) = 0
<1>1. In(Q, f, S) = {}
  BY DEF In
<1> QED
  BY <1>1, FS_EmptySet

-----------------------------------------------------------------------------
\* While the flag is set all counters are zero and nobody is past the test of it.
WarmupInv ==
  /\ is_warmup <=> main \notin {"running", "joined"}
  /\ is_warmup =>
       /\ total_requests = 0 /\ total_bytes_sent = 0
       /\ total_bytes_received = 0 /\ latency_histogram = 0
       /\ printer = "poll"
       /\ \A r \in Recorders :
            pc[r] \notin {"record", "add_request", "add_sent", "add_received"}

\* What the printer remembers was true at some earlier moment.
PrintInv ==
  /\ printer = "poll" => last_print_count = 0
  /\ printer \in {"poll", "base_time", "base_load", "base_store"} => covered = 0 /\ skipped = 0
  /\ 0 <= covered /\ 0 <= skipped
  /\ last_print_count <= total_requests /\ last_print_time <= clock
  /\ printer = "base_store" => current_count <= total_requests
  /\ printer \in {"qps_load", "swap_time"} => last_print_time <= now /\ now <= clock
  /\ printer \in {"swap_time", "swap_count"} =>
       last_print_count <= current_count /\ current_count <= total_requests
  /\ printer = "swap_count" => last_time <= now
  /\ printer = "subtract" =>
       /\ last_count <= current_count /\ last_time <= now
       /\ last_print_count = current_count /\ last_count = first_count + covered + skipped

IInv == TypeOK /\ WarmupInv /\ PrintInv /\ LiveIntervalsAddUp

\* Where a step of a worker may lead while the flag is set.
Unguarded == {"idle", "latency", "request", "ended"}

\* A step of a worker moves its own program counter, past a test of the flag only
\* if the flag is cleared.
LEMMA RecordGoes ==
  ASSUME TypeOK, WarmupInv, NEW r \in Recorders, Record(r)
  PROVE  \E to \in RecorderStates : /\ pc' = [pc EXCEPT ![r] = to]
                                    /\ is_warmup => to \in Unguarded
<1> USE DEF Goes, RecorderStates, Unguarded
<1>1. CASE Answer(r)
  BY <1>1 DEF Answer, FirstCall
<1>2. CASE SampleCheck(r)
  <2>1. CASE answers[r] % SampleEvery = 0 /\ ~is_warmup
    BY <1>2, <2>1 DEF SampleCheck
  <2>2. CASE ~(answers[r] % SampleEvery = 0 /\ ~is_warmup)
    <3>1. pc' = [pc EXCEPT ![r] = AfterLatency(r)]
      BY <1>2, <2>2 DEF SampleCheck
    <3> QED
      BY <3>1 DEF AfterLatency
  <2> QED
    BY <2>1, <2>2
<1>3. CASE RecordSample(r)
  BY <1>3 DEF RecordSample, AfterLatency
<1>4. CASE RequestCheck(r)
  <2>1. CASE is_warmup
    BY <1>4, <2>1 DEF RequestCheck, AfterRequest
  <2>2. CASE ~is_warmup
    BY <1>4, <2>2 DEF RequestCheck
  <2> QED
    BY <2>1, <2>2
<1>5. CASE AddRequest(r) \/ AddSent(r)
  BY <1>5 DEF AddRequest, AddSent, WarmupInv
<1>6. CASE AddReceived(r)
  BY <1>6 DEF AddReceived, AfterRequest
<1>7. CASE End(r)
  BY <1>7 DEF End
<1> QED
  BY <1>1, <1>2, <1>3, <1>4, <1>5, <1>6, <1>7 DEF Record

\* A step of a worker adds at most one to at most one counter, and none while the
\* flag is set.
LEMMA RecordFacts ==
  ASSUME TypeOK, WarmupInv, NEW r \in Recorders, Record(r)
  PROVE  /\ UNCHANGED <<main, is_warmup, prints, printerVars, clock, quiet>>
         /\ \/ UNCHANGED counters
            \/ /\ ~is_warmup
               /\ \/ /\ total_requests' = total_requests + 1
                     /\ UNCHANGED <<total_bytes_sent, total_bytes_received, latency_histogram>>
                  \/ /\ total_bytes_sent' = total_bytes_sent + 1
                     /\ UNCHANGED <<total_requests, total_bytes_received, latency_histogram>>
                  \/ /\ total_bytes_received' = total_bytes_received + 1
                     /\ UNCHANGED <<total_requests, total_bytes_sent, latency_histogram>>
                  \/ /\ latency_histogram' = latency_histogram + 1
                     /\ UNCHANGED <<total_requests, total_bytes_sent, total_bytes_received>>
         /\ answers' \in [Recorders -> Nat] /\ due' \in Nat
<1>1. UNCHANGED <<main, is_warmup, prints, printerVars, clock, quiet>>
  BY DEF Record, Answer, SampleCheck, RecordSample, RequestCheck, AddRequest, AddSent,
     AddReceived, End, RecordersOnly
<1>2. answers' \in [Recorders -> Nat] /\ due' \in Nat
  BY DEF Record, Answer, SampleCheck, RecordSample, RequestCheck, AddRequest, AddSent,
     AddReceived, End, TypeOK
<1>3. CASE Answer(r) \/ SampleCheck(r) \/ RequestCheck(r) \/ End(r)
  <2>1. UNCHANGED counters
    BY <1>3 DEF Answer, SampleCheck, RequestCheck, End
  <2> QED
    BY <1>1, <1>2, <2>1
<1>4. ASSUME RecordSample(r) \/ AddRequest(r) \/ AddSent(r) \/ AddReceived(r)
      PROVE  ~is_warmup
  BY <1>4 DEF RecordSample, AddRequest, AddSent, AddReceived, Goes, WarmupInv
<1>5. CASE RecordSample(r)
  <2>1. CASE latency_histogram' = latency_histogram
    <3>1. UNCHANGED counters
      BY <1>5, <2>1 DEF RecordSample, counters
    <3> QED
      BY <1>1, <1>2, <3>1
  <2>2. CASE latency_histogram' = latency_histogram + 1
    BY <1>1, <1>2, <1>4, <1>5, <2>2 DEF RecordSample
  <2> QED
    BY <1>5, <2>1, <2>2 DEF RecordSample
<1>6. CASE AddRequest(r)
  BY <1>1, <1>2, <1>4, <1>6 DEF AddRequest
<1>7. CASE AddSent(r)
  BY <1>1, <1>2, <1>4, <1>7 DEF AddSent
<1>8. CASE AddReceived(r)
  BY <1>1, <1>2, <1>4, <1>8 DEF AddReceived
<1> QED
  BY <1>3, <1>5, <1>6, <1>7, <1>8 DEF Record

\* The initial state.
LEMMA InductiveInit == Init => IInv
<1> SUFFICES ASSUME Init PROVE IInv
  OBVIOUS
<1>1. TypeOK
  BY DEF Init, TypeOK, MainStates, PrinterStates, RecorderStates
<1>2. WarmupInv
  BY DEF Init, WarmupInv
<1>3. PrintInv /\ LiveIntervalsAddUp
  BY DEF Init, PrintInv, LiveIntervalsAddUp
<1> QED
  BY <1>1, <1>2, <1>3 DEF IInv

\* A worker only ever adds, and not while the flag is set.
LEMMA RecordNext ==
  ASSUME IInv, NEW r \in Recorders, Record(r)
  PROVE  IInv'
<1> USE DEF IInv
<1>1. UNCHANGED <<main, is_warmup, prints, printerVars, clock, quiet>>
  BY RecordFacts
<1>2. PICK to \in RecorderStates : /\ pc' = [pc EXCEPT ![r] = to]
                                   /\ is_warmup => to \in Unguarded
  BY RecordGoes
<1>3. PICK a, b, c, d \in {0, 1} :
        /\ total_requests' = total_requests + a
        /\ total_bytes_sent' = total_bytes_sent + b
        /\ total_bytes_received' = total_bytes_received + c
        /\ latency_histogram' = latency_histogram + d
        /\ is_warmup => a = 0 /\ b = 0 /\ c = 0 /\ d = 0
  <2>1. /\ total_requests + 0 = total_requests /\ total_bytes_sent + 0 = total_bytes_sent
        /\ total_bytes_received + 0 = total_bytes_received
        /\ latency_histogram + 0 = latency_histogram
    BY DEF TypeOK
  <2> QED
    BY <2>1, RecordFacts DEF counters
<1>4. pc' \in [Recorders -> RecorderStates]
  BY <1>2 DEF TypeOK
<1>5. /\ total_requests' \in Nat /\ total_bytes_sent' \in Nat
      /\ total_bytes_received' \in Nat /\ latency_histogram' \in Nat
  BY <1>3 DEF TypeOK
<1>6. TypeOK'
  <2>1. answers' \in [Recorders -> Nat] /\ due' \in Nat
    BY RecordFacts
  <2> QED
    BY <1>1, <1>4, <1>5, <2>1 DEF TypeOK, prints, printerVars, intervals
<1>7. WarmupInv'
  <2>1. is_warmup => /\ total_requests' = 0 /\ total_bytes_sent' = 0
                     /\ total_bytes_received' = 0 /\ latency_histogram' = 0
    BY <1>3 DEF WarmupInv
  <2>2. is_warmup => \A q \in Recorders :
          pc'[q] \notin {"record", "add_request", "add_sent", "add_received"}
    BY <1>2 DEF WarmupInv, TypeOK, Unguarded
  <2> QED
    BY <1>1, <2>1, <2>2 DEF WarmupInv, printerVars, intervals
<1>8. PrintInv'
  BY <1>1, <1>3 DEF TypeOK, PrintInv, prints, printerVars, intervals
<1>9. LiveIntervalsAddUp'
  BY <1>1 DEF LiveIntervalsAddUp, prints, printerVars, intervals
<1> QED
  BY <1>6, <1>7, <1>8, <1>9

\* The resets find zeros; the last store is what lets the others begin.
LEMMA MainNext ==
  ASSUME IInv, Main
  PROVE  IInv'
<1> USE DEF IInv, MainGoes, MainOnly, recorderVars, printerVars, intervals, counters,
            prints, TypeOK, MainStates, WarmupInv, PrintInv, LiveIntervalsAddUp
<1>1. CASE ResetRequests
  BY <1>1 DEF ResetRequests
<1>2. CASE ResetSent
  BY <1>2 DEF ResetSent
<1>3. CASE ResetReceived
  BY <1>3 DEF ResetReceived
<1>4. CASE ResetHistogram
  BY <1>4 DEF ResetHistogram
<1>5. CASE ResetPrintCount
  BY <1>5 DEF ResetPrintCount
<1>6. CASE ResetPrintTime
  BY <1>6 DEF ResetPrintTime
<1>7. CASE ClearWarmup
  BY <1>7 DEF ClearWarmup
<1>8. CASE JoinWorkers
  BY <1>8 DEF JoinWorkers
<1> QED
  BY <1>1, <1>2, <1>3, <1>4, <1>5, <1>6, <1>7, <1>8 DEF Main

\* The printer only moves the last printed time and count forward.
LEMMA PrinterNext ==
  ASSUME IInv, Printer
  PROVE  IInv'
<1> USE DEF IInv, PrinterGoes, PrinterOnly, intervals, recorderVars, counters, prints, TypeOK,
            PrinterStates, WarmupInv, PrintInv, LiveIntervalsAddUp
<1>1. CASE SeesWarmupOver
  BY <1>1 DEF SeesWarmupOver
<1>2. CASE SetPrintTime
  BY <1>2 DEF SetPrintTime
<1>3. CASE LoadFirstCount
  BY <1>3 DEF LoadFirstCount
<1>4. CASE StoreFirstCount
  BY <1>4 DEF StoreFirstCount
<1>5. CASE ReadClock
  BY <1>5 DEF ReadClock
<1>6. CASE LoadCount
  BY <1>6 DEF LoadCount
<1>7. CASE SwapPrintTime
  BY <1>7 DEF SwapPrintTime
<1>8. CASE SwapPrintCount
  BY <1>8 DEF SwapPrintCount
<1>9. CASE Subtract
  BY <1>9 DEF Subtract
<1>10. CASE PrinterEnds
  BY <1>10 DEF PrinterEnds
<1> QED
  BY <1>1, <1>2, <1>3, <1>4, <1>5, <1>6, <1>7, <1>8, <1>9, <1>10 DEF Printer

\* Every step keeps the inductive invariant.
LEMMA InductiveNext == IInv /\ [Next]_vars => IInv'
<1> SUFFICES ASSUME IInv, [Next]_vars PROVE IInv'
  OBVIOUS
<1>1. CASE ClockAdvances
  BY <1>1 DEF ClockAdvances, IInv, recorderVars, counters, prints, printerVars, intervals,
     TypeOK, WarmupInv, PrintInv, LiveIntervalsAddUp
<1>2. CASE UNCHANGED vars
  BY <1>2 DEF vars, IInv, recorderVars, counters, prints, printerVars, intervals,
     TypeOK, WarmupInv, PrintInv, LiveIntervalsAddUp
<1> QED
  BY <1>1, <1>2, RecordNext, MainNext, PrinterNext DEF Next

\* Every behaviour satisfies the inductive invariant.
LEMMA Inductive == Spec => []IInv
<1> QED
  BY InductiveInit, InductiveNext, PTL DEF Spec

\* Every variable keeps its type; in particular no counter is ever negative.
THEOREM TypeCorrect == Spec => []TypeOK
<1>1. IInv => TypeOK
  BY DEF IInv
<1> QED
  BY Inductive, <1>1, PTL

\* end_warmup erases nothing that was counted, however many workers record while it
\* runs: every add comes after the last of its stores.
THEOREM ResetErasesNothing == Spec => CountersNeverDecrease
<1> DEFINE Grow == /\ total_requests <= total_requests'
                   /\ total_bytes_sent <= total_bytes_sent'
                   /\ total_bytes_received <= total_bytes_received'
                   /\ latency_histogram <= latency_histogram'
<1>1. IInv /\ [Next]_vars => [Grow]_vars
  <2> SUFFICES ASSUME IInv, [Next]_vars PROVE Grow
    OBVIOUS
  <2> USE DEF IInv, TypeOK
  <2>1. ASSUME NEW r \in Recorders, Record(r) PROVE Grow
    BY <2>1, RecordFacts DEF counters
  <2>2. CASE Main
    BY <2>2 DEF Main, ResetRequests, ResetSent, ResetReceived, ResetHistogram,
       ResetPrintCount, ResetPrintTime, ClearWarmup, JoinWorkers, MainGoes, WarmupInv,
       counters
  <2>3. CASE Printer \/ ClockAdvances \/ UNCHANGED vars
    <3>1. UNCHANGED counters
      BY <2>3 DEF Printer, SeesWarmupOver, SetPrintTime, LoadFirstCount, StoreFirstCount,
         ReadClock, LoadCount, SwapPrintTime, SwapPrintCount, Subtract, PrinterEnds,
         PrinterOnly, ClockAdvances, vars
    <3> QED
      BY <3>1 DEF counters
  <2> QED
    BY <2>1, <2>2, <2>3 DEF Next
<1> QED
  BY Inductive, <1>1, PTL DEF Spec, CountersNeverDecrease

\* The unsigned subtractions of get_qps never wrap around, although the count and
\* the clock are read before the swaps and workers add in between.
THEOREM QpsCorrect == Spec => []QpsNeverUnderflows
<1>1. IInv => QpsNeverUnderflows
  BY DEF IInv, PrintInv, QpsNeverUnderflows
<1> QED
  BY Inductive, <1>1, PTL

\* No request is told of twice by the live lines, nor lost between two calls of get_qps:
\* those no line tells of are the ones of a call in the millisecond of the one before.
THEOREM LiveIntervalsCorrect == Spec => []LiveIntervalsAddUp
<1>1. IInv => LiveIntervalsAddUp
  BY DEF IInv
<1> QED
  BY Inductive, <1>1, PTL

-----------------------------------------------------------------------------
(***************************************************************************)
(* The final report.  A worker that is between the test of the flag and    *)
(* one of its adds owes that add; when all have ended nobody owes any.     *)
(***************************************************************************)
Adding(p, S) == Cardinality(In(Recorders, p, S))

DueInv ==
  /\ is_warmup => due = 0
  /\ total_requests + Adding(pc, {"add_request"}) = due
  /\ total_bytes_sent + Adding(pc, {"add_request", "add_sent"}) = due
  /\ total_bytes_received + Adding(pc, {"add_request", "add_sent", "add_received"}) = due

(***************************************************************************)
(* A latency that is sampled before its request is counted is owed to the  *)
(* request test that comes next; one that is sampled afterwards has been   *)
(* paid for by its request, or else it is the one each pipeline worker may *)
(* have too many, because the flag was cleared between its two tests.      *)
(***************************************************************************)
Pipelines == Recorders \ LatencyFirst
PaidFor == {"add_request", "add_sent", "add_received", "latency", "record"}
Asking == {"request"}

Unsampled == Cardinality(In(Pipelines, pc, PaidFor))
Sampled == Cardinality(In(LatencyFirst, pc, Asking))

SampleInv ==
  ~is_warmup => latency_histogram + Unsampled <= (due + Cardinality(Pipelines)) + Sampled

\* How the number of workers in a set of places changes when one of them moves.
LEMMA WorkerMoves ==
  ASSUME TypeOK, NEW r \in Recorders, NEW from, NEW to, Goes(r, from, to)
  PROVE  \A Q \in SUBSET Recorders : \A S :
           /\ Cardinality(In(Q, pc, S)) \in Nat /\ Cardinality(In(Q, pc', S)) \in Nat
           /\ r \in Q /\ from \notin S /\ to \in S =>
                Cardinality(In(Q, pc', S)) = Cardinality(In(Q, pc, S)) + 1
           /\ r \in Q /\ from \in S /\ to \notin S =>
                Cardinality(In(Q, pc, S)) = Cardinality(In(Q, pc', S)) + 1
           /\ r \notin Q \/ (from \in S <=> to \in S) =>
                Cardinality(In(Q, pc', S)) = Cardinality(In(Q, pc, S))
<1>1. Moves(Recorders, pc, pc', r, from, to)
  BY DEF TypeOK, Goes, Moves, OneMoves
<1> HIDE DEF Goes
<1> QED
  BY <1>1, RecordersAssumption, CountMoves

\* A worker that takes up a debt, one that pays it and one that leaves it as it is.
LEMMA DebtMoves ==
  ASSUME TypeOK, NEW r \in Recorders, NEW from, NEW to, NEW S, Goes(r, from, to)
  PROVE  /\ Adding(pc, S) \in Nat /\ Adding(pc', S) \in Nat
         /\ from \notin S /\ to \in S => Adding(pc', S) = Adding(pc, S) + 1
         /\ from \in S /\ to \notin S => Adding(pc, S) = Adding(pc', S) + 1
         /\ (from \in S <=> to \in S) => Adding(pc', S) = Adding(pc, S)
<1>1. Recorders \in SUBSET Recorders
  OBVIOUS
<1> QED
  BY <1>1, WorkerMoves DEF Adding

\* Every step of a worker pays what it owes or owes what it promises.
LEMMA RecordOwes ==
  ASSUME TypeOK, WarmupInv, DueInv, NEW r \in Recorders, Record(r)
  PROVE  DueInv'
<1> DEFINE A == {"add_request"}
           B == {"add_request", "add_sent"}
           C == {"add_request", "add_sent", "add_received"}
           a == Adding(pc, A)
           b == Adding(pc, B)
           c == Adding(pc, C)
<1>1. is_warmup' = is_warmup
  BY RecordFacts
<1>2. /\ is_warmup => due = 0
      /\ total_requests + a = due /\ total_bytes_sent + b = due
      /\ total_bytes_received + c = due
      /\ total_requests \in Nat /\ total_bytes_sent \in Nat
      /\ total_bytes_received \in Nat /\ due \in Nat
  BY DEF DueInv, TypeOK
<1>3. SUFFICES /\ is_warmup => due' = 0
               /\ total_requests' + a' = due' /\ total_bytes_sent' + b' = due'
               /\ total_bytes_received' + c' = due'
  BY <1>1 DEF DueInv
<1>4. ASSUME NEW from, NEW to, Goes(r, from, to)
      PROVE  /\ a \in Nat /\ b \in Nat /\ c \in Nat /\ a' \in Nat /\ b' \in Nat /\ c' \in Nat
             /\ from \notin C /\ to \notin C => a' = a /\ b' = b /\ c' = c
             /\ from \notin C /\ to = "add_request" => a' = a + 1 /\ b' = b + 1 /\ c' = c + 1
             /\ from = "add_request" /\ to = "add_sent" => a = a' + 1 /\ b' = b /\ c' = c
             /\ from = "add_sent" /\ to = "add_received" => a' = a /\ b = b' + 1 /\ c' = c
             /\ from = "add_received" /\ to \notin C => a' = a /\ b' = b /\ c = c' + 1
  <2> HIDE DEF A, B, C
  <2>1. /\ a \in Nat /\ a' \in Nat
        /\ from \notin A /\ to \in A => a' = a + 1
        /\ from \in A /\ to \notin A => a = a' + 1
        /\ (from \in A <=> to \in A) => a' = a
    BY <1>4, DebtMoves
  <2>2. /\ b \in Nat /\ b' \in Nat
        /\ from \notin B /\ to \in B => b' = b + 1
        /\ from \in B /\ to \notin B => b = b' + 1
        /\ (from \in B <=> to \in B) => b' = b
    BY <1>4, DebtMoves
  <2>3. /\ c \in Nat /\ c' \in Nat
        /\ from \notin C /\ to \in C => c' = c + 1
        /\ from \in C /\ to \notin C => c = c' + 1
        /\ (from \in C <=> to \in C) => c' = c
    BY <1>4, DebtMoves
  <2> HIDE DEF a, b, c
  <2> QED
    BY <2>1, <2>2, <2>3 DEF A, B, C
<1> HIDE DEF a, b, c
<1>5. CASE Answer(r) \/ SampleCheck(r) \/ RecordSample(r) \/ End(r)
  <2>1. \E from, to : Goes(r, from, to) /\ from \notin C /\ to \notin C
    BY <1>5 DEF Answer, SampleCheck, RecordSample, End, FirstCall, AfterLatency
  <2>2. UNCHANGED <<due, total_requests, total_bytes_sent, total_bytes_received>>
    BY <1>5 DEF Answer, SampleCheck, RecordSample, End, counters
  <2> QED
    BY <1>2, <1>4, <2>1, <2>2
<1>6. CASE RequestCheck(r)
  <2>1. UNCHANGED <<total_requests, total_bytes_sent, total_bytes_received>>
    BY <1>6 DEF RequestCheck, counters
  <2>2. CASE is_warmup
    <3>1. Goes(r, "request", AfterRequest(r)) /\ AfterRequest(r) \notin C /\ due' = due
      BY <1>6, <2>2 DEF RequestCheck, AfterRequest
    <3> QED
      BY <1>2, <1>4, <2>1, <3>1
  <2>3. CASE ~is_warmup
    <3>1. Goes(r, "request", "add_request") /\ due' = due + 1
      BY <1>6, <2>3 DEF RequestCheck
    <3> QED
      BY <1>2, <1>4, <2>1, <2>3, <3>1
  <2> QED
    BY <2>2, <2>3
<1>7. CASE AddRequest(r)
  <2>1. ~is_warmup /\ Goes(r, "add_request", "add_sent")
    BY <1>7 DEF AddRequest, Goes, WarmupInv
  <2> QED
    BY <1>2, <1>4, <1>7, <2>1 DEF AddRequest
<1>8. CASE AddSent(r)
  <2>1. ~is_warmup /\ Goes(r, "add_sent", "add_received")
    BY <1>8 DEF AddSent, Goes, WarmupInv
  <2> QED
    BY <1>2, <1>4, <1>8, <2>1 DEF AddSent
<1>9. CASE AddReceived(r)
  <2>1. Goes(r, "add_received", AfterRequest(r)) /\ AfterRequest(r) \notin C
    BY <1>9 DEF AddReceived, AfterRequest
  <2> QED
    BY <1>2, <1>4, <1>9, <2>1 DEF AddReceived
<1> QED
  BY <1>5, <1>6, <1>7, <1>8, <1>9 DEF Record

\* The two groups of workers, and how their numbers move with one of them.
LEMMA Groups ==
  /\ Pipelines \in SUBSET Recorders /\ LatencyFirst \in SUBSET Recorders
  /\ IsFiniteSet(Pipelines) /\ Cardinality(Pipelines) \in Nat
  /\ \A r \in Recorders : r \in Pipelines <=> r \notin LatencyFirst
<1>1. Pipelines \in SUBSET Recorders /\ IsFiniteSet(Pipelines)
  BY RecordersAssumption, FS_Subset DEF Pipelines
<1> QED
  BY <1>1, RecordersAssumption, FS_CardinalityType DEF Pipelines

LEMMA SampleMoves ==
  ASSUME TypeOK, NEW r \in Recorders, NEW from, NEW to, Goes(r, from, to)
  PROVE  /\ Unsampled \in Nat /\ Unsampled' \in Nat /\ Sampled \in Nat /\ Sampled' \in Nat
         /\ r \notin LatencyFirst =>
              /\ Sampled' = Sampled
              /\ from \notin PaidFor /\ to \in PaidFor => Unsampled' = Unsampled + 1
              /\ from \in PaidFor /\ to \notin PaidFor => Unsampled = Unsampled' + 1
              /\ (from \in PaidFor <=> to \in PaidFor) => Unsampled' = Unsampled
         /\ r \in LatencyFirst =>
              /\ Unsampled' = Unsampled
              /\ from # "request" /\ to = "request" => Sampled' = Sampled + 1
              /\ from = "request" /\ to # "request" => Sampled = Sampled' + 1
              /\ (from = "request" <=> to = "request") => Sampled' = Sampled
<1>1. Unsampled' = Cardinality(In(Pipelines, pc', PaidFor))
  BY DEF Unsampled, Pipelines, PaidFor
<1>2. Sampled' = Cardinality(In(LatencyFirst, pc', Asking))
  BY DEF Sampled, Asking
<1>3. /\ Unsampled \in Nat /\ Unsampled' \in Nat
      /\ r \notin LatencyFirst =>
           /\ from \notin PaidFor /\ to \in PaidFor => Unsampled' = Unsampled + 1
           /\ from \in PaidFor /\ to \notin PaidFor => Unsampled = Unsampled' + 1
      /\ r \in LatencyFirst \/ (from \in PaidFor <=> to \in PaidFor) => Unsampled' = Unsampled
  BY <1>1, Groups, WorkerMoves DEF Unsampled
<1>4. /\ Sampled \in Nat /\ Sampled' \in Nat
      /\ r \in LatencyFirst =>
           /\ from \notin Asking /\ to \in Asking => Sampled' = Sampled + 1
           /\ from \in Asking /\ to \notin Asking => Sampled = Sampled' + 1
      /\ r \notin LatencyFirst \/ (from \in Asking <=> to \in Asking) => Sampled' = Sampled
  BY <1>2, Groups, WorkerMoves DEF Sampled
<1> QED
  BY <1>3, <1>4 DEF Asking

\* Sampling a latency uses up what its worker has been granted.
LEMMA RecordSamples ==
  ASSUME TypeOK, WarmupInv, SampleInv, NEW r \in Recorders, Record(r)
  PROVE  SampleInv'
<1> DEFINE h == latency_histogram
           u == Unsampled
           s == Sampled
           n == Cardinality(Pipelines)
<1>1. is_warmup' = is_warmup
  BY RecordFacts
<1>2. SUFFICES ASSUME ~is_warmup PROVE h' + u' <= (due' + n) + s'
  BY <1>1 DEF SampleInv, Pipelines
<1>3. h + u <= (due + n) + s /\ h \in Nat /\ due \in Nat /\ n \in Nat
  BY <1>2, Groups DEF SampleInv, TypeOK
<1>4. ASSUME NEW from, NEW to, Goes(r, from, to)
      PROVE  /\ u \in Nat /\ u' \in Nat /\ s \in Nat /\ s' \in Nat
             /\ r \notin LatencyFirst =>
                  /\ s' = s
                  /\ from \notin PaidFor /\ to \in PaidFor => u' = u + 1
                  /\ from \in PaidFor /\ to \notin PaidFor => u = u' + 1
                  /\ (from \in PaidFor <=> to \in PaidFor) => u' = u
             /\ r \in LatencyFirst =>
                  /\ u' = u
                  /\ from # "request" /\ to = "request" => s' = s + 1
                  /\ from = "request" /\ to # "request" => s = s' + 1
                  /\ (from = "request" <=> to = "request") => s' = s
  BY <1>4, SampleMoves
<1> HIDE DEF u, s, n
<1> USE DEF PaidFor
<1>5. CASE Answer(r)
  <2>1. Goes(r, "idle", FirstCall(r)) /\ h' = h /\ due' = due
    BY <1>5 DEF Answer, counters
  <2> QED
    BY <1>3, <1>4, <2>1 DEF FirstCall
<1>6. CASE SampleCheck(r)
  <2>1. (Goes(r, "latency", "record") \/ Goes(r, "latency", AfterLatency(r)))
        /\ h' = h /\ due' = due
    BY <1>6 DEF SampleCheck, counters
  <2> QED
    BY <1>3, <1>4, <2>1 DEF AfterLatency
<1>7. CASE RecordSample(r)
  <2>1. Goes(r, "record", AfterLatency(r)) /\ h' \in {h, h + 1} /\ due' = due
    BY <1>7 DEF RecordSample
  <2> QED
    BY <1>3, <1>4, <2>1 DEF AfterLatency
<1>8. CASE RequestCheck(r)
  <2>1. Goes(r, "request", "add_request") /\ h' = h /\ due' = due + 1
    BY <1>2, <1>8 DEF RequestCheck, counters
  <2> QED
    BY <1>3, <1>4, <2>1
<1>9. CASE AddRequest(r)
  <2>1. Goes(r, "add_request", "add_sent") /\ h' = h /\ due' = due
    BY <1>9 DEF AddRequest
  <2> QED
    BY <1>3, <1>4, <2>1
<1>10. CASE AddSent(r)
  <2>1. Goes(r, "add_sent", "add_received") /\ h' = h /\ due' = due
    BY <1>10 DEF AddSent
  <2> QED
    BY <1>3, <1>4, <2>1
<1>11. CASE AddReceived(r)
  <2>1. Goes(r, "add_received", AfterRequest(r)) /\ h' = h /\ due' = due
    BY <1>11 DEF AddReceived
  <2> QED
    BY <1>3, <1>4, <2>1 DEF AfterRequest
<1>12. CASE End(r)
  <2>1. Goes(r, "idle", "ended") /\ h' = h /\ due' = due
    BY <1>12 DEF End, counters
  <2> QED
    BY <1>3, <1>4, <2>1
<1> QED
  BY <1>5, <1>6, <1>7, <1>8, <1>9, <1>10, <1>11, <1>12 DEF Record

\* What the report has to say when it is printed.
ReportInv ==
  /\ DueInv /\ SampleInv
  /\ main = "joined" => \A r \in Recorders : pc[r] = "ended"

\* Nobody owes anything at the start.
LEMMA ReportInit == Init => ReportInv
<1> SUFFICES ASSUME Init PROVE ReportInv
  OBVIOUS
<1>1. ASSUME NEW S, "idle" \notin S PROVE Adding(pc, S) = 0
  <2>1. \A r \in Recorders : pc[r] \notin S
    BY <1>1 DEF Init
  <2> QED
    BY <2>1, CountNone DEF Adding
<1>2. /\ Adding(pc, {"add_request"}) = 0
      /\ Adding(pc, {"add_request", "add_sent"}) = 0
      /\ Adding(pc, {"add_request", "add_sent", "add_received"}) = 0
  BY <1>1
<1> QED
  BY <1>2 DEF Init, ReportInv, DueInv, SampleInv

\* A worker that has ended records nothing more.
LEMMA ReportRecord ==
  ASSUME TypeOK, WarmupInv, ReportInv, NEW r \in Recorders, Record(r)
  PROVE  ReportInv'
<1>1. DueInv' /\ SampleInv'
  BY RecordOwes, RecordSamples DEF ReportInv
<1>2. pc[r] # "ended" /\ main' = main
  BY RecordFacts DEF Record, Answer, SampleCheck, RecordSample, RequestCheck, AddRequest,
     AddSent, AddReceived, End, Goes
<1> QED
  BY <1>1, <1>2 DEF ReportInv

\* The resets store zeros over zeros.
LEMMA ReportMain ==
  ASSUME TypeOK, WarmupInv, ReportInv, Main
  PROVE  ReportInv'
<1>1. pc' = pc /\ due' = due
  BY DEF Main, ResetRequests, ResetSent, ResetReceived, ResetHistogram, ResetPrintCount,
     ResetPrintTime, ClearWarmup, JoinWorkers, MainOnly, recorderVars
<1>2. UNCHANGED counters
  BY DEF Main, ResetRequests, ResetSent, ResetReceived, ResetHistogram, ResetPrintCount,
     ResetPrintTime, ClearWarmup, JoinWorkers, MainGoes, WarmupInv, counters
<1>3. /\ UNCHANGED is_warmup \/ (is_warmup /\ ~is_warmup')
      /\ main # "joined"
      /\ main' = "joined" => \A r \in Recorders : pc[r] = "ended"
  BY DEF Main, ResetRequests, ResetSent, ResetReceived, ResetHistogram, ResetPrintCount,
     ResetPrintTime, ClearWarmup, JoinWorkers, MainGoes, WarmupInv
<1>4. DueInv'
  BY <1>1, <1>2, <1>3 DEF ReportInv, DueInv, counters
<1>5. SampleInv'
  <2>1. Unsampled' = Unsampled /\ Sampled' = Sampled
    BY <1>1 DEF Unsampled, Sampled, Pipelines, PaidFor, Asking
  <2>2. CASE is_warmup' = is_warmup
    BY <1>1, <1>2, <2>1, <2>2 DEF ReportInv, SampleInv, Pipelines, counters
  <2>3. CASE is_warmup
    <3>1. latency_histogram = 0 /\ due \in Nat
      BY <2>3 DEF WarmupInv, TypeOK
    <3>2. /\ Unsampled \in Nat /\ Unsampled <= Cardinality(Pipelines)
          /\ Cardinality(Pipelines) \in Nat
      BY Groups, CountType DEF Unsampled
    <3>3. Sampled \in Nat
      BY RecordersAssumption, FS_Subset, CountType DEF Sampled
    <3>4. latency_histogram + Unsampled <= (due + Cardinality(Pipelines)) + Sampled
      BY <3>1, <3>2, <3>3
    <3> QED
      BY <1>1, <1>2, <2>1, <3>4 DEF SampleInv, Pipelines, counters
  <2> QED
    BY <1>3, <2>2, <2>3
<1> QED
  BY <1>1, <1>3, <1>4, <1>5 DEF ReportInv

\* Nobody else writes what the report is about.
LEMMA ReportStays ==
  ASSUME ReportInv, UNCHANGED <<main, recorderVars, counters, is_warmup, quiet>>
  PROVE  ReportInv'
<1>1. DueInv'
  BY DEF ReportInv, DueInv, recorderVars, counters
<1>2. SampleInv'
  <2>1. Unsampled' = Unsampled /\ Sampled' = Sampled
    BY DEF Unsampled, Sampled, Pipelines, PaidFor, Asking, recorderVars
  <2> QED
    BY <2>1 DEF ReportInv, SampleInv, Pipelines, recorderVars, counters
<1> QED
  BY <1>1, <1>2 DEF ReportInv, recorderVars

\* Every behaviour satisfies it.
LEMMA Report == Spec => []ReportInv
<1>1. IInv /\ ReportInv /\ [Next]_vars => ReportInv'
  <2> SUFFICES ASSUME IInv, ReportInv, [Next]_vars PROVE ReportInv'
    OBVIOUS
  <2>1. ASSUME Printer \/ ClockAdvances \/ UNCHANGED vars
        PROVE  UNCHANGED <<main, recorderVars, counters, is_warmup, quiet>>
    BY <2>1 DEF Printer, SeesWarmupOver, SetPrintTime, LoadFirstCount, StoreFirstCount,
       ReadClock, LoadCount, SwapPrintTime, SwapPrintCount, Subtract, PrinterEnds,
       PrinterOnly, ClockAdvances, vars
  <2> QED
    BY <2>1, ReportRecord, ReportMain, ReportStays DEF Next, IInv
<1> QED
  BY Inductive, ReportInit, <1>1, PTL DEF Spec

-----------------------------------------------------------------------------
(***************************************************************************)
(* The refinement of Stats.                                                *)
(***************************************************************************)
Ended == \A r \in Recorders : pc[r] = "ended"

\* When the workers have ended the report has every answer that found the warm-up over,
\* and its bytes, although each is counted in three separate adds.
LEMMA CountedWhenEnded ==
  ASSUME TypeOK, DueInv, Ended
  PROVE  total_requests = due /\ total_bytes_sent = due /\ total_bytes_received = due
<1>1. ASSUME NEW S, "ended" \notin S PROVE Adding(pc, S) = 0
  <2>1. \A r \in Recorders : pc[r] \notin S
    BY <1>1 DEF Ended
  <2> QED
    BY <2>1, CountNone DEF Adding
<1>2. /\ Adding(pc, {"add_request"}) = 0
      /\ Adding(pc, {"add_request", "add_sent"}) = 0
      /\ Adding(pc, {"add_request", "add_sent", "add_received"}) = 0
  BY <1>1
<1> QED
  BY <1>2 DEF DueInv, TypeOK

\* The histogram then holds at most one latency for each pipeline worker beyond these.
LEMMA SampledWhenEnded ==
  ASSUME TypeOK, SampleInv, Ended, ~is_warmup
  PROVE  latency_histogram \in 0 .. due + Cardinality(Pipelines)
<1>1. \A r \in Recorders : pc[r] \notin PaidFor /\ pc[r] \notin Asking
  BY DEF Ended, PaidFor, Asking
<1>2. Unsampled = 0
  BY <1>1, Groups, CountNone DEF Unsampled
<1>3. Sampled = 0
  BY <1>1, Groups, CountNone DEF Sampled
<1> QED
  BY <1>2, <1>3, Groups DEF SampleInv, TypeOK

\* A worker's step is a call of record_request if it finds the warm-up over, and else
\* nothing Stats knows of.
LEMMA RecordRefines ==
  ASSUME TypeOK, ReportInv, NEW r \in Recorders, Record(r)
  PROVE  Calls!RecordRequest \/ UNCHANGED Calls!statsVars
<1>1. main # "joined" /\ main' = main /\ is_warmup' = is_warmup /\ covered' = covered
  <2>1. pc[r] # "ended"
    BY DEF Record, Answer, SampleCheck, RecordSample, RequestCheck, AddRequest, AddSent,
       AddReceived, End, Goes
  <2>2. UNCHANGED <<main, is_warmup, printerVars>>
    BY DEF Record, Answer, SampleCheck, RecordSample, RequestCheck, AddRequest, AddSent,
       AddReceived, End, RecordersOnly
  <2> QED
    BY <2>1, <2>2 DEF ReportInv, printerVars, intervals
<1>2. FinalReport = {} /\ FinalReport' = {}
  BY <1>1 DEF FinalReport
<1>3. CASE RequestCheck(r) /\ ~is_warmup
  BY <1>1, <1>2, <1>3 DEF RequestCheck, Calls!RecordRequest
<1>4. CASE ~(RequestCheck(r) /\ ~is_warmup)
  <2>1. due' = due
    BY <1>4 DEF Record, Answer, SampleCheck, RecordSample, RequestCheck, AddRequest, AddSent,
       AddReceived, End
  <2> QED
    BY <1>1, <1>2, <2>1 DEF Calls!statsVars
<1> QED
  BY <1>3, <1>4

\* Of the steps of async_main Stats knows the one that clears the flag and the report.
LEMMA MainRefines ==
  ASSUME TypeOK, WarmupInv, ReportInv, Main
  PROVE  Calls!EndWarmup \/ Calls!PrintFinalStats \/ UNCHANGED Calls!statsVars
<1>1. due' = due /\ covered' = covered /\ quiet' = quiet
  BY DEF Main, ResetRequests, ResetSent, ResetReceived, ResetHistogram, ResetPrintCount,
     ResetPrintTime, ClearWarmup, JoinWorkers, MainOnly, recorderVars, printerVars, intervals
<1>2. main # "joined" /\ FinalReport = {}
  BY DEF Main, ResetRequests, ResetSent, ResetReceived, ResetHistogram, ResetPrintCount,
     ResetPrintTime, ClearWarmup, JoinWorkers, MainGoes, FinalReport
<1>3. CASE JoinWorkers
  <2>1. Ended /\ ~is_warmup /\ UNCHANGED <<counters, is_warmup>> /\ main' = "joined"
    BY <1>3 DEF JoinWorkers, MainGoes, Ended, WarmupInv
  <2>2. total_requests = due /\ total_bytes_sent = due /\ total_bytes_received = due
    BY <2>1, CountedWhenEnded DEF ReportInv
  <2>3. latency_histogram \in 0 .. due + Cardinality(Recorders \ LatencyFirst)
    BY <2>1, SampledWhenEnded DEF ReportInv, Pipelines
  <2>4. CASE quiet
    <3>1. FinalReport' = {}
      BY <1>1, <2>4 DEF FinalReport
    <3> QED
      BY <1>1, <1>2, <2>1, <3>1 DEF Calls!statsVars
  <2>5. CASE ~quiet
    <3>1. FinalReport' = {[requests |-> due, sent |-> due, received |-> due,
                           samples |-> latency_histogram]}
      BY <1>1, <2>1, <2>2, <2>5 DEF FinalReport, counters
    <3> QED
      BY <1>1, <1>2, <2>1, <2>3, <3>1 DEF Calls!PrintFinalStats
  <2> QED
    BY <2>4, <2>5
<1>4. CASE ClearWarmup
  <2>1. is_warmup /\ ~is_warmup' /\ is_warmup' = FALSE /\ main' = "running"
    BY <1>4 DEF ClearWarmup, MainGoes, WarmupInv
  <2> QED
    BY <1>1, <1>2, <2>1 DEF Calls!EndWarmup, FinalReport
<1>5. CASE ResetRequests \/ ResetSent \/ ResetReceived \/ ResetHistogram \/ ResetPrintCount
           \/ ResetPrintTime
  <2>1. is_warmup' = is_warmup /\ main' # "joined"
    BY <1>5 DEF ResetRequests, ResetSent, ResetReceived, ResetHistogram, ResetPrintCount,
       ResetPrintTime, MainGoes
  <2> QED
    BY <1>1, <1>2, <2>1 DEF Calls!statsVars, FinalReport
<1> QED
  BY <1>3, <1>4, <1>5 DEF Main

\* The difference get_qps takes is a number of answers no line has told of.
LEMMA PrinterRefines ==
  ASSUME TypeOK, WarmupInv, PrintInv, DueInv, Printer
  PROVE  Calls!GetQps \/ UNCHANGED Calls!statsVars
<1>1. UNCHANGED <<main, recorderVars, counters, is_warmup, quiet>>
  BY DEF Printer, SeesWarmupOver, SetPrintTime, LoadFirstCount, StoreFirstCount, ReadClock,
     LoadCount, SwapPrintTime, SwapPrintCount, Subtract, PrinterEnds, PrinterOnly
<1>2. due' = due /\ is_warmup' = is_warmup /\ FinalReport' = FinalReport
  BY <1>1 DEF recorderVars, counters, FinalReport
<1>3. CASE Subtract
  <2>1. /\ last_count <= current_count /\ last_count = first_count + covered + skipped
        /\ 0 <= covered /\ 0 <= skipped
        /\ current_count <= total_requests /\ ~is_warmup
    BY <1>3 DEF Subtract, PrinterGoes, PrintInv, WarmupInv
  <2>2. total_requests <= due
    <3>1. Adding(pc, {"add_request"}) \in Nat
      BY RecordersAssumption, CountType DEF Adding
    <3> QED
      BY <3>1 DEF DueInv, TypeOK
  <2>3. covered' \in {covered, covered + (current_count - last_count)}
    BY <1>3 DEF Subtract
  <2>4. covered' \in covered .. due
    BY <2>1, <2>2, <2>3 DEF TypeOK
  <2> QED
    BY <1>2, <2>1, <2>4 DEF Calls!GetQps
<1>4. CASE ~Subtract
  <2>1. covered' = covered
    BY <1>4 DEF Printer, SeesWarmupOver, SetPrintTime, LoadFirstCount, StoreFirstCount,
       ReadClock, LoadCount, SwapPrintTime, SwapPrintCount, PrinterEnds, intervals
  <2> QED
    BY <1>2, <2>1 DEF Calls!statsVars
<1> QED
  BY <1>3, <1>4

\* The separate loads, stores and adds of any number of workers, of the reset and of the
\* printer amount to calls that are one step each: record_request, when it looks at the
\* flag; end_warmup, when it clears it; get_qps, when it subtracts; print_final_stats.
THEOREM ImplementsStats == Spec => StatsSpec
<1>1. Init => Calls!Init
  BY DEF Init, Calls!Init, FinalReport
<1>2. IInv /\ ReportInv /\ [Next]_vars => [Calls!Next]_Calls!statsVars
  <2> SUFFICES ASSUME IInv, ReportInv, [Next]_vars
               PROVE  Calls!Next \/ UNCHANGED Calls!statsVars
    OBVIOUS
  <2>1. ASSUME NEW r \in Recorders, Record(r) PROVE Calls!Next \/ UNCHANGED Calls!statsVars
    BY <2>1, RecordRefines DEF Calls!Next, IInv
  <2>2. CASE Main
    BY <2>2, MainRefines DEF Calls!Next, IInv
  <2>3. CASE Printer
    BY <2>3, PrinterRefines DEF Calls!Next, IInv, ReportInv
  <2>4. CASE ClockAdvances \/ UNCHANGED vars
    <3>1. UNCHANGED <<main, recorderVars, counters, is_warmup, printerVars, quiet>>
      BY <2>4 DEF ClockAdvances, vars
    <3> QED
      BY <3>1 DEF Calls!statsVars, FinalReport, recorderVars, counters, printerVars, intervals
  <2> QED
    BY <2>1, <2>2, <2>3, <2>4 DEF Next
<1>3. StatsSpec <=> Calls!Init /\ [][Calls!Next]_Calls!statsVars
  BY DEF StatsSpec, Calls!Spec
<1> QED
  BY <1>1, <1>2, <1>3, Inductive, Report, PTL DEF Spec
=============================================================================
