----------------------------- MODULE RunnerProofs -----------------------------
(***************************************************************************)
(* Proofs about Runner for any number of targets and connections and any   *)
(* connect rate.  The counters of the final report are related to the      *)
(* states of the tasks by counting the tasks in each state; the receivers  *)
(* to the tasks by following the loop that spawns them; and the slot in    *)
(* which a task begins to its place in that loop.                          *)
(***************************************************************************)
EXTENDS Runner, FiniteSetTheorems, TLAPS

-----------------------------------------------------------------------------
(***************************************************************************)
(* How many connections are in a given state.                              *)
(***************************************************************************)
\* The members of Q that f takes into S.
In(Q, f, S) == {q \in Q : f[q] \in S}

\* From f to g nobody in Q moves but r.
OneMoves(Q, f, g, r) == \A q \in Q : q # r => g[q] = f[q]

\* Such a number is one.
LEMMA CountType ==
  ASSUME NEW Q, IsFiniteSet(Q), NEW f, NEW S
  PROVE  /\ IsFiniteSet(In(Q, f, S))
         /\ Cardinality(In(Q, f, S)) \in Nat
         /\ Cardinality(In(Q, f, S)) <= Cardinality(Q)
         /\ Cardinality(Q) \in Nat
<1>1. In(Q, f, S) \in SUBSET Q
  BY DEF In
<1> QED
  BY <1>1, FS_Subset, FS_CardinalityType

\* If one member enters the states that count, and the others stay, there is one more.
LEMMA CountEnters ==
  ASSUME NEW Q, IsFiniteSet(Q), NEW f, NEW g, NEW r \in Q, NEW S,
         OneMoves(Q, f, g, r), f[r] \notin S, g[r] \in S
  PROVE  Cardinality(In(Q, g, S)) = Cardinality(In(Q, f, S)) + 1
<1>1. In(Q, g, S) = In(Q, f, S) \cup {r} /\ r \notin In(Q, f, S)
  BY DEF In, OneMoves
<1>2. IsFiniteSet(In(Q, f, S))
  BY CountType
<1> QED
  BY <1>1, <1>2, FS_AddElement

\* If one member leaves them, there is one less.
LEMMA CountLeaves ==
  ASSUME NEW Q, IsFiniteSet(Q), NEW f, NEW g, NEW r \in Q, NEW S,
         OneMoves(Q, f, g, r), f[r] \in S, g[r] \notin S
  PROVE  Cardinality(In(Q, f, S)) = Cardinality(In(Q, g, S)) + 1
<1>1. OneMoves(Q, g, f, r)
  BY DEF OneMoves
<1> QED
  BY <1>1, CountEnters

\* If none moves that counts, the number stays.
LEMMA CountStays ==
  ASSUME NEW Q, NEW f, NEW g, NEW S, \A q \in Q : f[q] \in S <=> g[q] \in S
  PROVE  In(Q, g, S) = In(Q, f, S)
BY DEF In

\* From f to g nobody in Q moves but r, from this place to that.
Moves(Q, f, g, r, from, to) == OneMoves(Q, f, g, r) /\ f[r] = from /\ g[r] = to

\* All of this for one that moves, wherever it is and goes.
LEMMA CountMoves ==
  ASSUME NEW P, IsFiniteSet(P), NEW Q \in SUBSET P, NEW f, NEW g, NEW r, NEW from, NEW to,
         NEW S, Moves(P, f, g, r, from, to)
  PROVE  /\ Cardinality(In(Q, f, S)) \in Nat /\ Cardinality(In(Q, g, S)) \in Nat
         /\ r \in Q /\ from \notin S /\ to \in S =>
              Cardinality(In(Q, g, S)) = Cardinality(In(Q, f, S)) + 1
         /\ r \in Q /\ from \in S /\ to \notin S =>
              Cardinality(In(Q, f, S)) = Cardinality(In(Q, g, S)) + 1
         /\ r \notin Q \/ (from \in S <=> to \in S) =>
              Cardinality(In(Q, g, S)) = Cardinality(In(Q, f, S))
<1>0. IsFiniteSet(Q)
  BY FS_Subset
<1>1. OneMoves(Q, f, g, r) /\ f[r] = from /\ g[r] = to
  BY DEF Moves, OneMoves
<1>2. Cardinality(In(Q, f, S)) \in Nat /\ Cardinality(In(Q, g, S)) \in Nat
  BY <1>0, CountType
<1>3. ASSUME r \in Q, from \notin S, to \in S
      PROVE  Cardinality(In(Q, g, S)) = Cardinality(In(Q, f, S)) + 1
  BY <1>0, <1>1, <1>3, CountEnters
<1>4. ASSUME r \in Q, from \in S, to \notin S
      PROVE  Cardinality(In(Q, f, S)) = Cardinality(In(Q, g, S)) + 1
  BY <1>0, <1>1, <1>4, CountLeaves
<1>5. ASSUME r \notin Q \/ (from \in S <=> to \in S)
      PROVE  Cardinality(In(Q, g, S)) = Cardinality(In(Q, f, S))
  <2>1. \A q \in Q : f[q] \in S <=> g[q] \in S
    BY <1>1, <1>5 DEF OneMoves
  <2>2. In(Q, g, S) = In(Q, f, S)
    BY <2>1, CountStays
  <2> QED
    BY <2>2
<1> QED
  BY <1>2, <1>3, <1>4, <1>5

\* Nobody is where nobody can be ...
LEMMA CountNone ==
  ASSUME NEW Q, NEW f, NEW S, \A q \in Q : f[q] \notin S
  PROVE  Cardinality(In(Q, f, S)) = 0
<1>1. In(Q, f, S) = {}
  BY DEF In
<1> QED
  BY <1>1, FS_EmptySet

\* ... and everybody where all are.
LEMMA CountAll ==
  ASSUME NEW Q, NEW f, NEW S, \A q \in Q : f[q] \in S
  PROVE  In(Q, f, S) = Q
BY DEF In

\* The members in either of two disjoint sets of states.
LEMMA CountUnion ==
  ASSUME NEW Q, IsFiniteSet(Q), NEW f, NEW S, NEW T, S \cap T = {}
  PROVE  Cardinality(In(Q, f, S \cup T)) =
           Cardinality(In(Q, f, S)) + Cardinality(In(Q, f, T))
<1> DEFINE F == In(Q, f, S)
           G == In(Q, f, T)
<1>1. In(Q, f, S \cup T) = F \cup G /\ F \cap G = {}
  BY DEF In
<1>2. /\ IsFiniteSet(F) /\ Cardinality(F) \in Nat
      /\ IsFiniteSet(G) /\ Cardinality(G) \in Nat
  BY CountType
<1> HIDE DEF F, G
<1>3. Cardinality(F \cup G) = Cardinality(F) + Cardinality(G) - Cardinality(F \cap G)
  BY <1>2, FS_Union
<1>4. Cardinality(F \cap G) = 0
  BY <1>1, FS_EmptySet
<1>5. Cardinality(F \cup G) = Cardinality(F) + Cardinality(G)
  BY <1>2, <1>3, <1>4
<1> QED
  BY <1>1, <1>5 DEF F, G

-----------------------------------------------------------------------------
\* The counters say in which states the tasks are.
CountInv ==
  /\ total_connections = Cardinality(In(Conns, conn, C!ConnStates \ {"waiting"}))
  /\ success_connections = Cardinality(In(Conns, conn, {"closed"}))
  /\ connection_errors >= Cardinality(In(Conns, conn, {"failed"}))

\* The join loop leaves no task behind.
JoinInv == main = "reported" => \A c \in Conns : conn[c] \in C!Ended

\* Every task that was spawned holds a receiver.
ReceiverInv ==
  /\ subscribed = spawned
  /\ main \in {"starting", "panicked"} => spawned = {}
  /\ main \notin {"starting", "spawning", "panicked"} => spawned = Conns
  /\ main \in {"joining", "reported"} => heard = Conns

\* A task begins in the slot its delay assigns to it, or later.
StaggerInv ==
  /\ \A c \in Conns : conn[c] # "waiting" => c \in spawned /\ wake[c] <= begun_at[c]
  /\ connect_rate > 0 => \A c \in spawned : Stagger(c) <= wake[c]

IInv == TypeOK /\ CountInv /\ JoinInv /\ ReceiverInv /\ StaggerInv

-----------------------------------------------------------------------------
\* How many tasks there are.
LEMMA NumberOfConns == IsFiniteSet(Conns) /\ Cardinality(Conns) = Targets * Connections
<1>1. IsFiniteSet(1 .. Targets) /\ Cardinality(1 .. Targets) = Targets
  BY TargetsAssumption, FS_Interval
<1>2. IsFiniteSet(0 .. Connections - 1) /\ Cardinality(0 .. Connections - 1) = Connections
  <2>1. 0 \in Int /\ Connections - 1 \in Int
    BY TargetsAssumption
  <2>2. /\ IsFiniteSet(0 .. Connections - 1)
        /\ Cardinality(0 .. Connections - 1) =
             IF 0 > Connections - 1 THEN 0 ELSE (Connections - 1) - 0 + 1
    BY <2>1, FS_Interval
  <2> QED
    BY <2>2, TargetsAssumption
<1> QED
  BY <1>1, <1>2, FS_Product DEF Conns

\* The staggered delay of a task.
LEMMA Delay ==
  ASSUME TypeOK, NEW c \in Conns
  PROVE  /\ Stagger(c) \in Nat /\ WakeSlot(c) \in Nat
         /\ Stagger(c) <= WakeSlot(c)
<1>1. c[2] \in Nat /\ connect_rate \in Nat /\ U32Values \in Nat \ {0} /\ slot \in Nat
  BY TargetsAssumption, RateAssumption DEF Conns, TypeOK
<1>2. connect_rate # 0 => c[2] % connect_rate \in Nat
  BY <1>1
<1>3. connect_rate # 0 => AsU32(c[2] % connect_rate) \in Nat
  BY <1>1, <1>2 DEF AsU32
<1>4. Stagger(c) \in Nat
  BY <1>3 DEF Stagger
<1> QED
  BY <1>1, <1>4 DEF WakeSlot

\* What a step of a task may do.
LEMMA TaskFacts ==
  ASSUME TypeOK, NEW c \in Conns, Task(c)
  PROVE  \E from \in C!ConnStates \ C!Ended, to \in C!ConnStates, n, s, e \in Nat :
           /\ conn' = [conn EXCEPT ![c] = to] /\ conn[c] = from
           /\ total_connections' = total_connections + n
           /\ success_connections' = success_connections + s
           /\ connection_errors' = connection_errors + e
           /\ n = (IF from = "waiting" THEN 1 ELSE 0) /\ to # "waiting"
           /\ s = (IF to = "closed" THEN 1 ELSE 0)
           /\ to = "failed" => e = 1
<1> USE DEF C!ConnStates, C!Ended
<1>1. CASE Begin(c)
  BY <1>1 DEF Begin, C!Begin, TypeOK
<1>2. CASE Answer(c)
  <2>1. conn' = [conn EXCEPT ![c] = "open"]
    BY <1>2 DEF Answer, C!Answer, TypeOK
  <2> QED
    BY <1>2, <2>1 DEF Answer, C!Answer, TypeOK
<1>3. CASE Fault(c)
  <2>1. conn' = [conn EXCEPT ![c] = "open"]
    BY <1>3 DEF Fault, C!Fault, TypeOK
  <2> QED
    BY <1>3, <2>1 DEF Fault, C!Fault, TypeOK
<1>4. CASE GiveUp(c)
  BY <1>4 DEF GiveUp, C!GiveUp, TypeOK
<1>5. CASE Abort(c)
  BY <1>5 DEF Abort, C!Abort, TypeOK
<1>6. CASE Finish(c)
  BY <1>6 DEF Finish, C!Finish, TypeOK
<1> QED
  BY <1>1, <1>2, <1>3, <1>4, <1>5, <1>6 DEF Task

-----------------------------------------------------------------------------
\* The initial state.
LEMMA InductiveInit == Init => IInv
<1> SUFFICES ASSUME Init PROVE IInv
  OBVIOUS
<1>1. TypeOK
  BY DEF Init, C!Init, TypeOK, C!ConnStates, MainStates
<1>2. \A S : "waiting" \notin S => Cardinality(In(Conns, conn, S)) = 0
  <2> SUFFICES ASSUME NEW S, "waiting" \notin S
               PROVE  Cardinality(In(Conns, conn, S)) = 0
    OBVIOUS
  <2>1. \A c \in Conns : conn[c] \notin S
    BY DEF Init, C!Init
  <2> QED
    BY <2>1, CountNone
<1>3. CountInv
  <2>1. /\ Cardinality(In(Conns, conn, C!ConnStates \ {"waiting"})) = 0
        /\ Cardinality(In(Conns, conn, {"closed"})) = 0
        /\ Cardinality(In(Conns, conn, {"failed"})) = 0
    BY <1>2
  <2> QED
    BY <2>1 DEF CountInv, Init, C!Init
<1>4. JoinInv /\ ReceiverInv /\ StaggerInv
  BY DEF Init, C!Init, JoinInv, ReceiverInv, StaggerInv
<1> QED
  BY <1>1, <1>3, <1>4 DEF IInv

\* The counters follow the task that moves.
LEMMA TaskCounts ==
  ASSUME TypeOK, CountInv, NEW c \in Conns, Task(c)
  PROVE  CountInv'
<1> DEFINE Begun == C!ConnStates \ {"waiting"}
           Closed == {"closed"}
           Failed == {"failed"}
           Number(f, S) == Cardinality(In(Conns, f, S))
<1>1. PICK from \in C!ConnStates \ C!Ended, to \in C!ConnStates, n, s, e \in Nat :
           /\ conn' = [conn EXCEPT ![c] = to] /\ conn[c] = from
           /\ total_connections' = total_connections + n
           /\ success_connections' = success_connections + s
           /\ connection_errors' = connection_errors + e
           /\ n = (IF from = "waiting" THEN 1 ELSE 0) /\ to # "waiting"
           /\ s = (IF to = "closed" THEN 1 ELSE 0)
           /\ to = "failed" => e = 1
  BY TaskFacts
<1>2. Moves(Conns, conn, conn', c, from, to)
  BY <1>1 DEF TypeOK, Moves, OneMoves
<1>3. \A S : /\ Number(conn, S) \in Nat /\ Number(conn', S) \in Nat
             /\ from \notin S /\ to \in S => Number(conn', S) = Number(conn, S) + 1
             /\ from \in S /\ to \notin S => Number(conn, S) = Number(conn', S) + 1
             /\ (from \in S <=> to \in S) => Number(conn', S) = Number(conn, S)
  <2>1. Conns \in SUBSET Conns
    OBVIOUS
  <2> QED
    BY <1>2, <2>1, NumberOfConns, CountMoves
<1> HIDE DEF Number, Begun, Closed, Failed
<1>4. total_connections' = Number(conn', Begun)
  <2>1. total_connections = Number(conn, Begun)
    BY DEF CountInv, Number, Begun
  <2>2. to \in Begun /\ (from = "waiting" <=> from \notin Begun)
    BY <1>1 DEF Begun, C!ConnStates, C!Ended
  <2>3. /\ Number(conn, Begun) \in Nat /\ Number(conn', Begun) \in Nat
        /\ from \notin Begun /\ to \in Begun => Number(conn', Begun) = Number(conn, Begun) + 1
        /\ (from \in Begun <=> to \in Begun) => Number(conn', Begun) = Number(conn, Begun)
    BY <1>3
  <2>4. total_connections \in Nat
    BY DEF TypeOK
  <2> QED
    BY <1>1, <2>1, <2>2, <2>3, <2>4
<1>5. success_connections' = Number(conn', Closed)
  <2>1. success_connections = Number(conn, Closed)
    BY DEF CountInv, Number, Closed
  <2>2. from \notin Closed /\ (to = "closed" <=> to \in Closed)
    BY <1>1 DEF Closed, C!Ended
  <2>3. /\ Number(conn, Closed) \in Nat /\ Number(conn', Closed) \in Nat
        /\ from \notin Closed /\ to \in Closed => Number(conn', Closed) = Number(conn, Closed) + 1
        /\ (from \in Closed <=> to \in Closed) => Number(conn', Closed) = Number(conn, Closed)
    BY <1>3
  <2>4. success_connections \in Nat
    BY DEF TypeOK
  <2> QED
    BY <1>1, <2>1, <2>2, <2>3, <2>4
<1>6. connection_errors' >= Number(conn', Failed)
  <2>1. connection_errors >= Number(conn, Failed)
    BY DEF CountInv, Number, Failed
  <2>2. from \notin Failed /\ (to = "failed" <=> to \in Failed)
    BY <1>1 DEF Failed, C!Ended
  <2>3. /\ Number(conn, Failed) \in Nat /\ Number(conn', Failed) \in Nat
        /\ from \notin Failed /\ to \in Failed => Number(conn', Failed) = Number(conn, Failed) + 1
        /\ (from \in Failed <=> to \in Failed) => Number(conn', Failed) = Number(conn, Failed)
    BY <1>3
  <2>4. connection_errors \in Nat
    BY DEF TypeOK
  <2> QED
    BY <1>1, <2>1, <2>2, <2>3, <2>4
<1> QED
  BY <1>4, <1>5, <1>6 DEF CountInv, Number, Begun, Closed, Failed, C!ConnStates

\* A task begins after its delay, counts itself, and ends for good.
LEMMA TaskNext ==
  ASSUME IInv, NEW c \in Conns, Task(c)
  PROVE  IInv'
<1> USE DEF IInv
<1>1. UNCHANGED <<configVars, runnerVars, slot, wake>>
  BY DEF Task, Begin, Answer, Fault, GiveUp, Abort, Finish, timeVars
<1>2. /\ conn[c] \notin C!Ended
      /\ conn' \in [Conns -> C!ConnStates]
      /\ \A d \in Conns : d # c => conn'[d] = conn[d]
      /\ total_connections' \in Nat /\ success_connections' \in Nat
      /\ connection_errors' \in Nat
  BY TaskFacts DEF TypeOK
<1>3. total_requests' \in Nat
  BY DEF Task, Begin, C!Begin, Answer, C!Answer, Fault, C!Fault, GiveUp, C!GiveUp, Abort,
     C!Abort, Finish, C!Finish, TypeOK
<1>4. \/ conn[c] # "waiting" /\ begun_at' = begun_at
      \/ c \in spawned /\ wake[c] <= slot /\ begun_at' = [begun_at EXCEPT ![c] = slot]
  BY DEF Task, Begin, Answer, C!Answer, Fault, C!Fault, GiveUp, C!GiveUp, Abort,
     C!Abort, Finish, C!Finish, timeVars, TypeOK
<1>5. TypeOK'
  BY <1>1, <1>2, <1>3, <1>4 DEF TypeOK, runnerVars, configVars
<1>6. CountInv'
  BY TaskCounts
<1>7. JoinInv'
  BY <1>1, <1>2 DEF JoinInv, runnerVars
<1>8. ReceiverInv'
  BY <1>1 DEF ReceiverInv, runnerVars
<1>9. StaggerInv'
  <2>1. \A d \in Conns : Stagger(d)' = Stagger(d)
    BY <1>1 DEF Stagger, AsU32, configVars
  <2> QED
    BY <1>1, <1>2, <1>4, <2>1 DEF StaggerInv, TypeOK, runnerVars, configVars
<1> QED
  BY <1>5, <1>6, <1>7, <1>8, <1>9

\* async_main subscribes a receiver for every task it spawns, notifies them all, and
\* reports when all tasks have ended.
LEMMA MainNext ==
  ASSUME IInv, Main
  PROVE  IInv'
<1> USE DEF IInv
<1>1. UNCHANGED <<conn, total_connections, success_connections, connection_errors,
                  slot, begun_at, configVars>>
  BY DEF Main, ConnectDelay, Spawn, StartWarmup, EndWarmup, SetShuttingDown,
     NotifyShutdown, Report,
     C!ResetRequests, taskVars, timeVars
<1>0. \A c \in Conns : Stagger(c)' = Stagger(c)
  BY <1>1 DEF Stagger, AsU32, configVars
<1>2. CountInv'
  BY <1>1 DEF CountInv
<1>3. ASSUME NEW c \in Conns, Spawn(c)
      PROVE  TypeOK' /\ JoinInv' /\ ReceiverInv' /\ StaggerInv'
  <2> USE <1>3 DEF Spawn, TypeOK
  <2>1. c \notin spawned
    BY DEF IsNext
  <2>2. WakeSlot(c) \in Nat /\ Stagger(c) <= WakeSlot(c)
    BY Delay
  <2>3. TypeOK'
    BY <2>2 DEF taskVars, configVars
  <2>4. JoinInv' /\ ReceiverInv'
    BY DEF JoinInv, ReceiverInv
  <2>5. StaggerInv'
    <3>1. connect_rate' = connect_rate /\ \A d \in Conns : d # c => wake'[d] = wake[d]
      BY <1>1 DEF configVars
    <3> QED
      BY <1>0, <1>1, <2>1, <2>2, <3>1 DEF StaggerInv
  <2> QED
    BY <2>3, <2>4, <2>5
<1>4. ASSUME ConnectDelay \/ StartWarmup \/ EndWarmup \/ SetShuttingDown \/ NotifyShutdown \/ Report
      PROVE  TypeOK' /\ JoinInv' /\ ReceiverInv' /\ StaggerInv'
  <2>1. UNCHANGED <<wake, spawned, subscribed>>
    BY <1>4 DEF ConnectDelay, StartWarmup, EndWarmup, SetShuttingDown, NotifyShutdown,
       Report, timeVars
  <2>2. TypeOK'
    <3>1. total_requests' \in Nat
      BY <1>4 DEF ConnectDelay, StartWarmup, EndWarmup, SetShuttingDown, NotifyShutdown, Report,
         C!ResetRequests, taskVars, TypeOK
    <3>2. /\ main' \in MainStates /\ heard' \subseteq subscribed
          /\ is_warmup' \in BOOLEAN /\ is_shutting_down' \in BOOLEAN
      BY <1>4 DEF ConnectDelay, StartWarmup, EndWarmup, SetShuttingDown, NotifyShutdown, Report,
         MainGoes, MainStates, TypeOK
    <3> QED
      BY <1>1, <2>1, <3>1, <3>2 DEF TypeOK, configVars
  <2>3. JoinInv'
    BY <1>1, <1>4 DEF ConnectDelay, StartWarmup, EndWarmup, SetShuttingDown,
       NotifyShutdown, Report,
       MainGoes, JoinInv
  <2>4. ReceiverInv'
    BY <1>4, <2>1 DEF ConnectDelay, StartWarmup, EndWarmup, SetShuttingDown,
       NotifyShutdown, Report,
       MainGoes, ReceiverInv
  <2>5. StaggerInv'
    <3>1. spawned \subseteq Conns /\ connect_rate' = connect_rate
      BY <1>1 DEF TypeOK, configVars
    <3> QED
      BY <1>0, <1>1, <2>1, <3>1 DEF StaggerInv
  <2> QED
    BY <2>2, <2>3, <2>4, <2>5
<1> QED
  BY <1>2, <1>3, <1>4 DEF Main

\* Every step keeps the inductive invariant.
LEMMA InductiveNext == IInv /\ [Next]_vars => IInv'
<1> SUFFICES ASSUME IInv, [Next]_vars PROVE IInv'
  OBVIOUS
<1>1. ASSUME Tick \/ UNCHANGED vars PROVE IInv'
  <2>1. UNCHANGED <<configVars, taskVars, runnerVars, wake, begun_at>> /\ slot' \in Nat
    BY <1>1 DEF Tick, vars, timeVars, IInv, TypeOK
  <2>2. \A c \in Conns : Stagger(c)' = Stagger(c)
    BY <2>1 DEF Stagger, AsU32, configVars
  <2> QED
    BY <2>1, <2>2 DEF IInv, TypeOK, CountInv, JoinInv, ReceiverInv, StaggerInv, configVars,
       taskVars, runnerVars
<1> QED
  BY <1>1, MainNext, TaskNext DEF Next

\* Every behaviour satisfies the inductive invariant.
LEMMA Inductive == Spec => []IInv
<1> QED
  BY InductiveInit, InductiveNext, PTL DEF Spec

-----------------------------------------------------------------------------
\* Every variable keeps its type.
THEOREM TypeCorrect == Spec => []TypeOK
<1>1. IInv => TypeOK
  BY DEF IInv
<1> QED
  BY Inductive, <1>1, PTL

\* The number of tasks in a state, in the two ways it is written.
LEMMA InStateIn == \A s : InState(s) = Cardinality(In(Conns, conn, {s}))
<1> SUFFICES ASSUME NEW s PROVE InState(s) = Cardinality(In(Conns, conn, {s}))
  OBVIOUS
<1>1. {c \in Conns : conn[c] = s} = In(Conns, conn, {s})
  BY DEF In
<1> QED
  BY <1>1 DEF InState

\* The final report accounts for every connection that was asked for, whatever moment
\* the shutdown comes at and however the tasks end.
THEOREM ReportCorrect == Spec => []ReportExact
<1>1. IInv => ReportExact
  <2> SUFFICES ASSUME IInv, main = "reported"
               PROVE  /\ total_connections = Targets * Connections
                      /\ success_connections = InState("closed")
                      /\ success_connections + InState("failed") + InState("aborted")
                           = total_connections
                      /\ connection_errors >= InState("failed")
    BY DEF ReportExact
  <2> DEFINE Number(S) == Cardinality(In(Conns, conn, S))
  <2>1. \A c \in Conns : conn[c] \in C!Ended
    BY DEF IInv, JoinInv
  <2>2. Number(C!ConnStates \ {"waiting"}) = Targets * Connections
    <3>1. \A c \in Conns : conn[c] \in C!ConnStates \ {"waiting"}
      BY <2>1 DEF C!ConnStates, C!Ended
    <3>2. In(Conns, conn, C!ConnStates \ {"waiting"}) = Conns
      BY <3>1, CountAll
    <3> QED
      BY <3>2, NumberOfConns
  <2>3. Number({"closed", "failed", "aborted"}) = Targets * Connections
    <3>1. In(Conns, conn, C!Ended) = Conns
      BY <2>1, CountAll
    <3> QED
      BY <3>1, NumberOfConns DEF C!Ended
  <2>4. Number({"closed", "failed", "aborted"})
          = Number({"closed"}) + Number({"failed"}) + Number({"aborted"})
    <3>1. Number({"closed", "failed"} \cup {"aborted"})
            = Number({"closed", "failed"}) + Number({"aborted"})
      <4>1. {"closed", "failed"} \cap {"aborted"} = {}
        OBVIOUS
      <4> QED
        BY <4>1, NumberOfConns, CountUnion
    <3>2. Number({"closed"} \cup {"failed"}) = Number({"closed"}) + Number({"failed"})
      <4>1. {"closed"} \cap {"failed"} = {}
        OBVIOUS
      <4> QED
        BY <4>1, NumberOfConns, CountUnion
    <3>3. /\ {"closed", "failed"} \cup {"aborted"} = {"closed", "failed", "aborted"}
          /\ {"closed"} \cup {"failed"} = {"closed", "failed"}
      OBVIOUS
    <3> HIDE DEF Number
    <3> QED
      BY <3>1, <3>2, <3>3
  <2>5. /\ InState("closed") = Number({"closed"}) /\ InState("failed") = Number({"failed"})
        /\ InState("aborted") = Number({"aborted"})
    BY InStateIn
  <2>6. /\ total_connections = Number(C!ConnStates \ {"waiting"})
        /\ success_connections = Number({"closed"})
        /\ connection_errors >= Number({"failed"})
    BY DEF IInv, CountInv
  <2> HIDE DEF Number
  <2> QED
    BY <2>2, <2>3, <2>4, <2>5, <2>6
<1> QED
  BY Inductive, <1>1, PTL

\* No task moves and no counter is written from the moment print_final_stats is called,
\* although no task is stopped for it.
THEOREM ReportFinal == Spec => ReportIsFinal
<1>1. IInv /\ [Next]_vars => [main = "reported" => UNCHANGED taskVars]_vars
  <2> SUFFICES ASSUME IInv, Next, main = "reported" PROVE UNCHANGED taskVars
    BY DEF vars
  <2>1. \A c \in Conns : conn[c] \in C!Ended
    BY DEF IInv, JoinInv
  <2>2. ASSUME NEW c \in Conns, Task(c) PROVE FALSE
    BY <2>1, <2>2 DEF Task, Begin, C!Begin, Answer, C!Answer, Fault, C!Fault, GiveUp,
       C!GiveUp, Abort, C!Abort, Finish, C!Finish, C!Ended
  <2>3. ~Main
    BY DEF Main, ConnectDelay, Spawn, StartWarmup, EndWarmup, SetShuttingDown,
       NotifyShutdown, Report,
       MainGoes
  <2> QED
    BY <2>2, <2>3 DEF Next, Tick
<1> QED
  BY Inductive, <1>1, PTL DEF Spec, ReportIsFinal

\* Every task is sent the shutdown, also one that is spawned and has not run yet: its
\* receiver was made by the spawn loop and not by the task.
THEOREM ShutdownReachesEveryone == Spec => []NobodyMissesShutdown
<1>1. IInv => NobodyMissesShutdown
  BY DEF IInv, ReceiverInv, NobodyMissesShutdown
<1> QED
  BY Inductive, <1>1, PTL

\* The staggered delays keep the connections in the order of their slots: none begins
\* before its own, so no more have begun by any slot than are due by then.
THEOREM StaggerCorrect == Spec => []OnePerSlot
<1>1. IInv => OnePerSlot
  <2> SUFFICES ASSUME IInv, connect_rate > 0, NEW k \in 0 .. slot
               PROVE  Cardinality({c \in Conns : conn[c] # "waiting" /\ begun_at[c] <= k})
                        <= Cardinality({c \in Conns : Stagger(c) <= k})
    BY DEF OnePerSlot
  <2> DEFINE Begun == {c \in Conns : conn[c] # "waiting" /\ begun_at[c] <= k}
             Due == {c \in Conns : Stagger(c) <= k}
  <2>1. ASSUME NEW c \in Begun PROVE c \in Due
    <3>1. Stagger(c) <= wake[c] /\ wake[c] <= begun_at[c] /\ begun_at[c] <= k
      BY DEF IInv, StaggerInv
    <3>2. Stagger(c) \in Nat /\ wake[c] \in Nat /\ begun_at[c] \in Nat /\ k \in Nat
      BY Delay DEF IInv, TypeOK
    <3> QED
      BY <3>1, <3>2
  <2>2. IsFiniteSet(Due)
    <3>1. Due \in SUBSET Conns
      OBVIOUS
    <3> QED
      BY <3>1, NumberOfConns, FS_Subset
  <2>3. Begun \in SUBSET Due
    BY <2>1
  <2> QED
    BY <2>2, <2>3, FS_Subset
<1> QED
  BY Inductive, <1>1, PTL
=============================================================================
