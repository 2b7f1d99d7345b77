---------------------------- MODULE ServiceProofs ----------------------------
(***************************************************************************)
(* Proofs of Service's safety properties, for any messages, queues,         *)
(* bookings, pool, windows and faults.                                      *)
(***************************************************************************)
EXTENDS Service, FiniteSetTheorems, WellFoundedInduction, TLAPS

(* Every step of a handler, and every step of the cycle. *)
Handler(m) == \/ Task(m) \/ AttemptFails(m)
              \/ AttemptRejected(m, Rejected(m)) \/ DeadlockVictim(m, Rejected(m))
Cycles == CycleStep \/ CycleFails \/ CycleDeadlockVictim

TaskRecord == [pc : TaskPcs, attempt : 1..MaxAttempts, at : Bookings \union {Null}]

(* The steps of the process. *)
LEMMA Steps ==
  [Next]_vars =>
    \/ UNCHANGED vars
    \/ Lifespan \/ Stop \/ Crash \/ GracefulTimeout
    \/ (\E m \in Messages : Handler(m)) /\ UNCHANGED lifeVars
    \/ Cycles /\ UNCHANGED lifeVars
    \/ ProbeStep
  BY DEF Next, Handler, Cycles, Task, CycleStep, Errors, BreakDeadlock

(* A handler's step is one of its own task alone; it sleeps only over a retry *)
(* it still has.                                                              *)
LEMMA HandlerMoves ==
  ASSUME TypeOK, RetriesLeft, NEW m \in Messages, Handler(m)
  PROVE  /\ \E u \in TaskRecord :
              /\ task' = [task EXCEPT ![m] = u]
              /\ u.pc = "backoff" => u.attempt < MaxAttempts
         /\ UNCHANGED <<cycle, probe>>
<1> USE DEF TaskRecord
<1>0. task \in [Messages -> TaskRecord] /\ task[m] \in TaskRecord
  BY DEF TypeOK
<1>1. UNCHANGED <<cycle, probe>>
  BY DEF Handler, Task, Deliver, Connect, LockRow, Settle, EndsAs, Retry, RollBackTask,
     AttemptFails, AttemptRejected, DeadlockVictim
<1>2. NoTask \in TaskRecord /\ NoTask.pc # "backoff"
  BY PoolAssumption DEF NoTask, TaskPcs
<1>3. CASE task' = [task EXCEPT ![m] = NoTask]
  BY <1>1, <1>2, <1>3
<1>4. CASE Deliver(m)
  <2>1. [task[m] EXCEPT !.pc = "waiting"] \in TaskRecord
    BY <1>0 DEF TaskPcs
  <2>2. task' = [task EXCEPT ![m] = [task[m] EXCEPT !.pc = "waiting"]]
    BY <1>0, <1>4 DEF Deliver
  <2> QED
    BY <1>0, <1>1, <2>1, <2>2
<1>5. CASE Connect(m) \/ LockRow(m)
  <2>1. PICK b \in Bookings \union {Null} : task' = [task EXCEPT ![m].pc = "begun", ![m].at = b]
    BY <1>5, PoolAssumption DEF Connect, LockRow, GoOnTo
  <2>2. [[task[m] EXCEPT !.pc = "begun"] EXCEPT !.at = b] \in TaskRecord
    BY <1>0, <2>1 DEF TaskPcs
  <2>3. [[task[m] EXCEPT !.pc = "begun"] EXCEPT !.at = b].pc # "backoff"
    BY <1>0
  <2>4. task' = [task EXCEPT ![m] = [[task[m] EXCEPT !.pc = "begun"] EXCEPT !.at = b]]
    BY <1>0, <2>1
  <2> QED
    BY <1>1, <2>2, <2>3, <2>4
<1>6. CASE Retry(m)
  <2>1. task[m].attempt < MaxAttempts /\ task[m].attempt \in 1..MaxAttempts
    BY <1>0, <1>6 DEF Retry, RetriesLeft
  <2>2. [pc |-> "waiting", attempt |-> task[m].attempt + 1, at |-> task[m].at] \in TaskRecord
    BY <1>0, <2>1, PoolAssumption DEF TaskPcs
  <2>3. task' = [task EXCEPT ![m] = [pc |-> "waiting", attempt |-> task[m].attempt + 1,
                                     at |-> task[m].at]]
    BY <1>0, <1>6 DEF Retry
  <2> QED
    BY <1>1, <2>2, <2>3
<1>7. CASE AttemptFails(m) /\ task[m].attempt < MaxAttempts
  <2>1. [pc |-> "backoff", attempt |-> task[m].attempt, at |-> Null] \in TaskRecord
    BY <1>0 DEF TaskPcs
  <2>2. task' = [task EXCEPT ![m] = [pc |-> "backoff", attempt |-> task[m].attempt, at |-> Null]]
    BY <1>0, <1>7 DEF AttemptFails, Goto
  <2> QED
    BY <1>1, <1>7, <2>1, <2>2
<1> QED
  BY <1>3, <1>4, <1>5, <1>6, <1>7 DEF Handler, Task, Settle, EndsAs, RollBackTask,
     AttemptFails, AttemptRejected, DeadlockVictim

(* Every task is released of its rows when it gives up its connection, so     *)
(* what is left locked is another holder's.                                   *)
LEMMA ReleasedRows ==
  ASSUME TypeOK, NEW who \in Messages \union {Cycle}, NEW b \in Bookings
  PROVE  /\ Released(who) \in [Bookings -> Messages \union {Cycle, Null}]
         /\ Released(who)[b] # Null => Released(who)[b] = lock[b] /\ lock[b] # who
  BY DEF TypeOK, Released

(* Every variable starts within its type, with nothing held and nothing going. *)
LEMMA InitInvariant == Init => IInv
<1> SUFFICES ASSUME Init PROVE IInv
  OBVIOUS
<1>1. TypeOK
  <2>1. task \in [Messages -> [pc : TaskPcs, attempt : 1..MaxAttempts, at : Bookings \union {Null}]]
    BY PoolAssumption DEF Init, PoolInit, NoTask, TaskPcs
  <2>2. cycle \in [pc : CyclePcs, todo : SUBSET Bookings, at : Bookings \union {Null}]
    BY DEF Init, PoolInit, NoCycle, CyclePcs
  <2>3. lock \in [Bookings -> Messages \union {Cycle, Null}]
    BY DEF Init, PoolInit
  <2>4. place \in [Messages -> {"queued", "unacked", "acked", "dead", "lost"}]
    BY DEF Init, PoolInit
  <2>5. faults \in 0..MaxFaults
    BY PoolAssumption DEF Init, PoolInit
  <2>6. ensured \in BOOLEAN
    BY Zenon DEF Init
  <2>7. probe \in {"idle", "connected"} /\ phase \in Phases
    BY DEF Init, PoolInit, Phases
  <2>8. left \subseteq Queues /\ consuming \subseteq Queues /\ dlqs \subseteq Queues
    BY DEF Init
  <2> QED
    BY <2>1, <2>2, <2>3, <2>4, <2>5, <2>6, <2>7, <2>8 DEF TypeOK
<1>2. RetriesLeft /\ DeliveriesRun
  BY DEF Init, PoolInit, NoTask, RetriesLeft, DeliveriesRun, Running
<1>3. NoHoldAndWait /\ CycleIsAtRow /\ Drains /\ TopologyStays
  BY PoolAssumption DEF Init, PoolInit, NoCycle, NoHoldAndWait, CycleIsAtRow,
     Drains, TopologyStays
<1>4. PoolFits
  <2>1. Connected = {}
    BY DEF Init, PoolInit, NoTask, NoCycle, Connected
  <2> QED
    BY <2>1, FS_EmptySet, PoolAssumption DEF PoolFits
<1> QED
  BY <1>1, <1>2, <1>3, <1>4 DEF IInv

-----------------------------------------------------------------------------
(* The dead-letter topology only grows; every start goes through all queues.  *)
LEMMA TopologyStep ==
  ASSUME IInv, [Next]_vars
  PROVE  TopologyStays'
<1> USE DEF TopologyStays
<1>1. CASE UNCHANGED lifeVars
  BY <1>1 DEF IInv, lifeVars
<1>2. CASE Lifespan
  <2>1. CASE Boot
    BY <2>1 DEF Boot, IInv
  <2>2. CASE DeclareDlx
    BY <2>2 DEF DeclareDlx, IInv
  <2>3. CASE Started
    BY <2>3 DEF Started, IInv, TypeOK
  <2>4. CASE Serve
    BY <2>4 DEF Serve, IInv
  <2>5. CASE BackfillStopped \/ Drained \/ Exit
    BY <2>5 DEF BackfillStopped, Drained, Exit, Gone, IInv
  <2>6. ASSUME NEW q \in Queues, Subscribe(q) \/ DeclareDlq(q) \/ Unsubscribe(q)
        PROVE  TopologyStays'
    <3>1. CASE Subscribe(q) \/ Unsubscribe(q)
      BY <3>1 DEF Subscribe, Unsubscribe, IInv
    <3>2. CASE DeclareDlq(q)
      BY <3>2 DEF DeclareDlq, IInv
    <3> QED
      BY <2>6, <3>1, <3>2
  <2> QED
    BY <1>2, <2>1, <2>2, <2>3, <2>4, <2>5, <2>6 DEF Lifespan
<1>3. CASE Stop \/ Crash \/ GracefulTimeout
  BY <1>3 DEF Stop, Crash, Gone, GracefulTimeout, IInv
<1> QED
  BY <1>1, <1>2, <1>3, Steps DEF ProbeStep, vars

-----------------------------------------------------------------------------
(* A delivery and the task that handles it begin together and end together.   *)
LEMMA DeliveriesStep ==
  ASSUME IInv, [Next]_vars
  PROVE  DeliveriesRun'
<1>1. /\ place \in [Messages -> {"queued", "unacked", "acked", "dead", "lost"}]
      /\ task \in [Messages -> TaskRecord]
  BY DEF IInv, TypeOK, TaskRecord
<1>2. \A n \in Messages : place[n] = "unacked" <=> task[n].pc \notin {"idle", "cancelled"}
  BY DEF IInv, DeliveriesRun, Running
<1>3. SUFFICES ASSUME NEW n \in Messages
               PROVE  place'[n] = "unacked" <=> task'[n].pc \notin {"idle", "cancelled"}
  BY DEF DeliveriesRun, Running
<1>4. CASE UNCHANGED <<place, task>>
  BY <1>2, <1>4
<1>5. ASSUME NEW m \in Messages, Handler(m)
      PROVE  place'[n] = "unacked" <=> task'[n].pc \notin {"idle", "cancelled"}
  <2> USE DEF TaskRecord
  <2>0. \A to : EndsAs(m, to) /\ to # "unacked" =>
          (place'[n] = "unacked" <=> task'[n].pc \notin {"idle", "cancelled"})
    BY <1>1, <1>2 DEF EndsAs, NoTask
  <2>1. CASE Deliver(m)
    BY <1>1, <1>2, <2>1 DEF Deliver
  <2>2. CASE Connect(m) \/ LockRow(m)
    <3>1. task[m].pc \in {"waiting", "begun"} /\ UNCHANGED place
      BY <2>2 DEF Connect, LockRow
    <3>2. PICK b : task' = [task EXCEPT ![m].pc = "begun", ![m].at = b]
      BY <2>2 DEF Connect, LockRow, GoOnTo
    <3>3. task'[n].pc = IF n = m THEN "begun" ELSE task[n].pc
      BY <1>1, <3>2
    <3> QED
      BY <1>2, <3>1, <3>3
  <2>3. CASE Settle(m, Outcome(m)) \/ AttemptRejected(m, Rejected(m)) \/ DeadlockVictim(m, Rejected(m))
    <3>1. Outcome(m) # "unacked" /\ Rejected(m) # "unacked"
      BY DEF Outcome, Rejected
    <3> QED
      BY <2>0, <2>3, <3>1 DEF Settle, AttemptRejected, DeadlockVictim
  <2>4. CASE Retry(m)
    BY <1>1, <1>2, <2>4 DEF Retry
  <2>5. CASE RollBackTask(m)
    BY <1>1, <1>2, <2>5 DEF RollBackTask, NoTask
  <2>6. CASE AttemptFails(m)
    <3>1. CASE task[m].attempt < MaxAttempts
      BY <1>1, <1>2, <2>6, <3>1 DEF AttemptFails, Goto
    <3>2. CASE ~(task[m].attempt < MaxAttempts)
      BY <1>1, <1>2, <2>6, <3>2 DEF AttemptFails, NoTask
    <3> QED
      BY <3>1, <3>2
  <2> QED
    BY <1>5, <2>1, <2>2, <2>3, <2>4, <2>5, <2>6 DEF Handler, Task
<1>6. CASE Crash \/ Exit
  BY <1>1, <1>6 DEF Crash, Exit, Gone, Requeued, NoTask
<1>7. CASE GracefulTimeout
  <2>1. \A m \in Messages : [task[m] EXCEPT !.pc = "cancelled"].pc = "cancelled" /\ NoTask.pc = "idle"
    BY <1>1 DEF TaskRecord, NoTask
  <2>2. task'[n].pc \in {"idle", "cancelled"} /\ place'[n] # "unacked"
    BY <1>1, <1>7, <2>1 DEF GracefulTimeout, Requeued
  <2> QED
    BY <2>2
<1>8. CASE Cycles
  BY <1>4, <1>8 DEF Cycles, CycleStep, Wake, CycleConnects, NextBooking, Answered, UpdateRow,
     CycleCommits, RollBackCycle, CycleFails, CycleDeadlockVictim
<1> QED
  BY <1>4, <1>5, <1>6, <1>7, <1>8, Steps DEF Lifespan, Boot, DeclareDlx, Started, Serve,
     BackfillStopped, Drained, Subscribe, DeclareDlq, Unsubscribe, Stop, ProbeStep,
     ProbeConnects, ProbeEnds, vars, poolVars

-----------------------------------------------------------------------------
(* What the shutdown has brought to rest: no task starts again without a      *)
(* delivery, and none is delivered from a queue nobody consumes.              *)
LEMMA DrainsStep ==
  ASSUME IInv, [Next]_vars
  PROVE  Drains'
<1> USE DEF Drains
<1>1. CASE UNCHANGED vars
  BY <1>1 DEF vars, poolVars, lifeVars, IInv, Running
<1>2. ASSUME NEW m \in Messages, Handler(m), UNCHANGED lifeVars
      PROVE  Drains'
  <2>0. PICK u \in TaskRecord : task' = [task EXCEPT ![m] = u] /\ UNCHANGED cycle
    BY <1>2, HandlerMoves DEF IInv
  <2>1. UNCHANGED <<phase, left, consuming, cycle>>
    BY <1>2, <2>0 DEF lifeVars
  <2>2. ASSUME phase = "closed", NEW n \in Messages
        PROVE  ~Running(n)'
    <3>1. consuming = {} /\ task[m].pc \in {"idle", "cancelled"}
      BY <2>2 DEF IInv, Running
    <3>2. m \notin Connected \/ task[m].pc = "cancelled"
      BY <3>1, PoolAssumption DEF Connected
    <3>3. ~AwaitsRow(m)
      BY <3>1, PoolAssumption DEF AwaitsRow
    <3>4. RollBackTask(m)
      BY <1>2, <3>1, <3>3 DEF Handler, Task, Deliver, Connect, LockRow, Settle, Retry,
         AttemptFails, AttemptRejected, DeadlockVictim, InCircle, Circle
    <3>5. /\ task' = [task EXCEPT ![m] = NoTask]
          /\ task \in [Messages -> [pc : TaskPcs, attempt : 1..MaxAttempts, at : Bookings \union {Null}]]
      BY <3>4 DEF RollBackTask, IInv, TypeOK
    <3> QED
      BY <2>2, <3>5 DEF Running, NoTask, IInv
  <2> QED
    BY <2>1, <2>2 DEF IInv
<1>3. CASE Cycles /\ UNCHANGED lifeVars
  <2>1. cycle.pc # "off" /\ UNCHANGED <<phase, left, consuming, task>>
    <3>1. InCircle(Cycle) => cycle.pc # "off"
      BY PoolAssumption DEF InCircle, Circle, AwaitsRow
    <3> QED
      BY <1>3, <3>1 DEF Cycles, CycleStep, lifeVars, Wake, CycleConnects, NextBooking, Answered,
         UpdateRow, CycleCommits, RollBackCycle, CycleFails, CycleDeadlockVictim
  <2> QED
    BY <2>1 DEF IInv
<1>4. CASE ProbeStep
  BY <1>4 DEF ProbeStep, ProbeConnects, ProbeEnds, lifeVars, IInv, Running
<1>6. CASE Lifespan
  <2>1. CASE Boot \/ DeclareDlx \/ Started \/ Serve \/ Exit
    BY <2>1 DEF Boot, DeclareDlx, Started, Serve, Exit, Gone, NoCycle, poolVars, IInv
  <2>2. CASE BackfillStopped
    BY <2>2 DEF BackfillStopped, poolVars, IInv, TypeOK
  <2>3. CASE Drained
    BY <2>3 DEF Drained, poolVars, IInv, Running
  <2>4. ASSUME NEW q \in Queues, Subscribe(q) \/ DeclareDlq(q) \/ Unsubscribe(q)
        PROVE  Drains'
    <3>1. CASE Subscribe(q) \/ DeclareDlq(q)
      BY <3>1 DEF Subscribe, DeclareDlq, poolVars, IInv
    <3>2. CASE Unsubscribe(q)
      BY <3>2 DEF Unsubscribe, poolVars, IInv
    <3> QED
      BY <2>4, <3>1, <3>2
  <2> QED
    BY <1>6, <2>1, <2>2, <2>3, <2>4 DEF Lifespan
<1>7. CASE Stop \/ Crash
  BY <1>7 DEF Stop, Crash, Gone, NoCycle
<1>8. CASE GracefulTimeout
  BY <1>8 DEF GracefulTimeout, IInv, Running, NoTask, TypeOK
<1> QED
  BY <1>1, <1>2, <1>3, <1>4, <1>6, <1>7, <1>8, Steps

-----------------------------------------------------------------------------
(* A step of one handler leaves every row with a connected holder when the    *)
(* rows it does not give back are the handler's while that is connected, or   *)
(* another's.                                                                 *)
LEMMA TaskHolders ==
  ASSUME TypeOK, NoHoldAndWait, NEW m \in Messages, NEW t,
         task' = [task EXCEPT ![m] = t], UNCHANGED <<cycle, probe>>,
         \A b \in Bookings : lock'[b] \in {Null, lock[b], m},
         \A b \in Bookings : lock'[b] = m => t.pc \in {"begun", "cancelled"}
  PROVE  NoHoldAndWait'
<1> SUFFICES ASSUME NEW b \in Bookings, lock'[b] # Null
             PROVE  lock'[b] \in Connected'
  BY DEF NoHoldAndWait
<1>1. CASE lock'[b] = m
  BY <1>1 DEF Connected, TypeOK
<1>2. CASE lock'[b] # m
  <2>1. lock'[b] = lock[b] /\ lock[b] \in Connected
    BY <1>2 DEF NoHoldAndWait
  <2> QED
    BY <1>2, <2>1 DEF Connected, TypeOK
<1> QED
  BY <1>1, <1>2

(* The same of a step of the cycle. *)
LEMMA CycleHolders ==
  ASSUME TypeOK, NoHoldAndWait, UNCHANGED <<task, probe>>,
         \A b \in Bookings : lock'[b] \in {Null, lock[b], Cycle},
         \A b \in Bookings : lock'[b] = Cycle =>
            cycle'.pc \in {"reading", "asking", "updating", "cancelled"}
  PROVE  NoHoldAndWait'
<1> SUFFICES ASSUME NEW b \in Bookings, lock'[b] # Null
             PROVE  lock'[b] \in Connected'
  BY DEF NoHoldAndWait
<1>1. CASE lock'[b] = Cycle
  BY <1>1, PoolAssumption DEF Connected
<1>2. CASE lock'[b] # Cycle
  <2>1. lock'[b] = lock[b] /\ lock[b] \in Connected
    BY <1>2 DEF NoHoldAndWait
  <2> QED
    BY <1>2, <2>1 DEF Connected
<1> QED
  BY <1>1, <1>2

(* Every row is held by who has a connection: a handler locks with the one it *)
(* has, and a session that ends gives back its rows with its connection.      *)
LEMMA HoldersStep ==
  ASSUME IInv, [Next]_vars
  PROVE  NoHoldAndWait'
<1> USE DEF IInv
<1>1. CASE UNCHANGED <<task, lock, cycle, probe>>
  BY <1>1 DEF NoHoldAndWait, Connected
<1>2. ASSUME NEW m \in Messages, Handler(m)
      PROVE  NoHoldAndWait'
  <2>0. /\ task \in [Messages -> TaskRecord]
        /\ UNCHANGED <<cycle, probe>>
        /\ task' = [task EXCEPT ![m] = task'[m]]
    <3>1. PICK u \in TaskRecord : task' = [task EXCEPT ![m] = u] /\ UNCHANGED <<cycle, probe>>
      BY <1>2, HandlerMoves
    <3> QED
      BY <3>1 DEF TypeOK, TaskRecord
  <2>1. CASE Deliver(m) \/ Connect(m) \/ Retry(m)
    <3>1. task[m].pc \notin {"begun", "cancelled"} /\ UNCHANGED lock
      BY <2>1 DEF Deliver, Connect, Retry
    <3>2. \A b \in Bookings : lock[b] # m
      BY <3>1, PoolAssumption DEF NoHoldAndWait, Connected
    <3> QED
      BY <2>0, <3>1, <3>2, TaskHolders
  <2>2. CASE LockRow(m)
    <3>1. PICK b : task' = [task EXCEPT ![m].pc = "begun", ![m].at = b]
      BY <2>2 DEF LockRow, GoOnTo
    <3>2. task'[m].pc = "begun"
      BY <2>0, <3>1 DEF TaskRecord
    <3>3. \A c \in Bookings : lock'[c] \in {lock[c], m}
      BY <2>2 DEF LockRow, TypeOK
    <3> QED
      BY <2>0, <3>2, <3>3, TaskHolders
  <2>3. CASE lock' = Released(m)
    <3>1. \A b \in Bookings : lock'[b] \in {Null, lock[b]} /\ lock'[b] # m
      BY <2>3, PoolAssumption DEF Released
    <3> QED
      BY <2>0, <3>1, TaskHolders
  <2> QED
    BY <1>2, <2>1, <2>2, <2>3 DEF Handler, Task, Settle, EndsAs, RollBackTask, AttemptFails,
       AttemptRejected, DeadlockVictim
<1>4. CASE Cycles
  <2>0. UNCHANGED <<task, probe>>
    BY <1>4 DEF Cycles, CycleStep, Wake, CycleConnects, NextBooking, Answered, UpdateRow,
                CycleCommits, RollBackCycle, CycleFails, CycleDeadlockVictim
  <2>1. CASE Wake \/ CycleConnects
    <3>1. \A b \in Bookings : lock'[b] = lock[b] /\ lock[b] # Cycle
      BY <2>1, PoolAssumption DEF Wake, CycleConnects, NoHoldAndWait, Connected
    <3> QED
      BY <2>0, <3>1, CycleHolders
  <2>2. CASE NextBooking \/ Answered \/ UpdateRow
    <3>0. \A pc : [cycle EXCEPT !.pc = pc].pc = pc /\ [cycle EXCEPT !.pc = pc, !.at = Null].pc = pc
      BY DEF TypeOK
    <3>1. cycle'.pc \in {"reading", "asking", "updating"}
      <4>1. CASE NextBooking
        BY <4>1 DEF NextBooking
      <4>2. CASE UpdateRow
        BY <3>0, <4>2 DEF UpdateRow
      <4>3. CASE Answered
        <5>1. [pc |-> "reading", todo |-> {}, at |-> Null].pc = "reading"
          OBVIOUS
        <5> QED
          BY <3>0, <4>3, <5>1 DEF Answered
      <4> QED
        BY <2>2, <4>1, <4>2, <4>3
    <3>2. \A b \in Bookings : lock'[b] \in {lock[b], Cycle}
      BY <2>2 DEF NextBooking, Answered, UpdateRow, TypeOK
    <3> QED
      BY <2>0, <3>1, <3>2, CycleHolders
  <2>3. CASE lock' = Released(Cycle)
    <3>1. \A b \in Bookings : lock'[b] \in {Null, lock[b]} /\ lock'[b] # Cycle
      BY <2>3, PoolAssumption DEF Released
    <3> QED
      BY <2>0, <3>1, CycleHolders
  <2> QED
    BY <1>4, <2>1, <2>2, <2>3 DEF Cycles, CycleStep, CycleCommits, RollBackCycle, CycleFails,
       CycleDeadlockVictim, CycleEnds
<1>6. CASE ProbeStep
  <2>1. UNCHANGED <<task, lock, cycle>>
    BY <1>6 DEF ProbeStep, ProbeConnects, ProbeEnds
  <2> QED
    BY <2>1, PoolAssumption DEF NoHoldAndWait, Connected, TypeOK
<1>7. CASE Crash \/ Exit
  BY <1>7, PoolAssumption DEF Crash, Exit, Gone, NoHoldAndWait
<1>8. CASE Serve
  <2>1. cycle.pc = "off" /\ UNCHANGED <<task, lock, probe>>
    BY <1>8 DEF Serve, Drains
  <2>2. \A b \in Bookings : lock[b] # Cycle
    BY <2>1, PoolAssumption DEF NoHoldAndWait, Connected
  <2> QED
    BY <2>1, <2>2, CycleHolders
<1>9. CASE Stop
  <2>1. UNCHANGED <<task, lock, probe>>
    BY <1>9 DEF Stop
  <2>2. Cycle \in Connected => cycle'.pc = "cancelled"
    BY <1>9 DEF Stop, TypeOK
  <2>3. \A b \in Bookings : lock[b] = Cycle => cycle'.pc = "cancelled"
    BY <2>2, PoolAssumption DEF NoHoldAndWait
  <2> QED
    BY <2>1, <2>3, CycleHolders
<1>10. CASE GracefulTimeout
  <2>1. UNCHANGED <<lock, cycle, probe>>
    BY <1>10 DEF GracefulTimeout
  <2>2. \A m \in Messages : m \in Connected => task'[m].pc = "cancelled"
    BY <1>10 DEF GracefulTimeout, TypeOK
  <2> QED
    BY <2>1, <2>2 DEF NoHoldAndWait, Connected, TypeOK
<1> QED
  <2>1. CASE Lifespan
    <3>1. CASE Serve \/ Exit
      BY <1>7, <1>8, <3>1
    <3>2. CASE ~(Serve \/ Exit)
      BY <1>1, <2>1, <3>2 DEF Lifespan, Boot, DeclareDlx, Started, BackfillStopped, Drained,
         Subscribe, DeclareDlq, Unsubscribe, poolVars
    <3> QED
      BY <3>1, <3>2
  <2> QED
    BY <1>1, <1>2, <1>4, <1>6, <1>7, <1>9, <1>10, <2>1, Steps DEF vars, poolVars

-----------------------------------------------------------------------------
(* Giving connections back, or taking one that is free, keeps to the pool.    *)
LEMMA OneMore ==
  ASSUME PoolFits,
         \/ Connected' \subseteq Connected
         \/ ~Full /\ \E who : Connected' \subseteq Connected \union {who}
  PROVE  PoolFits'
<1> USE DEF PoolFits
<1>1. ASSUME NEW S, IsFiniteSet(S), Cardinality(S) <= PoolLimit, Connected' \subseteq S
      PROVE  PoolFits'
  <2>1. /\ IsFiniteSet(Connected') /\ Cardinality(Connected') <= Cardinality(S)
        /\ Cardinality(Connected') \in Nat /\ Cardinality(S) \in Nat
    BY <1>1, FS_Subset, FS_CardinalityType
  <2> QED
    BY <1>1, <2>1, PoolAssumption
<1>2. CASE Connected' \subseteq Connected
  BY <1>1, <1>2
<1>3. ASSUME ~Full, NEW who, Connected' \subseteq Connected \union {who}
      PROVE  PoolFits'
  <2>1. Cardinality(Connected) \in Nat /\ Cardinality(Connected) < PoolLimit
    BY <1>3, FS_CardinalityType, PoolAssumption DEF Full
  <2>2. /\ IsFiniteSet(Connected \union {who})
        /\ Cardinality(Connected \union {who}) <= Cardinality(Connected) + 1
    BY <2>1, FS_AddElement
  <2>3. Cardinality(Connected \union {who}) \in Nat
    BY <2>2, FS_CardinalityType
  <2> QED
    BY <1>1, <1>3, <2>1, <2>2, <2>3, PoolAssumption
<1> QED
  BY <1>2, <1>3

(* A connection is taken only while the pool has one. *)
LEMMA PoolStep ==
  ASSUME IInv, [Next]_vars
  PROVE  PoolFits'
<1> USE DEF IInv
<1>0. PoolFits
  OBVIOUS
<1>1. CASE UNCHANGED <<task, cycle, probe>>
  <2>1. Connected' \subseteq Connected
    BY <1>1 DEF Connected
  <2> QED
    BY <1>0, <2>1, OneMore
<1>2. ASSUME NEW m \in Messages, Handler(m)
      PROVE  PoolFits'
  <2>0. PICK u \in TaskRecord : task' = [task EXCEPT ![m] = u] /\ UNCHANGED <<cycle, probe>>
    BY <1>2, HandlerMoves
  <2>1. \A n \in Messages : task'[n] = IF n = m THEN u ELSE task[n]
    BY <2>0 DEF TypeOK
  <2>2. CASE Connect(m)
    <3>1. ~Full /\ Connected' \subseteq Connected \union {m}
      BY <2>0, <2>1, <2>2 DEF Connect, Connected
    <3> QED
      BY <1>0, <3>1, OneMore
  <2>3. CASE ~Connect(m)
    <3>1. u.pc \in {"begun", "cancelled"} => task[m].pc \in {"begun", "cancelled"}
      <4>0. task[m] \in TaskRecord /\ task \in [Messages -> TaskRecord] /\ u = task'[m]
        BY <2>1 DEF TypeOK, TaskRecord
      <4>1. CASE task' = [task EXCEPT ![m] = NoTask]
        BY <4>0, <4>1 DEF NoTask
      <4>2. CASE Deliver(m) \/ Retry(m)
        BY <4>0, <4>2 DEF Deliver, Retry, TaskRecord
      <4>3. CASE AttemptFails(m) /\ task' = [task EXCEPT ![m].pc = "backoff", ![m].at = Null]
        BY <4>0, <4>3 DEF TaskRecord
      <4>4. CASE LockRow(m)
        BY <4>4 DEF LockRow
      <4> QED
        BY <1>2, <2>3, <4>1, <4>2, <4>3, <4>4 DEF Handler, Task, Settle, EndsAs, RollBackTask,
           AttemptFails, Goto, AttemptRejected, DeadlockVictim
    <3>2. Connected' \subseteq Connected
      BY <2>0, <2>1, <3>1 DEF Connected
    <3> QED
      BY <1>0, <3>2, OneMore
  <2> QED
    BY <2>2, <2>3
<1>3. CASE Cycles
  <2>0. UNCHANGED <<task, probe>>
    BY <1>3 DEF Cycles, CycleStep, Wake, CycleConnects, NextBooking, Answered, UpdateRow,
                CycleCommits, RollBackCycle, CycleFails, CycleDeadlockVictim
  <2>1. CASE CycleConnects
    <3>1. ~Full /\ Connected' \subseteq Connected \union {Cycle}
      BY <2>0, <2>1 DEF CycleConnects, Connected
    <3> QED
      BY <1>0, <3>1, OneMore
  <2>2. CASE ~CycleConnects
    <3>1. cycle'.pc \in {"reading", "asking", "updating", "cancelled"} =>
            cycle.pc \in {"reading", "asking", "updating", "cancelled"}
      <4>1. CASE Wake
        BY <4>1 DEF Wake, TypeOK
      <4>2. CASE \E pc \in {"off", "asleep"} : CycleEnds(pc)
        BY <4>2 DEF CycleEnds, NoCycle
      <4> QED
        BY <1>3, <2>2, <4>1, <4>2 DEF Cycles, CycleStep, NextBooking, Answered, UpdateRow,
           CycleCommits, RollBackCycle, CycleFails, CycleDeadlockVictim
    <3>2. Connected' \subseteq Connected
      BY <2>0, <3>1 DEF Connected
    <3> QED
      BY <1>0, <3>2, OneMore
  <2> QED
    BY <2>1, <2>2
<1>4. CASE ProbeStep
  <2>1. \/ ~Full /\ Connected' \subseteq Connected \union {Probe}
        \/ Connected' \subseteq Connected
    BY <1>4 DEF ProbeStep, ProbeConnects, ProbeEnds, Connected
  <2> QED
    BY <1>0, <2>1, OneMore
<1>5. CASE Crash \/ Exit
  <2>1. Connected' \subseteq Connected
    BY <1>5 DEF Crash, Exit, Gone, Connected, NoTask, NoCycle
  <2> QED
    BY <1>0, <2>1, OneMore
<1>6. CASE Serve
  <2>1. UNCHANGED <<task, probe>> /\ cycle'.pc \in {"off", "asleep"}
    BY <1>6 DEF Serve, NoCycle
  <2>2. Connected' \subseteq Connected
    BY <2>1 DEF Connected
  <2> QED
    BY <1>0, <2>2, OneMore
<1>7. CASE Stop
  <2>1. UNCHANGED <<task, probe>> /\ (Cycle \notin Connected => cycle'.pc = "off")
    BY <1>7 DEF Stop, NoCycle
  <2>2. Connected' \subseteq Connected
    BY <2>1, PoolAssumption DEF Connected
  <2> QED
    BY <1>0, <2>2, OneMore
<1>8. CASE GracefulTimeout
  <2>1. UNCHANGED <<cycle, probe>> /\ \A m \in Messages : m \notin Connected => task'[m] = NoTask
    BY <1>8 DEF GracefulTimeout
  <2>2. Connected' \subseteq Connected
    BY <2>1, PoolAssumption DEF Connected, NoTask
  <2> QED
    BY <1>0, <2>2, OneMore
<1> QED
  BY <1>1, <1>2, <1>3, <1>4, <1>5, <1>6, <1>7, <1>8, Steps DEF Lifespan, Boot, DeclareDlx,
     Started, BackfillStopped, Drained, Subscribe, DeclareDlq, Unsubscribe, vars, poolVars

(* The cycle turns to a booking of its list, and to nobody's when it is done. *)
LEMMA AtRowStep ==
  ASSUME IInv, [Next]_vars
  PROVE  CycleIsAtRow'
<1> USE DEF CycleIsAtRow
<1>1. CASE UNCHANGED cycle
  BY <1>1 DEF IInv
<1>2. \A pc \in {"off", "asleep"} : [NoCycle EXCEPT !.pc = pc].pc = pc
  BY DEF NoCycle
<1>3. \A pc \in CyclePcs : /\ [cycle EXCEPT !.pc = pc].pc = pc
                           /\ [cycle EXCEPT !.pc = pc, !.at = Null].pc = pc
  BY DEF IInv, TypeOK
<1>4. CASE CycleStep
  <2>1. CASE NextBooking
    BY <2>1 DEF NextBooking, IInv, TypeOK
  <2>2. CASE Answered
    <3>1. cycle.at \in Bookings
      BY <2>2 DEF Answered, IInv
    <3>2. [cycle EXCEPT !.pc = "updating"].at = cycle.at
      BY DEF IInv, TypeOK
    <3>3. [cycle EXCEPT !.pc = "reading", !.at = Null].pc = "reading"
      BY DEF IInv, TypeOK
    <3>4. [pc |-> "reading", todo |-> {}, at |-> Null].pc = "reading"
      OBVIOUS
    <3> QED
      BY <2>2, <3>1, <3>2, <3>3, <3>4, Zenon DEF Answered
  <2>3. CASE CycleConnects
    BY <2>3 DEF CycleConnects, IInv, TypeOK
  <2>4. CASE Wake \/ UpdateRow
    BY <1>3, <2>4 DEF Wake, UpdateRow, CyclePcs
  <2>5. CASE CycleCommits \/ RollBackCycle
    BY <1>2, <2>5 DEF CycleCommits, RollBackCycle, CycleEnds
  <2> QED
    BY <1>4, <2>1, <2>2, <2>3, <2>4, <2>5 DEF CycleStep
<1>5. CASE CycleFails \/ CycleDeadlockVictim
  BY <1>2, <1>5 DEF CycleFails, CycleDeadlockVictim, CycleEnds
<1>6. CASE Serve
  BY <1>2, <1>6 DEF Serve
<1>7. CASE Crash \/ Exit \/ Stop
  <2>1. NoCycle.pc = "off"
    BY DEF NoCycle
  <2>2. [cycle EXCEPT !.pc = "cancelled"].pc = "cancelled"
    BY DEF IInv, TypeOK
  <2>3. cycle'.pc \in {"off", "cancelled"}
    BY <1>7, <2>1, <2>2 DEF Crash, Exit, Gone, Stop
  <2> QED
    BY <2>3
<1>8. CASE \E m \in Messages : Handler(m)
  BY <1>1, <1>8, HandlerMoves DEF IInv
<1> QED
  BY <1>1, <1>4, <1>5, <1>6, <1>7, <1>8, Steps DEF Cycles, Lifespan, Boot, DeclareDlx, Started,
     BackfillStopped, Drained, Subscribe, DeclareDlq, Unsubscribe, GracefulTimeout,
     ProbeStep, ProbeConnects, ProbeEnds, vars, poolVars

-----------------------------------------------------------------------------
(* Each step keeps the variables within their types.  An attempt is counted   *)
(* up only after a back-off, and the last one has none.                       *)
LEMMA TypesStep ==
  ASSUME IInv, [Next]_vars
  PROVE  TypeOK' /\ RetriesLeft'
<1> USE DEF IInv
<1> DEFINE Tasks == [Messages -> TaskRecord]
           Holders == [Bookings -> Messages \union {Cycle, Null}]
           Places == [Messages -> {"queued", "unacked", "acked", "dead", "lost"}]
           CycleRecords == [pc : CyclePcs, todo : SUBSET Bookings, at : Bookings \union {Null}]
<1>0. task \in Tasks /\ lock \in Holders /\ place \in Places /\ cycle \in CycleRecords
  BY DEF TypeOK, TaskRecord
<1>1. NoTask \in TaskRecord
  BY PoolAssumption DEF NoTask, TaskPcs, TaskRecord
<1>2. \A pc \in CyclePcs : [NoCycle EXCEPT !.pc = pc] \in CycleRecords
  BY DEF NoCycle, CyclePcs
<1>3. NoCycle \in CycleRecords
  BY DEF NoCycle, CyclePcs
<1>4. Null \in Messages \union {Cycle, Null} /\ Cycle \in Messages \union {Cycle, Null}
  OBVIOUS
<1>5. task' \in Tasks /\ RetriesLeft'
  <2>1. CASE UNCHANGED task
    BY <1>0, <2>1 DEF RetriesLeft
  <2>2. ASSUME NEW m \in Messages, Handler(m)
        PROVE  task' \in Tasks /\ RetriesLeft'
    <3>1. PICK r \in TaskRecord : task' = [task EXCEPT ![m] = r]
                                 /\ (r.pc = "backoff" => r.attempt < MaxAttempts)
      BY <2>2, HandlerMoves
    <3> QED
      BY <1>0, <3>1 DEF RetriesLeft
  <2>3. CASE Crash \/ Exit
    BY <1>1, <2>3 DEF Crash, Exit, Gone, RetriesLeft, NoTask
  <2>4. CASE GracefulTimeout
    <3>1. task' = [m \in Messages |-> IF m \in Connected
                                      THEN [task[m] EXCEPT !.pc = "cancelled"] ELSE NoTask]
      BY <2>4 DEF GracefulTimeout
    <3>2. \A m \in Messages : [task[m] EXCEPT !.pc = "cancelled"]
                                \in {r \in TaskRecord : r.pc # "backoff"}
      BY <1>0 DEF TaskPcs, TaskRecord
    <3>3. task' \in Tasks
      BY <1>1, <3>1, <3>2
    <3>4. \A m \in Messages : task'[m].pc # "backoff"
      BY <3>1, <3>2 DEF NoTask
    <3> QED
      BY <3>3, <3>4 DEF RetriesLeft
  <2>5. CASE Cycles
    BY <2>1, <2>5 DEF Cycles, CycleStep, Wake, CycleConnects, NextBooking, Answered, UpdateRow,
       CycleCommits, RollBackCycle, CycleFails, CycleDeadlockVictim
  <2> QED
    BY <2>1, <2>2, <2>3, <2>4, <2>5, Steps DEF Lifespan, Boot, DeclareDlx, Started, Serve,
       BackfillStopped, Drained, Subscribe, DeclareDlq, Unsubscribe, Stop, ProbeStep,
       ProbeConnects, ProbeEnds, vars, poolVars
<1>6. lock' \in Holders
  <2>1. \A who : Released(who) \in Holders
    BY <1>0 DEF Released
  <2>2. \A b \in Bookings, who \in Messages \union {Cycle} :
          [lock EXCEPT ![b] = who] \in Holders
    BY <1>0
  <2>3. ASSUME NEW m \in Messages, Handler(m)
        PROVE  lock' \in Holders
    BY <1>0, <2>1, <2>2, <2>3 DEF Handler, Task, Deliver, Connect, LockRow, Settle, EndsAs, Retry,
       RollBackTask, AttemptFails, AttemptRejected, DeadlockVictim
  <2>4. CASE UpdateRow
    BY <1>0, <2>4 DEF UpdateRow
  <2>5. CASE Crash \/ Exit
    BY <2>5 DEF Crash, Exit, Gone
  <2>6. CASE Cycles /\ ~UpdateRow
    <3>1. UNCHANGED lock \/ lock' = Released(Cycle)
      BY <2>6 DEF Cycles, CycleStep, Wake, CycleConnects, NextBooking, Answered,
         CycleCommits, RollBackCycle, CycleFails, CycleDeadlockVictim, CycleEnds
    <3> QED
      BY <1>0, <2>1, <3>1
  <2>7. CASE UNCHANGED lock
    BY <1>0, <2>7
  <2> QED
    BY <2>3, <2>4, <2>5, <2>6, <2>7, Steps DEF Lifespan, Boot, DeclareDlx, Started, Serve,
       BackfillStopped, Drained, Subscribe, DeclareDlq, Unsubscribe, Stop, GracefulTimeout,
       ProbeStep, ProbeConnects, ProbeEnds, vars, poolVars
<1>7. place' \in Places
  <2>1. Requeued \in Places
    BY <1>0 DEF Requeued
  <2>2. ASSUME NEW m \in Messages, Handler(m)
        PROVE  place' \in Places
    <3>1. Outcome(m) \in {"acked", "dead", "lost"} /\ Rejected(m) \in {"dead", "lost"}
      BY DEF Outcome, Rejected
    <3> QED
      BY <1>0, <2>2, <3>1 DEF Handler, Task, Deliver, Connect, LockRow, Settle, EndsAs, Retry,
         RollBackTask, AttemptFails, AttemptRejected, DeadlockVictim
  <2>3. CASE Crash \/ Exit \/ GracefulTimeout
    BY <2>1, <2>3 DEF Crash, Exit, Gone, GracefulTimeout
  <2>4. CASE UNCHANGED place
    BY <1>0, <2>4
  <2>5. CASE Cycles
    BY <2>4, <2>5 DEF Cycles, CycleStep, Wake, CycleConnects, NextBooking, Answered, UpdateRow,
       CycleCommits, RollBackCycle, CycleFails, CycleDeadlockVictim
  <2> QED
    BY <2>2, <2>3, <2>4, <2>5, Steps DEF Lifespan, Boot, DeclareDlx, Started, Serve,
       BackfillStopped, Drained, Subscribe, DeclareDlq, Unsubscribe, Stop, ProbeStep,
       ProbeConnects, ProbeEnds, vars, poolVars
<1>8. cycle' \in CycleRecords
  <2>1. \A pc \in CyclePcs : /\ [cycle EXCEPT !.pc = pc] \in CycleRecords
                             /\ [cycle EXCEPT !.pc = pc, !.at = Null] \in CycleRecords
    BY <1>0
  <2>2. CASE Wake \/ UpdateRow
    BY <2>1, <2>2 DEF Wake, UpdateRow, CyclePcs
  <2>3. CASE CycleConnects
    <3>1. PICK candidates \in SUBSET Bookings :
            cycle' = [cycle EXCEPT !.pc = "reading", !.todo = candidates]
      BY <2>3 DEF CycleConnects
    <3> QED
      BY <1>0, <3>1 DEF CyclePcs
  <2>4. CASE NextBooking
    <3>1. PICK b \in cycle.todo : cycle' = [pc |-> "asking", todo |-> cycle.todo \ {b}, at |-> b]
      BY <2>4 DEF NextBooking
    <3> QED
      BY <1>0, <3>1 DEF CyclePcs
  <2>5. CASE Answered
    <3>1. [pc |-> "reading", todo |-> {}, at |-> Null] \in CycleRecords
      BY DEF CyclePcs
    <3> QED
      BY <2>1, <2>5, <3>1 DEF Answered, CyclePcs
  <2>6. CASE CycleCommits \/ RollBackCycle \/ CycleFails \/ CycleDeadlockVictim
    BY <1>2, <2>6 DEF CycleCommits, RollBackCycle, CycleFails, CycleDeadlockVictim, CycleEnds,
       CyclePcs
  <2>7. CASE Serve \/ Crash \/ Exit \/ Stop
    BY <1>2, <1>3, <2>1, <2>7 DEF Serve, Crash, Exit, Gone, Stop, CyclePcs
  <2>8. CASE UNCHANGED cycle
    BY <1>0, <2>8
  <2>9. CASE \E m \in Messages : Handler(m)
    BY <2>8, <2>9, HandlerMoves
  <2> QED
    BY <2>2, <2>3, <2>4, <2>5, <2>6, <2>7, <2>8, <2>9, Steps DEF Cycles, CycleStep, Lifespan, Boot,
       DeclareDlx, Started, BackfillStopped, Drained, Subscribe, DeclareDlq, Unsubscribe,
       GracefulTimeout, ProbeStep, ProbeConnects, ProbeEnds, vars, poolVars
<1>9. /\ probe' \in {"idle", "connected"} /\ phase' \in Phases
      /\ left' \subseteq Queues /\ consuming' \subseteq Queues /\ dlqs' \subseteq Queues
  <2>1. CASE UNCHANGED <<probe, lifeVars>>
    BY <2>1 DEF TypeOK, lifeVars
  <2>2. CASE ProbeStep
    BY <2>2 DEF ProbeStep, ProbeConnects, ProbeEnds, TypeOK, lifeVars
  <2>3. CASE Lifespan
    BY <2>3 DEF Lifespan, Boot, DeclareDlx, Started, Serve, BackfillStopped, Drained, Exit, Gone,
       Subscribe, DeclareDlq, Unsubscribe, poolVars, TypeOK, Phases
  <2>4. CASE Stop \/ Crash \/ GracefulTimeout
    BY <2>4 DEF Stop, Crash, Gone, GracefulTimeout, TypeOK, Phases
  <2>5. CASE Cycles /\ UNCHANGED lifeVars
    BY <2>1, <2>5 DEF Cycles, CycleStep, Wake, CycleConnects, NextBooking, Answered, UpdateRow,
       CycleCommits, RollBackCycle, CycleFails, CycleDeadlockVictim
  <2>6. CASE (\E m \in Messages : Handler(m)) /\ UNCHANGED lifeVars
    BY <2>1, <2>6, HandlerMoves
  <2> QED
    BY <2>1, <2>2, <2>3, <2>4, <2>5, <2>6, Steps DEF vars, poolVars
<1>10. faults' \in 0..MaxFaults
  <2>1. ASSUME NEW m \in Messages, Handler(m)
        PROVE  UNCHANGED faults \/ Fault
    <3>1. CASE AttemptFails(m) \/ AttemptRejected(m, Rejected(m))
      BY <3>1 DEF AttemptFails, AttemptRejected
    <3>2. CASE Task(m) \/ DeadlockVictim(m, Rejected(m))
      BY <3>2 DEF Task, Deliver, Connect, LockRow, Settle, Retry, RollBackTask, DeadlockVictim
    <3> QED
      BY <2>1, <3>1, <3>2 DEF Handler
  <2>2. Cycles => UNCHANGED faults \/ Fault
    <3>1. CycleFails => Fault
      BY DEF CycleFails
    <3>2. CycleStep \/ CycleDeadlockVictim => UNCHANGED faults
      BY DEF CycleStep, Wake, CycleConnects, NextBooking, Answered, UpdateRow,
         CycleCommits, RollBackCycle, CycleDeadlockVictim
    <3> QED
      BY <3>1, <3>2 DEF Cycles
  <2>3. UNCHANGED faults \/ Fault
    BY <2>1, <2>2, Steps DEF Lifespan, Boot, DeclareDlx, Started, Serve, BackfillStopped, Drained,
       Exit, Subscribe, DeclareDlq, Unsubscribe, Stop, Crash, GracefulTimeout, ProbeStep,
       ProbeConnects, ProbeEnds, vars, poolVars
  <2> QED
    BY <2>3, PoolAssumption DEF Fault, TypeOK
<1>11. ensured' \in BOOLEAN
  <2>0. \/ UNCHANGED lifeVars \/ ProbeStep
        \/ Lifespan \/ Stop \/ Crash \/ GracefulTimeout
    BY Steps DEF vars
  <2>1. CASE Lifespan
    BY <2>1, Zenon DEF Lifespan, Boot, DeclareDlx, Started, Serve, BackfillStopped, Drained, Exit,
       Gone, Subscribe, DeclareDlq, Unsubscribe, TypeOK
  <2>2. CASE ~Lifespan
    BY <2>0, <2>2, Zenon DEF Stop, Crash, Gone, GracefulTimeout, ProbeStep, lifeVars, TypeOK
  <2> QED
    BY <2>1, <2>2
<1> QED
  BY <1>5, <1>6, <1>7, <1>8, <1>9, <1>10, <1>11 DEF TypeOK, TaskRecord

-----------------------------------------------------------------------------
(* The invariant holds throughout: start, stop, crash and restart included.   *)
THEOREM InductiveInvariant == Spec => []IInv
<1>1. Init => IInv
  BY InitInvariant
<1>2. IInv /\ [Next]_vars => IInv'
  BY TypesStep, DeliveriesStep, HoldersStep, PoolStep, AtRowStep, DrainsStep, TopologyStep DEF IInv
<1> QED
  BY <1>1, <1>2, PTL DEF Spec

(* No task leaves its type: no attempt is counted past transient_retry_attempts. *)
THEOREM TypeCorrect == Spec => []TypeOK
<1>1. IInv => TypeOK
  BY DEF IInv
<1> QED
  BY <1>1, InductiveInvariant, PTL

(* No task waits for a connection, or sleeps, over a row another one waits for. *)
THEOREM NoCircularWait == Spec => []NoHoldAndWait
<1>1. IInv => NoHoldAndWait
  BY DEF IInv
<1> QED
  BY <1>1, InductiveInvariant, PTL

(* A nonempty set of numbers has a least one. *)
LEMMA HasLeast ==
  ASSUME NEW T \in SUBSET Nat, T # {}
  PROVE  \E x \in T : \A y \in T : x <= y
<1>1. PICK x \in T : \A y \in T : ~ (<<y, x>> \in OpToRel(<, Nat))
  BY WFMin, NatLessThanWellFounded, Zenon
<1>2. ASSUME NEW y \in T
      PROVE  x <= y
  <2>1. ~ (y < x)
    BY <1>1 DEF OpToRel
  <2> QED
    BY <2>1
<1> QED
  BY <1>2

(* Some of C point to each other, in circles: they are what they point to. *)
HasCircle(C, h) ==
  \E S \in SUBSET C : /\ S # {}
                      /\ \A c \in S : h[c] \in S
                      /\ \A d \in S : \E c \in S : h[c] = d

(* Where each of finitely many points to one of them, some point to each      *)
(* other in circles: a smallest set that nobody in it points out of.          *)
LEMMA PointersHaveCircle ==
  ASSUME NEW C, IsFiniteSet(C), C # {}, NEW h \in [C -> C]
  PROVE  HasCircle(C, h)
<1> DEFINE Closed(S) == S # {} /\ \A c \in S : h[c] \in S
           Sizes == {Cardinality(S) : S \in {S \in SUBSET C : Closed(S)}}
<1>1. \A S \in SUBSET C : IsFiniteSet(S) /\ Cardinality(S) \in Nat
  BY FS_Subset, FS_CardinalityType
<1>2. Sizes \in SUBSET Nat /\ Sizes # {}
  BY <1>1
<1>3. PICK n \in Sizes : \A k \in Sizes : n <= k
  <2> HIDE DEF Sizes
  <2> QED
    BY <1>2, HasLeast
<1>4. PICK S \in SUBSET C : Closed(S) /\ Cardinality(S) = n
  OBVIOUS
<1> DEFINE Image == {h[c] : c \in S}
<1>5. Image \subseteq S /\ Closed(Image)
  BY <1>4
<1>6. Cardinality(S) <= Cardinality(Image)
  BY <1>3, <1>4, <1>5
<1>7. Image = S
  <2> HIDE DEF Image
  <2> QED
    BY <1>1, <1>5, <1>6, FS_Subset
<1> QED
  BY <1>4, <1>7 DEF HasCircle

(* No standstill over connections and rows: if all that are connected wait,   *)
(* each waits for a row, whose holder is connected too, so some of them wait  *)
(* for each other's rows in a circle.                                         *)
THEOREM NoDeadlock == Spec => []SomeoneGoesOn
<1>1. ASSUME IInv, NEW who \in Messages \union {Cycle}, AwaitsRow(who)
      PROVE  who \in Connected /\ Holder(who) \in Connected
  <2>1. who \in Connected
    BY <1>1, PoolAssumption DEF AwaitsRow, Connected
  <2>2. RowAt(who) \in Bookings
    BY <1>1, PoolAssumption DEF AwaitsRow, RowAt, IInv, TypeOK, CycleIsAtRow
  <2> QED
    BY <1>1, <2>1, <2>2 DEF AwaitsRow, Holder, IInv, NoHoldAndWait
<1>2. ASSUME IInv, NEW who \in Messages \union {Cycle}, Blocked(who)
      PROVE  Connected # {}
  <2>1. CASE Full
    BY <2>1, FS_EmptySet, PoolAssumption DEF Full
  <2>2. CASE ~Full
    BY <1>1, <1>2, <2>2 DEF Blocked
  <2> QED
    BY <2>1, <2>2
<1>3. ASSUME IInv, NEW who \in Connected, Blocked(who)
      PROVE  AwaitsRow(who) /\ who \in Messages \union {Cycle}
  BY <1>3, PoolAssumption DEF Blocked, Connected, AwaitsRow
<1>4. ASSUME IInv, Connected # {}, \A who \in Connected : Blocked(who)
      PROVE  \E S \in SUBSET Connected : Circle(S)
  <2> DEFINE h == [who \in Connected |-> Holder(who)]
  <2>1. \A who \in Connected : AwaitsRow(who) /\ Holder(who) \in Connected
    BY <1>1, <1>3, <1>4
  <2>2. h \in [Connected -> Connected]
    BY <2>1
  <2>3. PICK S \in SUBSET Connected : /\ S # {}
                                      /\ \A who \in S : h[who] \in S
                                      /\ \A next \in S : \E who \in S : h[who] = next
    <3>1. IsFiniteSet(Connected) /\ Connected # {}
      BY <1>4 DEF IInv, PoolFits
    <3> HIDE DEF h
    <3>2. HasCircle(Connected, h)
      BY <3>1, <2>2, PointersHaveCircle
    <3> QED
      BY <3>2 DEF HasCircle
  <2>4. {Holder(who) : who \in S} = S
    <3>1. \A who \in S : h[who] = Holder(who)
      OBVIOUS
    <3> HIDE DEF h
    <3> QED
      BY <2>3, <3>1
  <2> QED
    BY <2>1, <2>3, <2>4 DEF Circle
<1>5. IInv => SomeoneGoesOn
  BY <1>2, <1>4 DEF SomeoneGoesOn
<1> QED
  BY <1>5, InductiveInvariant, PTL

(* The container closes after the backfill task and every handler have ended. *)
THEOREM ShutdownInOrder == Spec => []ClosedLast
<1>1. IInv => ClosedLast
  BY DEF IInv, Drains, ClosedLast
<1> QED
  BY <1>1, InductiveInvariant, PTL

(* Once one start has come through, no message is dropped for want of a DLQ:  *)
(* all of them are declared, and nothing later takes one away.                *)
THEOREM NeverLostAgain == Spec => LostOnlyBeforeFirstStart
<1>1. IInv /\ [Next]_vars
        => [ensured => \A m \in Messages : place'[m] = "lost" => place[m] = "lost"]_vars
  <2> SUFFICES ASSUME IInv, [Next]_vars, ensured, NEW m \in Messages, place'[m] = "lost"
               PROVE  place[m] = "lost"
    OBVIOUS
  <2>0. place \in [Messages -> {"queued", "unacked", "acked", "dead", "lost"}]
    BY DEF IInv, TypeOK
  <2>1. \A n \in Messages : QueueOf[n] \in dlqs
    BY PoolAssumption DEF IInv, TopologyStays
  <2>2. ASSUME NEW n \in Messages, Handler(n)
        PROVE  place[m] = "lost"
    <3>1. Outcome(n) # "lost" /\ Rejected(n) # "lost"
      BY <2>1 DEF Outcome, Rejected
    <3>2. UNCHANGED place \/ \E to : to # "lost" /\ place' = [place EXCEPT ![n] = to]
      BY <2>2, <3>1 DEF Handler, Task, Deliver, Connect, LockRow, Settle, EndsAs, Retry,
         RollBackTask, AttemptFails, AttemptRejected, DeadlockVictim
    <3> QED
      BY <2>0, <3>2
  <2>3. CASE Crash \/ Exit \/ GracefulTimeout
    BY <2>3 DEF Crash, Exit, Gone, GracefulTimeout, Requeued
  <2>4. CASE UNCHANGED place
    BY <2>4
  <2>5. CASE Cycles
    BY <2>4, <2>5 DEF Cycles, CycleStep, Wake, CycleConnects, NextBooking, Answered, UpdateRow,
       CycleCommits, RollBackCycle, CycleFails, CycleDeadlockVictim
  <2> QED
    BY <2>2, <2>3, <2>4, <2>5, Steps DEF Lifespan, Boot, DeclareDlx, Started, Serve,
       BackfillStopped, Drained, Subscribe, DeclareDlq, Unsubscribe, Stop, ProbeStep,
       ProbeConnects, ProbeEnds, vars, poolVars
<1> QED
  BY <1>1, InductiveInvariant, PTL DEF Spec, LostOnlyBeforeFirstStart

(* What has been acknowledged, dead-lettered or dropped is never settled      *)
(* again, nor requeued: not by a late handler of a process that has ended, a  *)
(* cancelled one or a crash (_consume_message, the broker's stop).            *)
SettledForGood ==
  [][\A m \in Messages : place[m] \in {"acked", "dead", "lost"} => place'[m] = place[m]]_vars

(* A settled message has no running task, and only one of those settles it.   *)
THEOREM SettledOnce == Spec => SettledForGood
<1>1. IInv /\ [Next]_vars
        => [\A m \in Messages :
              place[m] \in {"acked", "dead", "lost"} => place'[m] = place[m]]_vars
  <2> SUFFICES ASSUME IInv, [Next]_vars, NEW m \in Messages,
                      place[m] \in {"acked", "dead", "lost"}
               PROVE  place'[m] = place[m]
    OBVIOUS
  <2>1. place \in [Messages -> {"queued", "unacked", "acked", "dead", "lost"}]
    BY DEF IInv, TypeOK
  <2>2. task[m].pc \in {"idle", "cancelled"}
    BY DEF IInv, DeliveriesRun, Running
  <2>3. ASSUME NEW n \in Messages, Handler(n)
        PROVE  place'[m] = place[m]
    <3>1. CASE n = m
      <4>1. ~InCircle(m)
        BY <2>2, PoolAssumption DEF InCircle, Circle, AwaitsRow
      <4> QED
        BY <2>2, <2>3, <3>1, <4>1 DEF Handler, Task, Deliver, Connect, LockRow, Settle, Retry,
           RollBackTask, AttemptFails, AttemptRejected, DeadlockVictim
    <3>2. CASE n # m
      <4>1. UNCHANGED place \/ \E to : place' = [place EXCEPT ![n] = to]
        BY <2>3 DEF Handler, Task, Deliver, Connect, LockRow, Settle, EndsAs, Retry, RollBackTask,
           AttemptFails, AttemptRejected, DeadlockVictim
      <4> QED
        BY <2>1, <3>2, <4>1
    <3> QED
      BY <3>1, <3>2
  <2>4. CASE Crash \/ Exit \/ GracefulTimeout
    BY <2>4 DEF Crash, Exit, Gone, GracefulTimeout, Requeued
  <2>5. CASE UNCHANGED place
    BY <2>5
  <2>6. CASE Cycles
    BY <2>5, <2>6 DEF Cycles, CycleStep, Wake, CycleConnects, NextBooking, Answered, UpdateRow,
       CycleCommits, RollBackCycle, CycleFails, CycleDeadlockVictim
  <2> QED
    BY <2>3, <2>4, <2>5, <2>6, Steps DEF Lifespan, Boot, DeclareDlx, Started, Serve,
       BackfillStopped, Drained, Subscribe, DeclareDlq, Unsubscribe, Stop, ProbeStep,
       ProbeConnects, ProbeEnds, vars, poolVars
<1> QED
  BY <1>1, InductiveInvariant, PTL DEF Spec, SettledForGood
=============================================================================
