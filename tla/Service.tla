------------------------------ MODULE Service ------------------------------
(***************************************************************************)
(* One saver process from container start to exit, again and again: the     *)
(* entrypoint, the lifespan of the FastAPI application, the consumer's      *)
(* start and stop, and between them the tasks of ConnectionPool.  The       *)
(* queues and the dead-letter topology are the broker's and survive.        *)
(***************************************************************************)
EXTENDS ConnectionPool

VARIABLES
  phase,      \* how far the process is
  left,       \* the queues that phase has still to go through
  consuming,  \* the queues with a started subscriber
  dlqs,       \* the queues whose DLQ is declared and bound to events.dlx
  ensured     \* auxiliary: some start has set _started

lifeVars == <<phase, left, consuming, dlqs, ensured>>
vars == <<poolVars, lifeVars>>

Phases == {"down", "subscribing", "declaring", "wiring", "serving",
           "stopping", "draining", "closed"}

TypeOK ==
  /\ place \in [Messages -> {"queued", "unacked", "acked", "dead", "lost"}]
  /\ task \in [Messages -> [pc : TaskPcs, attempt : 1..MaxAttempts, at : Bookings \union {Null}]]
  /\ lock \in [Bookings -> Messages \union {Cycle, Null}]
  /\ cycle \in [pc : CyclePcs, todo : SUBSET Bookings, at : Bookings \union {Null}]
  /\ probe \in {"idle", "connected"}
  /\ faults \in 0..MaxFaults
  /\ phase \in Phases
  /\ left \subseteq Queues /\ consuming \subseteq Queues /\ dlqs \subseteq Queues
  /\ ensured \in BOOLEAN

Init ==
  /\ PoolInit
  /\ phase = "down"
  /\ left = {}
  /\ consuming = {}
  /\ dlqs = {}
  /\ ensured = FALSE

-----------------------------------------------------------------------------
(* Starting. *)

(* alembic upgrade head, then uvicorn (set -e: only if it succeeds), then the *)
(* lifespan up to broker.start().                                             *)
Boot ==
  /\ phase = "down"
  /\ phase' = "subscribing" /\ left' = Queues
  /\ UNCHANGED <<poolVars, consuming, dlqs, ensured>>

(* broker.start() starts one subscriber after another; each one consumes from *)
(* then on, while the rest of the start is still to come.                     *)
Subscribe(q) ==
  /\ phase = "subscribing" /\ q \in left
  /\ consuming' = consuming \union {q}
  /\ left' = left \ {q}
  /\ UNCHANGED <<poolVars, phase, dlqs, ensured>>

DeclareDlx ==
  /\ phase = "subscribing" /\ left = {}
  /\ phase' = "declaring" /\ left' = Queues
  /\ UNCHANGED <<poolVars, consuming, dlqs, ensured>>

(* Declares the DLQ and binds it; what exists already is left as it is. *)
DeclareDlq(q) ==
  /\ phase = "declaring" /\ q \in left
  /\ dlqs' = dlqs \union {q}
  /\ left' = left \ {q}
  /\ UNCHANGED <<poolVars, phase, consuming, ensured>>

(* Bug: a declaration that fails is logged and the start goes on. *)
StartedRegardless ==
  /\ phase = "declaring"
  /\ phase' = "wiring" /\ left' = {} /\ ensured' = TRUE
  /\ UNCHANGED <<poolVars, consuming, dlqs>>

Started ==
  /\ phase = "declaring" /\ left = {}
  /\ phase' = "wiring" /\ ensured' = TRUE
  /\ UNCHANGED <<poolVars, left, consuming, dlqs>>

(* The backfill runner is built and, when enabled, its task created.  From    *)
(* the yield on the process answers HTTP.                                     *)
Serve ==
  /\ phase = "wiring"
  /\ phase' = "serving"
  /\ \E pc \in {"off", "asleep"} : cycle' = [NoCycle EXCEPT !.pc = pc]
  /\ UNCHANGED <<place, task, lock, probe, faults, left, consuming, dlqs, ensured>>

-----------------------------------------------------------------------------
(* Ending.  What a connection that closes has not acknowledged is requeued.  *)

Requeued == [m \in Messages |-> IF place[m] = "unacked" THEN "queued" ELSE place[m]]

Gone ==
  /\ phase' = "down" /\ left' = {} /\ consuming' = {}
  /\ place' = Requeued
  /\ task' = [m \in Messages |-> NoTask]
  /\ lock' = [b \in Bookings |-> Null]
  /\ cycle' = NoCycle
  /\ probe' = "idle"
  /\ UNCHANGED <<dlqs, ensured>>

(* A start that raises (the broker, a declaration, EVENT_USERS_API_URL) ends  *)
(* the process with its subscribers consuming and stop() never called; so     *)
(* does a crash at any other time.                                            *)
Crash == phase # "down" /\ Fault /\ Gone

(* SIGTERM: uvicorn waits for the requests, then resumes the lifespan, which  *)
(* cancels the backfill task.                                                 *)
Stop ==
  /\ phase = "serving" /\ probe = "idle"
  /\ Fault
  /\ phase' = "stopping"
  /\ cycle' = IF Cycle \in Connected THEN [cycle EXCEPT !.pc = "cancelled"] ELSE NoCycle
  /\ UNCHANGED <<place, task, lock, probe, left, consuming, dlqs, ensured>>

(* Bug: the cancelled task is not awaited. *)
NotAwaitingBackfill ==
  /\ phase = "stopping"
  /\ phase' = "draining" /\ left' = Queues
  /\ UNCHANGED <<poolVars, consuming, dlqs, ensured>>

(* backfill_runner.stop() returns when the cancelled task has ended. *)
BackfillStopped ==
  /\ phase = "stopping" /\ cycle.pc = "off"
  /\ phase' = "draining" /\ left' = Queues
  /\ UNCHANGED <<poolVars, consuming, dlqs, ensured>>

(* broker.stop() stops the subscribers one after another. *)
Unsubscribe(q) ==
  /\ phase = "draining" /\ q \in left
  /\ consuming' = consuming \ {q}
  /\ left' = left \ {q}
  /\ UNCHANGED <<poolVars, phase, dlqs, ensured>>

(* Every handler has ended: the broker connection closes, and container.close *)
(* disposes of the engine and the HTTP client.                                *)
Drained ==
  /\ phase = "draining" /\ left = {}
  /\ \A m \in Messages : ~Running(m)
  /\ phase' = "closed"
  /\ UNCHANGED <<poolVars, left, consuming, dlqs, ensured>>

(* rabbit_graceful_timeout is over: the same, with the handlers cancelled. *)
GracefulTimeout ==
  /\ phase = "draining" /\ \E m \in Messages : Running(m)
  /\ Fault
  /\ phase' = "closed" /\ left' = {} /\ consuming' = {}
  /\ place' = Requeued
  /\ task' = [m \in Messages |-> IF m \in Connected
                                 THEN [task[m] EXCEPT !.pc = "cancelled"] ELSE NoTask]
  /\ UNCHANGED <<lock, cycle, probe, dlqs, ensured>>

Exit == phase = "closed" /\ Gone /\ UNCHANGED faults

-----------------------------------------------------------------------------
(* The tasks, while the process lives. *)

(* A reject dead-letters to the DLQ, and drops the message when there is none. *)
Rejected(m) == IF QueueOf[m] \in dlqs THEN "dead" ELSE "lost"

Outcome(m) == IF m \in Poison THEN Rejected(m) ELSE "acked"

Task(m) ==
  /\ \/ QueueOf[m] \in consuming /\ Deliver(m)
     \/ Connect(m) \/ LockRow(m) \/ Settle(m, Outcome(m))
     \/ Retry(m) \/ RollBackTask(m)
  /\ UNCHANGED lifeVars

CycleStep ==
  /\ \/ Wake \/ CycleConnects \/ NextBooking \/ Answered \/ UpdateRow
     \/ CycleCommits \/ RollBackCycle
  /\ UNCHANGED lifeVars

ProbeStep ==
  /\ \/ phase = "serving" /\ ProbeConnects
     \/ ProbeEnds
  /\ UNCHANGED lifeVars

Errors ==
  /\ \/ \E m \in Messages : AttemptFails(m) \/ AttemptRejected(m, Rejected(m))
     \/ CycleFails
  /\ UNCHANGED lifeVars

BreakDeadlock ==
  /\ (\E m \in Messages : DeadlockVictim(m, Rejected(m))) \/ CycleDeadlockVictim
  /\ UNCHANGED lifeVars

Lifespan ==
  \/ Boot \/ DeclareDlx \/ Started \/ Serve
  \/ BackfillStopped \/ Drained \/ Exit
  \/ \E q \in Queues : Subscribe(q) \/ DeclareDlq(q) \/ Unsubscribe(q)

Next == \/ Lifespan
        \/ Stop \/ Crash \/ GracefulTimeout
        \/ \E m \in Messages : Task(m)
        \/ CycleStep \/ ProbeStep
        \/ Errors \/ BreakDeadlock

Spec == Init /\ [][Next]_vars

(* The container is started again when it has exited (the orchestrator's),    *)
(* the event loop resumes every task, and the pool and PostgreSQL hand a      *)
(* connection or a row to whoever waits for it: hence SF for those, which the *)
(* cycle and the probe take again and again.  PostgreSQL looks for deadlocks  *)
(* after deadlock_timeout.  Nothing is assumed of faults and stops.           *)
FairSpec ==
  /\ Spec
  /\ WF_vars(Lifespan) /\ WF_vars(CycleStep) /\ WF_vars(ProbeStep) /\ WF_vars(BreakDeadlock)
  /\ \A m \in Messages :
       /\ WF_vars(Task(m))
       /\ SF_vars(Connect(m) /\ UNCHANGED lifeVars)
       /\ SF_vars(LockRow(m) /\ UNCHANGED lifeVars)

-----------------------------------------------------------------------------
(* Properties. *)

(* Who waits for a connection, or sleeps, holds no row: no handler that has   *)
(* the row the others wait for can be behind them in the pool's queue.  One   *)
(* session per attempt, closed before the back-off (save_event, run_once).    *)
NoHoldAndWait ==
  \A b \in Bookings : lock[b] # Null => lock[b] \in Connected

(* Who cannot go on before another gives back a connection or a row. *)
Blocked(who) ==
  \/ who \in Messages /\ task[who].pc = "waiting" /\ Full
  \/ who = Cycle /\ cycle.pc = "waiting" /\ Full
  \/ AwaitsRow(who)

(* No standstill over the pool and the rows together: whenever a handler or   *)
(* the cycle is kept waiting, someone with a connection can go on, or there   *)
(* is a circle of row waits alone, which PostgreSQL sees and breaks.  No      *)
(* circle leads through the pool, which nobody would see, though every window  *)
(* be full, the cycle hold rows over its HTTP calls and user.synced hold some  *)
(* over its waits for others.                                                 *)
SomeoneGoesOn ==
  (\E who \in Messages \union {Cycle} : Blocked(who)) =>
    \/ \E who \in Connected : ~Blocked(who)
    \/ \E S \in SUBSET Connected : Circle(S)

(* The subscribers consume before the dead-letter exchange and queues exist,  *)
(* so the very first start, and failed ones after it, may drop a rejected     *)
(* message.  Once one start has come through, none is ever dropped, though    *)
(* later starts fail anywhere (start, _ensure_dead_letter_topology).          *)
LostOnlyBeforeFirstStart ==
  [][ensured => \A m \in Messages : place'[m] = "lost" => place[m] = "lost"]_vars

(* When the container is closed, the backfill task has ended and no handler   *)
(* runs: nothing meets a disposed engine or a closed HTTP client (lifespan).  *)
ClosedLast ==
  phase = "closed" =>
    /\ consuming = {} /\ cycle.pc = "off"
    /\ \A m \in Messages : ~Running(m)

(* Handlers of all queues share a pool smaller than their windows, with each  *)
(* other, the cycle and the probe, and wait for each other's rows: every      *)
(* message leaves its queue for good once faults and stops have ended.        *)
EveryMessageSettles ==
  \A m \in Messages : <>[](place[m] \in {"acked", "dead", "lost"})

(* A process told to stop exits, whatever its cycle and handlers wait for.    *)
StopEnds == phase = "stopping" ~> phase = "down"

-----------------------------------------------------------------------------
(* The inductive invariant behind the safety properties.                     *)

RetriesLeft == \A m \in Messages : task[m].pc = "backoff" => task[m].attempt < MaxAttempts

(* The cycle knows whose row it asks for. *)
CycleIsAtRow == cycle.pc \in {"asking", "updating"} => cycle.at \in Bookings

(* No more connections are out than the pool has. *)
PoolFits == IsFiniteSet(Connected) /\ Cardinality(Connected) <= PoolLimit

(* The cycle runs only while the process serves or stops; what the steps of   *)
(* the shutdown have brought to rest stays at rest.                           *)
Drains ==
  /\ phase \notin {"serving", "stopping"} => cycle.pc = "off"
  /\ phase = "draining" => consuming \subseteq left
  /\ phase = "closed" => consuming = {} /\ \A m \in Messages : ~Running(m)

(* The broker keeps what a start has declared. *)
TopologyStays ==
  /\ ensured => dlqs = Queues
  /\ phase = "declaring" => Queues \ left \subseteq dlqs

(* What is unacknowledged has a task that will settle it, and nothing else    *)
(* has: no slot of a window leaks, and nothing is settled twice.              *)
DeliveriesRun == \A m \in Messages : place[m] = "unacked" <=> Running(m)

IInv == /\ TypeOK
        /\ RetriesLeft /\ DeliveriesRun
        /\ NoHoldAndWait /\ PoolFits /\ CycleIsAtRow
        /\ Drains /\ TopologyStays
=============================================================================
