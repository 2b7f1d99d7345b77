--------------------------- MODULE ConnectionPool ---------------------------
(***************************************************************************)
(* What the tasks of one saver process share: the SQLAlchemy connection     *)
(* pool, and through it the row locks of bookings.  The handlers of every   *)
(* queue, the backfill cycle and the /ready probe take connections from it. *)
(* RabbitConsumer and IngestTransaction look inside a save attempt; here it *)
(* matters only when it waits for a connection or for a row and what it     *)
(* holds meanwhile.  Service puts these tasks into the process's lifespan.  *)
(***************************************************************************)
EXTENDS Naturals, FiniteSets

CONSTANTS
  Messages,      \* messages published to the saver queues
  Queues,        \* SAVER_QUEUES
  QueueOf,       \* [Messages -> Queues]
  Bookings,
  RowsOf,        \* [Messages -> SUBSET Bookings]: the rows a save writes: none, the
                 \* booking it upserts, or every booking of a user.synced identity
  Poison,        \* messages whose save fails for good
  Cycle, Probe,  \* the backfill cycle and the probe, as holders
  Null,          \* nobody, or no row
  Prefetch,      \* rabbit_prefetch_count, per consumer: one window per queue
  PoolLimit,     \* pool_size + max_overflow
  MaxAttempts,   \* transient_retry_attempts
  MaxFaults      \* bound: errors, timeouts, crashes, failed starts and stops

ASSUME PoolAssumption ==
         /\ Prefetch \in Nat \ {0} /\ PoolLimit \in Nat \ {0}
         /\ MaxAttempts \in Nat \ {0} /\ MaxFaults \in Nat
         /\ QueueOf \in [Messages -> Queues]
         /\ RowsOf \in [Messages -> SUBSET Bookings]
         /\ Null \notin Messages \union {Cycle} \union Bookings /\ Cycle \notin Messages
         /\ Probe \notin Messages \union {Cycle}

VARIABLES
  place,    \* the broker's view of each message
  task,     \* the handler task of each message: [pc, attempt, at]
  lock,     \* who has a booking's row locked
  cycle,    \* the backfill cycle: [pc, todo, at]
  probe,    \* the /ready request: "idle" or "connected"
  faults

poolVars == <<place, task, lock, cycle, probe, faults>>

(* waiting: for a connection; begun: has one, and writes the row at next, or  *)
(* has them all; cancelled: has what it had, and is about to roll back.       *)
TaskPcs == {"idle", "waiting", "begun", "backoff", "cancelled"}
CyclePcs == {"off", "asleep", "waiting", "reading", "asking", "updating", "cancelled"}

NoTask == [pc |-> "idle", attempt |-> 1, at |-> Null]
NoCycle == [pc |-> "off", todo |-> {}, at |-> Null]

Connected ==
  {m \in Messages : task[m].pc \in {"begun", "cancelled"}}
    \union (IF cycle.pc \in {"reading", "asking", "updating", "cancelled"} THEN {Cycle} ELSE {})
    \union (IF probe = "connected" THEN {Probe} ELSE {})

Full == Cardinality(Connected) >= PoolLimit

Running(m) == task[m].pc \notin {"idle", "cancelled"}
Unacked(q) == {m \in Messages : QueueOf[m] = q /\ place[m] = "unacked"}
Held(who) == {b \in Bookings : lock[b] = who}

Fault == faults < MaxFaults /\ faults' = faults + 1

(* Closing a session rolls back and returns its connection. *)
Released(who) == [b \in Bookings |-> IF lock[b] = who THEN Null ELSE lock[b]]

PoolInit ==
  /\ place = [m \in Messages |-> "queued"]
  /\ task = [m \in Messages |-> NoTask]
  /\ lock = [b \in Bookings |-> Null]
  /\ cycle = NoCycle
  /\ probe = "idle"
  /\ faults = 0

(* A task that waits for a row, the row, and who has it. *)
RowAt(who) == IF who = Cycle THEN cycle.at ELSE task[who].at
Holder(who) == lock[RowAt(who)]
AwaitsRow(who) ==
  /\ \/ who \in Messages /\ task[who].pc = "begun" /\ task[who].at # Null
     \/ who = Cycle /\ cycle.pc = "updating"
  /\ Holder(who) \notin {Null, who}

(* A circle of tasks, each of which waits for a row that the next one has. *)
Circle(S) == /\ S # {}
             /\ \A who \in S : AwaitsRow(who)
             /\ {Holder(who) : who \in S} = S

InCircle(who) == \E S \in SUBSET Connected : who \in S /\ Circle(S)

-----------------------------------------------------------------------------
(* Handlers. *)

Deliver(m) ==
  /\ place[m] = "queued" /\ task[m].pc = "idle"
  /\ Cardinality(Unacked(QueueOf[m])) < Prefetch
  /\ place' = [place EXCEPT ![m] = "unacked"]
  /\ task' = [task EXCEPT ![m].pc = "waiting"]
  /\ UNCHANGED <<lock, cycle, probe, faults>>

Goto(m, pc) == task' = [task EXCEPT ![m].pc = pc, ![m].at = Null]

(* The save goes on to one of the rows it has still to write, in whatever     *)
(* order the UPDATE meets them.                                               *)
GoOnTo(m, rows) ==
  \E b \in IF rows = {} THEN {Null} ELSE rows :
    task' = [task EXCEPT ![m].pc = "begun", ![m].at = b]

(* The session's first statement checks a connection out. *)
Connect(m) ==
  /\ task[m].pc = "waiting" /\ ~Full
  /\ GoOnTo(m, RowsOf[m] \ Held(m))
  /\ UNCHANGED <<place, lock, cycle, probe, faults>>

(* Bug: what follows the upsert opens a session, and a connection, of its own. *)
LockRowThenConnectAgain(m) ==
  /\ task[m].pc = "begun" /\ task[m].at # Null /\ Holder(m) \in {Null, m}
  /\ lock' = [lock EXCEPT ![task[m].at] = m]
  /\ Goto(m, "waiting")
  /\ UNCHANGED <<place, cycle, probe, faults>>

(* The upsert, or the UPDATE of user.synced, waits for a row, and keeps it    *)
(* with the rows it has until the transaction ends.                           *)
LockRow(m) ==
  /\ task[m].pc = "begun" /\ task[m].at # Null /\ Holder(m) \in {Null, m}
  /\ lock' = [lock EXCEPT ![task[m].at] = m]
  /\ GoOnTo(m, RowsOf[m] \ (Held(m) \union {task[m].at}))
  /\ UNCHANGED <<place, cycle, probe, faults>>

(* The session closes, and the handler's end settles its message. *)
EndsAs(m, to) ==
  /\ lock' = Released(m)
  /\ task' = [task EXCEPT ![m] = NoTask]
  /\ place' = [place EXCEPT ![m] = to]
  /\ UNCHANGED <<cycle, probe>>

(* The transaction commits, or rolls back for good, and the message settles.  *)
Settle(m, to) ==
  /\ task[m].pc = "begun" /\ task[m].at = Null
  /\ EndsAs(m, to)
  /\ UNCHANGED faults

(* A database error that _is_transient does not know: rejected at once. *)
AttemptRejected(m, to) ==
  /\ task[m].pc = "begun"
  /\ Fault
  /\ EndsAs(m, to)

(* PostgreSQL breaks a circle of row waits by an error in one of its          *)
(* transactions, and that error is such a one.                                *)
DeadlockVictim(m, to) ==
  /\ InCircle(m)
  /\ EndsAs(m, to)
  /\ UNCHANGED faults

(* Bug: the session stays open over the back-off. *)
BackOffInSession(m) ==
  /\ \/ task[m].pc = "waiting" /\ Full
     \/ task[m].pc = "begun"
  /\ Fault
  /\ Goto(m, "backoff")
  /\ UNCHANGED <<place, lock, cycle, probe>>

(* Bug: the attempts are not counted. *)
NeverGivesUp(m) ==
  /\ \/ task[m].pc = "waiting" /\ Full
     \/ task[m].pc = "begun"
  /\ Fault
  /\ lock' = Released(m)
  /\ Goto(m, "backoff")
  /\ UNCHANGED <<place, cycle, probe>>

(* A transient error, or no connection for 30 s.  The attempt's session is    *)
(* closed before the back-off; after the last one the message is requeued.    *)
AttemptFails(m) ==
  /\ \/ task[m].pc = "waiting" /\ Full
     \/ task[m].pc = "begun"
  /\ Fault
  /\ lock' = Released(m)
  /\ IF task[m].attempt < MaxAttempts
     THEN /\ Goto(m, "backoff")
          /\ UNCHANGED place
     ELSE /\ task' = [task EXCEPT ![m] = NoTask]
          /\ place' = [place EXCEPT ![m] = "queued"]
  /\ UNCHANGED <<cycle, probe>>

Retry(m) ==
  /\ task[m].pc = "backoff"
  /\ task' = [task EXCEPT ![m].pc = "waiting", ![m].attempt = @ + 1]
  /\ UNCHANGED <<place, lock, cycle, probe, faults>>

(* A cancelled handler's session rolls back. *)
RollBackTask(m) ==
  /\ task[m].pc = "cancelled"
  /\ lock' = Released(m)
  /\ task' = [task EXCEPT ![m] = NoTask]
  /\ UNCHANGED <<place, cycle, probe, faults>>

-----------------------------------------------------------------------------
(* The backfill cycle: one session, whose connection and rows it keeps while *)
(* it asks event-users over HTTP.                                            *)

Wake ==
  /\ cycle.pc = "asleep"
  /\ cycle' = [cycle EXCEPT !.pc = "waiting"]
  /\ UNCHANGED <<place, task, lock, probe, faults>>

CycleConnects ==
  /\ cycle.pc = "waiting" /\ ~Full
  /\ \E candidates \in SUBSET Bookings :
       cycle' = [cycle EXCEPT !.pc = "reading", !.todo = candidates]
  /\ UNCHANGED <<place, task, lock, probe, faults>>

NextBooking ==
  /\ cycle.pc = "reading"
  /\ \E b \in cycle.todo :
       cycle' = [pc |-> "asking", todo |-> cycle.todo \ {b}, at |-> b]
  /\ UNCHANGED <<place, task, lock, probe, faults>>

(* Found; unknown; or event-users unavailable, which ends the loop. *)
Answered ==
  /\ cycle.pc = "asking"
  /\ \/ cycle' = [cycle EXCEPT !.pc = "updating"]
     \/ cycle' = [cycle EXCEPT !.pc = "reading", !.at = Null]
     \/ cycle' = [pc |-> "reading", todo |-> {}, at |-> Null]
  /\ UNCHANGED <<place, task, lock, probe, faults>>

UpdateRow ==
  /\ cycle.pc = "updating" /\ lock[cycle.at] \in {Null, Cycle}
  /\ lock' = [lock EXCEPT ![cycle.at] = Cycle]
  /\ cycle' = [cycle EXCEPT !.pc = "reading", !.at = Null]
  /\ UNCHANGED <<place, task, probe, faults>>

CycleEnds(pc) ==
  /\ lock' = Released(Cycle)
  /\ cycle' = [NoCycle EXCEPT !.pc = pc]

CycleCommits ==
  /\ cycle.pc = "reading" /\ cycle.todo = {}
  /\ CycleEnds("asleep")
  /\ UNCHANGED <<place, task, probe, faults>>

(* Any exception but a cancellation ends the cycle, and not the loop. *)
CycleFails ==
  /\ \/ cycle.pc = "waiting" /\ Full
     \/ cycle.pc \in {"reading", "asking", "updating"}
  /\ Fault
  /\ CycleEnds("asleep")
  /\ UNCHANGED <<place, task, probe>>

(* The UPDATE of the cycle is the one PostgreSQL breaks off. *)
CycleDeadlockVictim ==
  /\ InCircle(Cycle)
  /\ CycleEnds("asleep")
  /\ UNCHANGED <<place, task, probe, faults>>

(* Bug: the loop takes its cancellation for one more failed cycle. *)
CancellationSwallowed ==
  /\ cycle.pc = "cancelled"
  /\ CycleEnds("asleep")
  /\ UNCHANGED <<place, task, probe, faults>>

(* Cancelled, it rolls back and ends the loop. *)
RollBackCycle ==
  /\ cycle.pc = "cancelled"
  /\ CycleEnds("off")
  /\ UNCHANGED <<place, task, probe, faults>>

-----------------------------------------------------------------------------
(* GET /ready: SELECT 1 on a connection of the same pool. *)

ProbeConnects ==
  /\ probe = "idle" /\ ~Full
  /\ probe' = "connected"
  /\ UNCHANGED <<place, task, lock, cycle, faults>>

ProbeEnds ==
  /\ probe = "connected"
  /\ probe' = "idle"
  /\ UNCHANGED <<place, task, lock, cycle, faults>>
=============================================================================
