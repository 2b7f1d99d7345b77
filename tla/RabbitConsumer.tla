--------------------------- MODULE RabbitConsumer ---------------------------
(***************************************************************************)
(* The ingestion path of one saver queue: RabbitMQ delivers messages, the   *)
(* FastStream subscriber runs one handler task per delivery up to the       *)
(* prefetch limit (RabbitEventConsumerRunner), every save attempt is one    *)
(* PostgreSQL transaction (EventStoreFacade around IngestEventUseCase), and *)
(* the exception the handler ends with tells the broker what to do with the *)
(* message.                                                                 *)
(*                                                                          *)
(* The body of a transaction is here two steps, the insert into events and  *)
(* everything after it; IngestTransaction opens that second step up.        *)
(***************************************************************************)
EXTENDS Naturals, FiniteSets

CONSTANTS
  Messages,      \* messages published to the queue; re-publications included
  EventId,       \* [Messages -> ids]: CloudEvents id, primary key of events
  IdemKey,       \* [Messages -> keys or NoKey]: partial unique index of events
  NoKey,         \* the idempotencykey extension is absent
  NoMsg,         \* what an idle handler task works on
  Kind,          \* [Messages -> Kinds]: how ingesting the message ends
  Handlers,      \* handler tasks; bounds how many run at once
  Prefetch,      \* channel QoS: unacknowledged deliveries per consumer
  MaxAttempts,   \* transient_retry_attempts
  MaxFaults      \* bound: database errors, connection losses and crashes

(* A "good" message can be stored.  from_http or EventParser.parse raises on *)
(* an "unparsable" one, before the database is touched; user.synced handling *)
(* or a projection raises a non-transient error on a "badPayload" one, after *)
(* the insert.                                                               *)
Kinds == {"good", "unparsable", "badPayload"}

ASSUME ConsumerAssumption ==
         /\ MaxAttempts \in Nat \ {0}
         /\ Prefetch \in Nat \ {0}
         /\ MaxFaults \in Nat
         /\ Kind \in [Messages -> Kinds]
         /\ NoMsg \notin Messages

VARIABLES
  place,         \* the broker's view of each message
  task,          \* the handler tasks of the saver process
  rows,          \* committed events rows, each named by the message it came from
  applied,       \* committed runs of the code after the insert, per message
  unclassed,     \* history: messages that met an error _is_transient is false of
  faults         \* faults spent so far, at most MaxFaults

vars == <<place, task, rows, applied, unclassed, faults>>

Places == {"queued", "unacked", "acked", "dead"}

(* What a handler task is about to do.  A task in "project" or "commit" has  *)
(* an open transaction that inserted the row; one in "commitDup" has an open *)
(* transaction whose insert did nothing.                                     *)
Pcs == {"idle", "insert", "project", "commit", "commitDup",
        "backoff", "ack", "nack", "reject"}

(* live: the delivery's channel is still open, so its ack can be delivered.  *)
Idle == [pc |-> "idle", msg |-> NoMsg, attempt |-> 1, live |-> FALSE]

Busy(t) == task[t].pc # "idle"
Holds(t) == task[t].pc \in {"project", "commit"}
Msg(t) == task[t].msg

(* A unique violation: the event_id key or the partial idempotency index. *)
Conflict(m, n) == \/ EventId[m] = EventId[n]
                  \/ IdemKey[m] = IdemKey[n] /\ IdemKey[m] # NoKey

Stored(m) == \E n \in rows : Conflict(m, n)

Storable(m) == Kind[m] = "good"

Unacked == {m \in Messages : place[m] = "unacked"}

Tasks == [pc : Pcs, msg : Messages \union {NoMsg},
          attempt : 1..MaxAttempts, live : BOOLEAN]

TypeOK ==
  /\ place \in [Messages -> Places]
  /\ task \in [Handlers -> Tasks]
  /\ \A t \in Handlers : Busy(t) => Msg(t) \in Messages
  /\ rows \subseteq Messages
  /\ applied \in [Messages -> Nat]
  /\ unclassed \subseteq Messages
  /\ faults \in 0..MaxFaults

Init ==
  /\ place = [m \in Messages |-> "queued"]
  /\ task = [t \in Handlers |-> Idle]
  /\ rows = {}
  /\ applied = [m \in Messages |-> 0]
  /\ unclassed = {}
  /\ faults = 0

-----------------------------------------------------------------------------
(* Delivery.  _consume_message runs without a suspension point up to the     *)
(* insert, so parsing belongs to this step.                                  *)

Deliver(t, m) ==
  /\ ~Busy(t)
  /\ place[m] = "queued"
  /\ Cardinality(Unacked) < Prefetch
  /\ place' = [place EXCEPT ![m] = "unacked"]
  /\ task' = [task EXCEPT ![t] =
                [pc |-> IF Kind[m] = "unparsable" THEN "reject" ELSE "insert",
                 msg |-> m, attempt |-> 1, live |-> TRUE]]
  /\ UNCHANGED <<rows, applied, unclassed, faults>>

-----------------------------------------------------------------------------
(* One save attempt: EventStoreFacade.save_event.                            *)

Goto(t, pc) == task' = [task EXCEPT ![t].pc = pc]

(* Bugs: not waiting for an open transaction; no early return for a duplicate; *)
(* taking an uncommitted row for a duplicate.                                 *)
InsertWithoutWaiting(t) ==
  /\ task[t].pc = "insert"
  /\ Goto(t, IF Stored(Msg(t)) THEN "commitDup" ELSE "project")
  /\ UNCHANGED <<place, rows, applied, unclassed, faults>>

InsertDuplicatesToo(t) ==
  /\ task[t].pc = "insert"
  /\ \A u \in Handlers \ {t} : Holds(u) => ~Conflict(Msg(t), Msg(u))
  /\ Goto(t, "project")
  /\ UNCHANGED <<place, rows, applied, unclassed, faults>>

InsertSeeingUncommitted(t) ==
  LET taken == \/ Stored(Msg(t))
               \/ \E u \in Handlers \ {t} : Holds(u) /\ Conflict(Msg(t), Msg(u))
  IN  /\ task[t].pc = "insert"
      /\ Goto(t, IF taken THEN "commitDup" ELSE "project")
      /\ UNCHANGED <<place, rows, applied, unclassed, faults>>

(* INSERT ... ON CONFLICT DO NOTHING.  PostgreSQL makes it wait while another *)
(* open transaction has inserted a conflicting row; it then sees that row     *)
(* committed (a duplicate) or gone.                                           *)
Insert(t) ==
  /\ task[t].pc = "insert"
  /\ \A u \in Handlers \ {t} : Holds(u) => ~Conflict(Msg(t), Msg(u))
  /\ Goto(t, IF Stored(Msg(t)) THEN "commitDup" ELSE "project")
  /\ UNCHANGED <<place, rows, applied, unclassed, faults>>

(* Everything IngestEventUseCase.execute does after the insert.  A permanent  *)
(* error leaves save_event, closes the session and rolls the insert back.     *)
Project(t) ==
  /\ task[t].pc = "project"
  /\ Goto(t, IF Kind[Msg(t)] = "badPayload" THEN "reject" ELSE "commit")
  /\ UNCHANGED <<place, rows, applied, unclassed, faults>>

MakeDurable(m) == /\ rows' = rows \union {m}
                  /\ applied' = [applied EXCEPT ![m] = @ + 1]

Commit(t) ==
  /\ task[t].pc = "commit"
  /\ MakeDurable(Msg(t))
  /\ Goto(t, "ack")
  /\ UNCHANGED <<place, unclassed, faults>>

CommitDup(t) ==
  /\ task[t].pc = "commitDup"
  /\ Goto(t, "ack")
  /\ UNCHANGED <<place, rows, applied, unclassed, faults>>

-----------------------------------------------------------------------------
(* Database failures: _attempt_save, _save_with_retry, _is_transient.        *)

(* Bugs: dead-lettering or acknowledging after the last attempt. *)
RejectAfterTransient(t) == IF task[t].attempt < MaxAttempts THEN "backoff" ELSE "reject"
AckAfterTransient(t) == IF task[t].attempt < MaxAttempts THEN "backoff" ELSE "ack"

AfterTransient(t) == IF task[t].attempt < MaxAttempts THEN "backoff" ELSE "nack"

Fault == /\ faults < MaxFaults
         /\ faults' = faults + 1

InTransaction(t) == task[t].pc \in {"insert", "project", "commit", "commitDup"}

(* Any statement, or getting a connection for the first one, may fail: the   *)
(* transaction is gone and _is_transient holds of the error.                 *)
TransientError(t) ==
  /\ InTransaction(t)
  /\ Fault
  /\ Goto(t, AfterTransient(t))
  /\ UNCHANGED <<place, rows, applied, unclassed>>

(* The database may also fail a statement with an error that passes, but that *)
(* _is_transient does not know: a deadlock's victim, or any server error that *)
(* arrives as a plain DBAPIError on a live connection.  The handler rejects    *)
(* at once, whatever attempts are left.                                       *)
UnclassedError(t) ==
  /\ InTransaction(t)
  /\ Fault
  /\ Goto(t, "reject")
  /\ unclassed' = unclassed \union {Msg(t)}
  /\ UNCHANGED <<place, rows, applied>>

(* The connection breaks after the server committed and before it said so.   *)
CommitUnconfirmed(t) ==
  /\ task[t].pc = "commit"
  /\ Fault
  /\ MakeDurable(Msg(t))
  /\ Goto(t, AfterTransient(t))
  /\ UNCHANGED <<place, unclassed>>

(* The back-off sleep ends and the next attempt starts. *)
Retry(t) ==
  /\ task[t].pc = "backoff"
  /\ task' = [task EXCEPT ![t].pc = "insert", ![t].attempt = @ + 1]
  /\ UNCHANGED <<place, rows, applied, unclassed, faults>>

-----------------------------------------------------------------------------
(* How the handler ends: a return acks, NackMessage(requeue=True) requeues,  *)
(* RejectMessage dead-letters.  On a closed channel none of them arrives.    *)

(* Bug: the broker takes the answer of a delivery it has taken back. *)
FinishOnAnyChannel(t, pc, to) ==
  /\ task[t].pc = pc
  /\ place' = [place EXCEPT ![Msg(t)] = to]
  /\ task' = [task EXCEPT ![t] = Idle]
  /\ UNCHANGED <<rows, applied, unclassed, faults>>

Finish(t, pc, to) ==
  /\ task[t].pc = pc
  /\ place' = IF task[t].live THEN [place EXCEPT ![Msg(t)] = to] ELSE place
  /\ task' = [task EXCEPT ![t] = Idle]
  /\ UNCHANGED <<rows, applied, unclassed, faults>>

(* Bug: the handler returns and nothing is acknowledged. *)
AckForgotten(t) == Finish(t, "ack", "unacked")

Ack(t) == Finish(t, "ack", "acked")
Nack(t) == Finish(t, "nack", "queued")
Reject(t) == Finish(t, "reject", "dead")

-----------------------------------------------------------------------------
(* The connection to the broker and the process itself.                      *)

Requeued == [m \in Messages |-> IF place[m] = "unacked" THEN "queued" ELSE place[m]]

(* Bug: a task keeps answering for the deliveries of a closed channel. *)
ConnectionLostUnnoticed ==
  /\ Unacked # {}
  /\ Fault
  /\ place' = Requeued
  /\ UNCHANGED <<task, rows, applied, unclassed>>

(* The broker requeues what was not acknowledged; the tasks do not notice.   *)
ConnectionLost ==
  /\ Unacked # {}
  /\ Fault
  /\ place' = Requeued
  /\ task' = [t \in Handlers |-> [task[t] EXCEPT !.live = FALSE]]
  /\ UNCHANGED <<rows, applied, unclassed>>

(* The AMQP client cancels a task of a closed channel, at whatever await it  *)
(* stands: CancelledError is no Exception, so no retry sees it.              *)
Cancel(t) ==
  /\ Busy(t) /\ ~task[t].live
  /\ task' = [task EXCEPT ![t] = Idle]
  /\ UNCHANGED <<place, rows, applied, unclassed, faults>>

(* The process dies and is started again with empty counters. *)
Crash ==
  /\ \E t \in Handlers : Busy(t)
  /\ Fault
  /\ place' = Requeued
  /\ task' = [t \in Handlers |-> Idle]
  /\ UNCHANGED <<rows, applied, unclassed>>

(* Every message has left the queue: the consumer waits for more. *)
Quiescent ==
  /\ \A m \in Messages : place[m] \in {"acked", "dead"}
  /\ \A t \in Handlers : ~Busy(t)
  /\ UNCHANGED vars

Step(t) == \/ Insert(t) \/ Project(t) \/ Commit(t) \/ CommitDup(t) \/ Retry(t)
           \/ Ack(t) \/ Nack(t) \/ Reject(t)

Next == \/ \E t \in Handlers, m \in Messages : Deliver(t, m)
        \/ \E t \in Handlers : \/ Step(t)
                               \/ TransientError(t)
                               \/ UnclassedError(t)
                               \/ CommitUnconfirmed(t)
                               \/ Cancel(t)
        \/ ConnectionLost
        \/ Crash
        \/ Quiescent

Spec == Init /\ [][Next]_vars

(* The event loop resumes every task whose await is over, and the broker     *)
(* delivers while the prefetch window is open.  Nothing is assumed of faults *)
(* and cancellations, which may happen or not.                               *)
Fairness == /\ \A t \in Handlers : WF_vars(Step(t))
            /\ \A m \in Messages : WF_vars(\E t \in Handlers : Deliver(t, m))

FairSpec == Spec /\ Fairness

-----------------------------------------------------------------------------
(* Properties.                                                               *)

(* No two events rows share an event_id or an idempotency key, whichever     *)
(* deliveries of whichever re-publications ran concurrently, were retried or *)
(* were cut off after their commit (EventRepository.save).                   *)
UniqueRows == \A m, n \in rows : Conflict(m, n) => m = n

(* The bookings and projections writes of an event take effect exactly once, *)
(* and only with its row: one transaction per attempt, nothing on a duplicate *)
(* (EventStoreFacade.save_event, the early return of execute).               *)
AppliedOnce == \A m \in Messages : applied[m] = IF m \in rows THEN 1 ELSE 0

(* A message is acknowledged only when its event, or the one it duplicates,  *)
(* is committed: no crash or rollback loses an acknowledged event.           *)
AckedIsStored == \A m \in Messages : place[m] = "acked" => Stored(m)

(* A message is dead-lettered for a cause: it can never be stored, or a      *)
(* database error that _is_transient does not know hit one of its attempts.   *)
(* Transient errors, however many, only send it back to its queue             *)
(* (_save_with_retry).                                                        *)
DeadHasCause ==
  \A m \in Messages : place[m] = "dead" => ~Storable(m) \/ m \in unclassed

(* A message that has left the queue stays out: a task that outlived its     *)
(* channel cannot requeue or dead-letter what a redelivery settled.          *)
SettledForever ==
  [][\A m \in Messages : place[m] \in {"acked", "dead"} => place'[m] = place[m]]_place

(* Once faults stop, every message leaves the queue for good.                *)
EveryMessageSettles == \A m \in Messages : <>[](place[m] \in {"acked", "dead"})

(* The specification of what the consumer promises, implemented.             *)
Abs == INSTANCE ExactlyOnce WITH
         stored <- rows,
         failed <- unclassed,
         outcome <- [m \in Messages |-> IF place[m] \in {"acked", "dead"}
                                        THEN place[m] ELSE "open"]

Abstract == Abs!Spec

-----------------------------------------------------------------------------
(* The inductive invariant behind the safety properties.                     *)

(* A live delivery is the broker's: its message is unacknowledged and no     *)
(* other live delivery carries it.                                           *)
LiveOwns ==
  /\ \A t \in Handlers : Busy(t) /\ task[t].live => place[Msg(t)] = "unacked"
  /\ \A t, u \in Handlers :
       Busy(t) /\ task[t].live /\ Busy(u) /\ task[u].live /\ Msg(t) = Msg(u) => t = u

(* Open transactions that inserted a row exclude each other and every row    *)
(* committed so far.                                                         *)
HoldersApart ==
  /\ \A t, u \in Handlers : Holds(t) /\ Holds(u) /\ Conflict(Msg(t), Msg(u)) => t = u
  /\ \A t \in Handlers : Holds(t) => ~Stored(Msg(t))

(* A task is where it is for a reason. *)
TaskJustified ==
  \A t \in Handlers :
    /\ task[t].pc \in {"ack", "commitDup"} => Stored(Msg(t))
    /\ task[t].pc = "reject" => ~Storable(Msg(t)) \/ Msg(t) \in unclassed
    /\ task[t].pc = "commit" => Storable(Msg(t))
    /\ task[t].pc \in {"insert", "project", "commitDup", "backoff"} =>
         Kind[Msg(t)] # "unparsable"

IInv == /\ TypeOK
        /\ LiveOwns
        /\ HoldersApart
        /\ TaskJustified
        /\ UniqueRows
        /\ AppliedOnce
        /\ AckedIsStored
        /\ DeadHasCause
=============================================================================
