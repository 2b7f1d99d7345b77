------------------------------ MODULE Metrics ------------------------------
(***************************************************************************)
(* The Prometheus counters of metrics.py, incremented at the consumer's     *)
(* steps.  They are the process's: a rollback does not take them back, and  *)
(* they start again from zero with it.                                      *)
(***************************************************************************)
EXTENDS RabbitConsumer

CONSTANT Lifecycle   \* the Messages with a booking lifecycle event

VARIABLE counter

metered == <<vars, counter>>

(* events: EVENTS_TOTAL; lifecycle: BOOKING_LIFECYCLE_TOTAL; the others:      *)
(* MESSAGES_PROCESSED_TOTAL by outcome.                                       *)
Zero == [c \in {"events", "lifecycle", "ok", "retried", "rejected"} |-> 0]

Count(c) == counter' = [counter EXCEPT ![c] = @ + 1]

MeteredInit == Init /\ counter = Zero

(* execute counts a new row right after its insert, before the commit. *)
CountEvent(t) ==
  /\ Insert(t)
  /\ IF task'[t].pc = "project" THEN Count("events") ELSE UNCHANGED counter

(* LifecycleProjection counts before it returns its statement; an error on    *)
(* the way to the commit comes before that or after.                          *)
CountLifecycle(t) ==
  \/ /\ Msg(t) \in Lifecycle /\ task[t].pc = "project"
     /\ Project(t) \/ TransientError(t) \/ UnclassedError(t)
     /\ Count("lifecycle")
  \/ /\ \/ TransientError(t) \/ UnclassedError(t)
        \/ Project(t) /\ (Msg(t) \in Lifecycle => task'[t].pc = "reject")
     /\ UNCHANGED counter

(* record_message, just before the handler's return or exception settles the  *)
(* delivery; a cancelled handler records nothing.                             *)
RecordMessage(t) ==
  \/ Ack(t) /\ Count("ok")
  \/ Nack(t) /\ Count("retried")
  \/ Reject(t) /\ Count("rejected")

MeteredNext ==
  \/ \E t \in Handlers : CountEvent(t) \/ CountLifecycle(t) \/ RecordMessage(t)
  \/ /\ \/ \E t \in Handlers, m \in Messages : Deliver(t, m)
        \/ \E t \in Handlers : \/ Commit(t) \/ CommitDup(t) \/ CommitUnconfirmed(t)
                               \/ Retry(t) \/ Cancel(t)
        \/ ConnectionLost
        \/ Quiescent
     /\ UNCHANGED counter
  \/ Crash /\ counter' = Zero

MeteredSpec == MeteredInit /\ [][MeteredNext]_metered

(* While no save is in progress, metrics.EVENTS_TOTAL does not exceed the    *)
(* rows persisted ("Raw events persisted (deduplicated inserts)").  It does: *)
(* the insert of a transaction that is rolled back stays counted, and is     *)
(* counted again by the next attempt.                                        *)
EventsTotalCountsRows ==
  (\A t \in Handlers : ~Busy(t)) => counter["events"] <= Cardinality(rows)
=============================================================================
