-------------------------- MODULE IngestTransaction --------------------------
(***************************************************************************)
(* Concurrent ingestion transactions of the events of one booking, one      *)
(* statement of IngestEventUseCase.execute per step, under PostgreSQL's     *)
(* READ COMMITTED: a statement sees what was committed when it started and  *)
(* what its own transaction wrote; an upsert waits for the row lock of the  *)
(* transaction that inserted or updated the booking and then works on the   *)
(* row as that transaction left it.                                         *)
(*                                                                          *)
(* RabbitConsumer has the deliveries and the events table's unique keys;    *)
(* here every event has one transaction at a time, as it guarantees.        *)
(***************************************************************************)
EXTENDS BookingTables, FiniteSets

CONSTANT MaxFaults       \* bound: transactions lost to database errors

ASSUME TransactionAssumption == MaxFaults \in Nat

VARIABLES
  table,     \* committed: the booking's row and its organizer history
  tx,        \* the transaction of each event
  lock,      \* the event whose transaction has the booking's row locked, or Null
  faults,    \* database errors so far
  serial,    \* ghost: table, had the committed events been ingested one at a time
  raced      \* ghost: events of other queues that upserted an existing booking

vars == <<table, tx, lock, faults, serial, raced>>

Pcs == {"begin", "find", "upsert", "history", "client", "project", "commit",
        "done", "rejected"}

(* found: what get_or_none answered.  work: the transaction's own version of  *)
(* the booking and its history, once it has locked the row.                   *)
Begun == [pc |-> "begin", found |-> FALSE, work |-> Empty]

Init ==
  /\ table = Empty
  /\ tx = [e \in Events |-> Begun]
  /\ lock = Null
  /\ faults = 0
  /\ serial = Empty
  /\ raced = {}

At(e, pc) == tx[e].pc = pc
Goto(e, pc) == tx' = [tx EXCEPT ![e].pc = pc]

-----------------------------------------------------------------------------
(* The statements. *)

(* INSERT INTO events: no other transaction has this event's keys. *)
InsertEvent(e) ==
  /\ At(e, "begin")
  /\ Goto(e, IF Ev[e].booking THEN "find" ELSE "commit")
  /\ UNCHANGED <<table, lock, faults, serial, raced>>

(* Bug: lifecycle events, too, skip the upsert of a booking that is there. *)
FindBookingOfAnyQueue(e) ==
  /\ At(e, "find")
  /\ tx' = [tx EXCEPT ![e].found = table.booking.exists,
                      ![e].pc = IF table.booking.exists THEN "project" ELSE "upsert"]
  /\ UNCHANGED <<table, lock, faults, serial, raced>>

(* get_or_none: a plain SELECT, which neither waits nor locks. *)
FindBooking(e) ==
  /\ At(e, "find")
  /\ tx' = [tx EXCEPT ![e].found = table.booking.exists,
                      ![e].pc = IF Upserts(e, table.booking.exists)
                                THEN "upsert" ELSE "project"]
  /\ UNCHANGED <<table, lock, faults, serial, raced>>

AfterUpsert(e) == CASE RecordsOrganizer(e) -> "history"
                    [] ReassignsClient(e)  -> "client"
                    [] OTHER -> "project"

(* Bug: the row is not locked against the others. *)
UpsertWithoutWaiting(e) ==
  /\ At(e, "upsert")
  /\ lock' = e
  /\ tx' = [tx EXCEPT ![e].work = [table EXCEPT !.booking = Upserted(@, e)],
                      ![e].pc = AfterUpsert(e)]
  /\ UNCHANGED <<table, faults, serial, raced>>

UpsertBooking(e) ==
  /\ At(e, "upsert")
  /\ lock = Null
  /\ lock' = e
  /\ tx' = [tx EXCEPT ![e].work = [table EXCEPT !.booking = Upserted(@, e)],
                      ![e].pc = AfterUpsert(e)]
  /\ raced' = IF Ev[e].queue # "lifecycle" /\ table.booking.exists
              THEN raced \union {e} ELSE raced
  /\ UNCHANGED <<table, faults, serial>>

SaveOrganizerHistory(e) ==
  /\ At(e, "history")
  /\ tx' = [tx EXCEPT ![e].work.history = HistoryAfter(table.history, e),
                      ![e].pc = "project"]
  /\ UNCHANGED <<table, lock, faults, serial, raced>>

(* Bug: the new client only fills a column that is NULL. *)
UpdateClientIfUnset(e) ==
  /\ At(e, "client")
  /\ tx' = [tx EXCEPT ![e].work.booking.cli = Coalesce(@, Ev[e].newCli),
                      ![e].pc = "project"]
  /\ UNCHANGED <<table, lock, faults, serial, raced>>

UpdateClient(e) ==
  /\ At(e, "client")
  /\ tx' = [tx EXCEPT ![e].work.booking = ClientUpdated(@, e),
                      ![e].pc = "project"]
  /\ UNCHANGED <<table, lock, faults, serial, raced>>

Raises(e) == ProjectionRaises(e, tx[e].found)

(* Bug: the connection goes back to the pool with its transaction open. *)
RollbackHoldingLock(e, pc) ==
  /\ tx' = [tx EXCEPT ![e] = [Begun EXCEPT !.pc = pc]]
  /\ UNCHANGED <<table, lock, serial, raced>>

(* Bug: without a transaction around them, the statements before the error stay. *)
RollbackNothing(e, pc) ==
  /\ tx' = [tx EXCEPT ![e] = [Begun EXCEPT !.pc = pc]]
  /\ table' = IF lock = e THEN tx[e].work ELSE table
  /\ lock' = IF lock = e THEN Null ELSE lock
  /\ UNCHANGED <<serial, raced>>

Rollback(e, pc) ==
  /\ tx' = [tx EXCEPT ![e] = [Begun EXCEPT !.pc = pc]]
  /\ lock' = IF lock = e THEN Null ELSE lock
  /\ raced' = raced \ {e}
  /\ UNCHANGED <<table, serial>>

(* The projections write tables of their own; one that raises ends the       *)
(* transaction and dead-letters the message.                                 *)
ExecuteProjections(e) ==
  /\ At(e, "project")
  /\ \/ ~Raises(e) /\ Goto(e, "commit") /\ UNCHANGED <<table, lock, serial, raced>>
     \/ Raises(e) /\ Rollback(e, "rejected")
  /\ UNCHANGED faults

Commit(e) ==
  /\ At(e, "commit")
  /\ table' = IF lock = e THEN tx[e].work ELSE table
  /\ lock' = IF lock = e THEN Null ELSE lock
  /\ tx' = [tx EXCEPT ![e] = [Begun EXCEPT !.pc = "done"]]
  /\ serial' = IF Ev[e].booking THEN Ingested(serial, e, serial.booking.exists) ELSE serial
  /\ UNCHANGED <<faults, raced>>

(* A transient error anywhere: everything is undone and tried again. *)
TransientError(e) ==
  /\ tx[e].pc \notin {"begin", "done", "rejected"}
  /\ faults < MaxFaults
  /\ faults' = faults + 1
  /\ Rollback(e, "begin")

(* An error of the database that _is_transient does not know: the message is  *)
(* dead-lettered.                                                             *)
UnclassedError(e) ==
  /\ tx[e].pc \notin {"done", "rejected"}
  /\ faults < MaxFaults
  /\ faults' = faults + 1
  /\ Rollback(e, "rejected")

Step(e) == \/ InsertEvent(e) \/ FindBooking(e) \/ UpsertBooking(e)
           \/ SaveOrganizerHistory(e) \/ UpdateClient(e)
           \/ ExecuteProjections(e) \/ Commit(e)

Quiescent == /\ \A e \in Events : tx[e].pc \in {"done", "rejected"}
             /\ UNCHANGED vars

Next == \/ \E e \in Events : Step(e) \/ TransientError(e) \/ UnclassedError(e)
        \/ Quiescent

Spec == Init /\ [][Next]_vars

(* Each handler task runs on, and PostgreSQL grants a lock that is free. *)
FairSpec == Spec /\ \A e \in Events : WF_vars(Step(e))

-----------------------------------------------------------------------------
(* Properties. *)

Committed == {e \in Events : tx[e].pc = "done" /\ Ev[e].booking}

TypeOK ==
  /\ table \in Tables
  /\ tx \in [Events -> [pc : Pcs, found : BOOLEAN, work : Tables]]
  /\ lock \in Events \union {Null}
  /\ faults \in 0..MaxFaults
  /\ serial \in Tables
  /\ raced \subseteq Events

(* The organizer history is the one of ingesting the events one at a time in  *)
(* the order they committed: the booking's row lock, taken by the upsert      *)
(* before the history is read, makes the read-then-insert of                  *)
(* save_organizer_history safe from the transactions running beside it.       *)
HistoryIsSerial == table.history = serial.history

(* So is the booking's row, unless an event of another queue looked for the   *)
(* booking before it was there and upserted it after.                         *)
BookingIsSerial == raced \intersect Committed = {} => table.booking = serial.booking

(* Even then the row exists once an event of the booking is committed, its    *)
(* status is the serial one, and last_seen_at only differs upwards.           *)
RaceIsBenign ==
  /\ table.booking.exists <=> Committed # {}
  /\ table.booking.exists => /\ table.booking.status = serial.booking.status
                             /\ table.booking.lastSeen >= serial.booking.lastSeen

(* No transaction loses what another committed meanwhile: the row only moves  *)
(* forward in last_seen_at, and a known participant, status or time is never  *)
(* replaced by NULL.                                                          *)
NoLostUpdate ==
  [][table.booking.exists =>
       /\ table'.booking.exists
       /\ table'.booking.lastSeen >= table.booking.lastSeen
       /\ \A c \in {"org", "cli", "status", "start"} :
            table.booking[c] # Null => table'.booking[c] # Null]_table

(* Nobody waits for a lock forever: every transaction ends.                   *)
EveryTransactionEnds == \A e \in Events : <>(tx[e].pc \in {"done", "rejected"})

(* The specification of what concurrent ingestion promises, implemented: seen *)
(* from outside, the statements of execute happen at once, when the           *)
(* transaction commits.                                                       *)
Abs == INSTANCE AtomicIngest WITH
         Fails <- ProjectionRaises,
         ended <- [e \in Events |-> IF tx[e].pc \in {"done", "rejected"}
                                   THEN tx[e].pc ELSE "open"]

Atomic == Abs!Spec

-----------------------------------------------------------------------------
(* The inductive invariant behind them. *)

(* Projections run for events about the booking, and a transaction that has   *)
(* come to its commit has none that raises.                                   *)
CommitsAreClean ==
  \A e \in Events : /\ At(e, "project") => Ev[e].booking
                    /\ At(e, "commit") /\ Ev[e].booking => ~Raises(e)

(* The lock is held from the upsert to the end of the transaction, by an      *)
(* event about the booking.                                                   *)
LockIsHeld(e) ==
  /\ tx[e].pc \in {"history", "client"} => lock = e
  /\ lock = e => /\ tx[e].pc \in {"history", "client", "project", "commit"}
                 /\ Ev[e].booking
  /\ tx[e].pc \in {"find", "upsert"} => Ev[e].booking
  /\ tx[e].pc = "history" => RecordsOrganizer(e)
  /\ tx[e].pc = "client" => ReassignsClient(e)

(* Its holder's work is what its statements make of the table as it is        *)
(* committed now: nobody else can have changed it since the upsert.           *)
WorkIsCurrent(e) ==
  lock = e =>
    LET ended == tx[e].pc \in {"project", "commit"}
        upserted == Upserted(table.booking, e)
    IN  /\ tx[e].work.booking = IF ended THEN ClientUpdated(upserted, e) ELSE upserted
        /\ tx[e].work.history = IF ended /\ RecordsOrganizer(e)
                                THEN HistoryAfter(table.history, e) ELSE table.history

(* Who goes without the lock found the booking, and may; an event of another  *)
(* queue that holds the lock is in raced unless the booking is its own.       *)
UpsertIsJustified(e) ==
  /\ tx[e].found => table.booking.exists
  /\ tx[e].pc \in {"project", "commit"} /\ lock # e /\ Ev[e].booking =>
       tx[e].found /\ Ev[e].queue # "lifecycle"
  /\ lock = e /\ e \notin raced /\ Ev[e].queue # "lifecycle" => ~table.booking.exists

Disciplined(e) == LockIsHeld(e) /\ WorkIsCurrent(e) /\ UpsertIsJustified(e)

(* The serial booking is there exactly when the committed one is. *)
SameExistence == table.booking.exists = serial.booking.exists

IInv == /\ TypeOK
        /\ \A e \in Events : Disciplined(e)
        /\ SameExistence
        /\ HistoryIsSerial
        /\ BookingIsSerial
        /\ RaceIsBenign
=============================================================================
