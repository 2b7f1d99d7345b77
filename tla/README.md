# event-saver: a verification project

event-saver consumes CloudEvents from ten RabbitMQ queues, stores each of them in PostgreSQL
(`events`), and keeps a read model of the bookings they are about. These modules model its core
from the code in `src/event_saver`; TLC checks them on small instances, TLAPS proves what matters
most for every value of the constants. `PROJECT.json` maps each definition to the lines it stands
for.

## The system

| Component | State | Operations | What makes it correct |
|---|---|---|---|
| Queue consumer (`adapters/consumer.py`) | one handler task per delivery; `_started` | `_consume_message`, `_save_with_retry`, `_attempt_save`, `start`, `stop` | no message is lost or applied twice, or dead-lettered for an error `_is_transient` knows; each one settles |
| Facade and events repository (`event_store_facade.py`, `event_repository.py`) | `events`, unique by `event_id` and by `idempotency_key` | `save_event`: one transaction; `save`: `INSERT ... ON CONFLICT DO NOTHING` | one row per event, and its effects only with its row |
| Ingestion use case (`ingest_event.py`) | none: the statements of that transaction | `execute` | concurrent transactions of a booking leave what some serial order leaves |
| Booking repository (`booking_repository.py`) | `bookings`, `booking_organizer_history` | `upsert`, `get_or_none`, `update_client`, `save_organizer_history`, `backfill_user_id_by_email` | the row is the work of the last writers, the history the list of changes |
| Projections (`projection_executor.py`, `projections/`) | links, e-mails and their status history, Telegram, chat, video and lifecycle tables | eight handlers in the order of `ioc.py` | append-only tables are complete; rows two kinds of events share keep both halves |
| user_id backfill (`user_id_backfill.py`, `users_client.py`, `backfill_runner.py`) | one asyncio task; the answers cached during a cycle | `_loop`, `_run_cycle`, `run_once`, `resolve` | only named participants, nothing overwritten, what can be resolved is |
| Domain services, classification | none | pure functions of a payload | – |
| Lifespan, wiring, configuration (`main.py`, `ioc.py`, `config.py`, `entrypoint.sh`) | connection pool, prefetch windows, subscribers, `_started` | start, stop, `/ready` | nothing outlives what it uses or waits in a circle; a stop ends; a start that fails does no lasting harm |
| Schema and migrations (`alembic/`) | the tables, indexes and constraints | 21 revisions, up and down; `upgrade head` at every start | head is reached from anywhere, and serves the code's statements |
| Metrics (`metrics.py`) | counters of the process | increments inside the transaction | they count what was stored |
| Logging, telemetry | – | – | – |

They interact thus: the broker calls a handler task per delivery, as many at once as the prefetch
window allows; the task runs `save_event`, in-process, up to `transient_retry_attempts` times; every
attempt opens a session, whose transaction inserts the event, writes the booking and runs the
projections; the exception it ends with, or none, settles the delivery. Handlers of different queues
share the database and the process's connection pool. The backfill runs beside them in a transaction
of its own, asks event-users over HTTP between its statements, and competes with ingestion and with
`user.synced` events for the rows of `bookings`. The lifespan starts the consumer, then the
backfill, and stops them in the opposite order before it closes the container.

What is hard: a commit that succeeds and is not acknowledged; re-publications under another id;
handlers that outlive their channel; read-then-write inside READ COMMITTED transactions, and
statements that do not see what another transaction has not committed; events that arrive in another
order than they occurred in; a cycle working from a candidate list, an e-mail and an HTTP answer
that are out of date; starvation, deadlock, and retries of work that side effects have already
counted; a start that fails halfway, a stop that meets a cycle inside an HTTP call; rows that
contradict the next migration. `PROJECT.json` lists these hazards at their lines.

## The modules

**`ExactlyOnce`** is what the consumer promises of a queue: a storable message may be stored
unless it conflicts with a stored one; a message settles as `acked` only when it, or what it
conflicts with, is stored, and as `dead` only when it can never be stored or the database has
`failed` it by an error that is not retried; and it settles once.

**`RabbitConsumer`** is the path from the queue to the committed transaction. `place` is the
broker's view of each message, `task` the handler tasks, `rows` and `applied` the committed rows and
how often what follows the insert was committed. One action per step between two awaits: `Deliver`
(parsing included, as nothing is awaited before the insert), `Insert`, `Project`, `Commit` or
`CommitDup`, `Ack`, `Nack`, `Reject`, `Retry`; `TransientError`, `UnclassedError` and
`CommitUnconfirmed` are what PostgreSQL may do to a transaction: the first is an error
`_is_transient` knows, the second one that passes but that it does not know (a deadlock's victim, a
server error that arrives as a plain `DBAPIError`), for which a storable message is rejected at
once, whatever attempts are left; `unclassed` remembers which. `ConnectionLost`, `Cancel` and
`Crash` are what may happen to the channel, to its tasks and to the process. `Insert` waits for an
open transaction that holds a conflicting key, as PostgreSQL's unique indexes make it. A task on a
closed channel (`live` false) still runs to its end, but its answer does not reach the broker.

**`Metrics`** adds the counters of `metrics.py` to it: `saver_events_total` goes up with the insert,
`saver_booking_lifecycle_total` with the lifecycle projection, `messages_processed_total` when the
handler ends. They are the process's own, so no rollback undoes them and a crash clears them.

**`BookingTables`** has the data: each SQL statement on the read model as an operator from a row
or table and an event to the row or table afterwards, with the early returns of the handlers and
the cases in which a statement raises. The next two modules are built from it. Two assumptions on
the events come with it: they have a time (`EventsAssumption`), and an event that assigns an
organizer or sets a status comes through the lifecycle queue (`RoutingAssumption`, the broker's
bindings).

**`ReadModel`** feeds the events of a booking to the tables in every order. `Ingest` is the commit
of a transaction: it writes the booking and runs the eight projections, each seeing what those
before it wrote; `Fail` is a transaction whose projection raises, which leaves nothing. Writes that
wait for another transaction's row, as every upsert does, go on from what it left, so the order of
the commits is theirs. Two statements do not wait for what they do not see: the `UPDATE` of a
receipt and the `DELETE` of a link work on the rows that were committed when they began. `Look`
takes that snapshot (`sees`), any time before the commit, `InTurn` says how it lies with respect to
the booking's own row and lock, and a link remembers the event that inserted its row (`born`),
since a deletion finds a row that a concurrent creation has only updated. Other queues' events may
upsert a booking they had looked for too early (`TooEarly`, at most `MaxMissed` of them, kept in
`missed`). `log` is the `events` table in the order of the commits; the properties read the tables
as functions of it and of `sees`. `Places` are where the events of a set are in the log, `FirstOf`
and `LastOf` the first and last of them to arrive: a column of the booking is what `LastToSay` said
of it, an e-mail row has `LastOf` the sent events and `LastOf` the statuses, a link is the one
`LastOf(Creating(u))` created.

**`IngestTransaction`** opens the transaction up: the statements of `execute` are actions
(`InsertEvent`, `FindBooking`, `UpsertBooking`, `SaveOrganizerHistory`, `UpdateClient`,
`ExecuteProjections`, `Commit`), those of several events of one booking interleave, `work` is the
transaction's uncommitted version, `lock` the booking's row lock. `FindBooking` is a plain read;
`UpsertBooking` waits for the lock. Two ghosts serve the properties: `serial` is what the committed
events leave when ingested one at a time in commit order, `raced` the events of other queues that
upserted a booking they had not found.

**`AtomicIngest`** is what that amounts to: each event takes effect in one step, wholly or not at
all, on the tables its predecessors left, with the single liberty that it may have looked for the
booking too early. `IngestTransaction!Atomic` is the refinement: `table` is the committed table
and `ended` is read off the program counters, so that every statement but the last one is a stutter
and a rolled-back transaction is nothing. `ReadModel!Atomic` is the same specification seen from
above: there `ended` is read off the log, and a commit is one step of it. `Reject` has no condition:
a transaction also ends so when the database fails it with an error that is not retried
(`UnclassedError`). So what the
properties of `ReadModel` say of bookings and their history is about the tables that the
interleaved statements produce, up to the race that `AtomicIngest` allows.

**`UserIdBackfill`** has the periodic cycle (`Begin` with its candidate list, `ReadEmail`,
`Answer` or `Abort`, `Update`, `Commit`, `CycleFails`), the `user.synced` transactions (`Consume`,
`UpdateRow` one row at a time in any order, `CommitSynced`, `SyncedFails`), ingestion (`Ingest`, a
whole transaction, with any subset of the known participants resolved, `update_client` by id
included, and with the race of `get_or_none`) and event-users (`Learn`).
`BreakDeadlock` is PostgreSQL choosing a victim; as `_is_transient` does not know the error, a
`user.synced` victim is dead-lettered. `cycle.work` and the rows an update holds are uncommitted:
`ids` changes only at a commit. `todo` is the list of columns found NULL when the cycle began, in
the order of the candidates' ids, so each step of the cycle works from something it read earlier.

**`ResolvedIds`** is what a reader of the bookings sees of all that: `ids` change only by the
ingestion of an event, by the whole of what one `user.synced` event resolves (`Sync`) or one cycle
does (`Backfill`, at most `Batch` bookings); the latter two fill only what is NULL, only with whom
an event of the booking lists by e-mail. There are no locks, answers or transactions in it.
`UserIdBackfill!Resolves` is the refinement; `stored`, `ids` and `directory` are the same.

**`ConnectionPool`** is what the tasks of one process share: connections, at most `PoolLimit`
(`pool_size` + `max_overflow`), and through them the row locks of `bookings`. A save writes the rows
`RowsOf` its message: none, the booking it upserts, or every booking of a `user.synced` identity,
one after another in any order (`GoOnTo`), holding those it has while it waits for the next
(`LockRow`). A handler goes from `waiting` (for a connection) to `begun`, and from an error to
`backoff`, which holds nothing; the cycle keeps one connection, and every row it has updated, until
it commits, also while it asks event-users. So the two can wait for each other in a `Circle`;
PostgreSQL cancels one of them, and a handler that is the victim rejects its message
(`DeadlockVictim`, `CycleDeadlockVictim`). `AttemptFails` is a pool timeout or any other transient
error, `AttemptRejected` one that is not retried; `Prefetch` is per queue, as FastStream gives each
subscriber a channel of its own.

**`Service`** puts these tasks into the process's life. `phase` follows `entrypoint.sh` and
`lifespan`: `Boot`, `Subscribe` queue by queue, `DeclareDlx` and `DeclareDlq`, `Started`, `Serve`;
`Stop` (which cancels the cycle), `BackfillStopped`, `Unsubscribe`, `Drained` or `GracefulTimeout`,
`Exit`. The subscribers consume from `Subscribe` on, so handlers run during all of it. `Crash` is
the process killed at any point, or a start that raises. `dlqs` are the broker's: they outlive the
process. A rejected message is `dead` when its DLQ is declared and `lost` when it is not.

**`Migrations`** has every revision as the list of operations it performs up and down, on a schema
that is a set of items (tables, columns, constraints, indexes). `Run` takes schema and rows through
them by `Apply`, which says what PostgreSQL refuses: what exists already, what is missing, what a foreign
key still refers to, and what a row contradicts. Of the rows only five facts matter: those that
some revision's constraint forbids (`Fact`). `Upgrade` and `Downgrade` are single steps, of either
branch where there are two, `UpgradeHead` is the container's start, `Write` the service of the
revision at hand. A command is one transaction (`env.py`), so it happens or it does not.
`HistoryAssumption`, that every revision comes after its parents and is a list of operations, is a
constant fact of the revisions, which TLC evaluates.

`MC*` modules give TLC its instances; `*Proofs` hold the theorems.

## The runs

| Run | Instance | Shows |
|---|---|---|
| `RabbitConsumer` | 4 messages (a re-publication with the same idempotency key, a poison message with a used id, an unparsable one), 3 tasks, prefetch 2, 2 attempts, 2 faults | `UniqueRows`, `AppliedOnce`, `AckedIsStored`, `DeadHasCause`, `SettledForever`, `EveryMessageSettles`; the refinement of `ExactlyOnce`; the inductive invariant |
| `EventsTotal` (violated) | `Metrics` on the first 3 messages, 2 tasks, no fault | the counter counts a rolled-back insert |
| `ReadModel` | one of four lives of a booking, in every arrival order: 7 events that create, reassign thrice, cancel it, change its client, join its conference; 7 of e-mails (one status without job) and Telegram, with a malformed receipt and an event about no booking; 6 of links, two users', created, replaced, deleted twice and malformed; 6 of chat: messages of both sides, an unresolved author, a payload without type, receipts. A receipt and a deletion may begin at any moment; one event may look for the booking too early | `BookingIsLastWriter`, `HistoryInOrder`, `EmailKeepsBothHalves`, `OneLinkPerUser`, `ReadExactlyWhenCovered`, `AppendOnlyTablesComplete`; the refinement of `AtomicIngest`; with `WellFormed`, all of the inductive invariant |
| `HistoryDuplicates`, `LastSeen` (violated) | the same | two statements of the documentation that an arrival order refutes |
| `IngestTransaction` | 6 concurrent transactions, 5 of one booking, one rejected by its projection, 1 database error, retried or not | `HistoryIsSerial`, `BookingIsSerial`, `RaceIsBenign`, `NoLostUpdate`, `EveryTransactionEnds`; the refinement of `AtomicIngest`; the inductive invariant |
| `BackfillSafety` | 3 bookings, batch 2; one person in two bookings; a booking that another queue's event may create, or one that names its client by id; 1 fault | `OnlyNamedParticipants`, `NeverOverwritten`; the refinement of `ResolvedIds`; the inductive invariant |
| `BackfillLiveness` | 2 bookings, one that never becomes complete, batch 2, 1 fault | `EventuallyResolved` |
| `BackfillStarved` (violated) | the same, batch 1 | a booking that never becomes complete hides the one behind it |
| `BackfillDeadlock` (violated) | 2 bookings of the same people | a `user.synced` event dead-lettered by a deadlock |
| `Service` | 3 messages in 2 queues: one of one booking, a poison one that takes no row, a `user.synced` of both bookings; windows of 1, 2 connections for up to two handlers, the cycle and the probe; 2 attempts, 3 faults or stops | `NoHoldAndWait`, `SomeoneGoesOn`, `ClosedLast`, `LostOnlyBeforeFirstStart`, `EveryMessageSettles`, `StopEnds`; the inductive invariant |
| `Migrations` | the 21 revisions, every order of single steps and of `upgrade head`, rows of all five kinds | `NothingBroken`, `SchemaOfItsRevisions`, `HeadReachable`, `HeadServesTheCode` |

**Why the bounds are enough.** Two handlers racing over one key, with a third on an unrelated
message, show every order of insert, commit and rollback; two attempts have a first, a retried and
an exhausted one; two faults let a redelivery meet a second failure. A booking's columns each have
two writers in the instances, an organizer comes back after another, and the table instances are
explored in all arrival orders; one event that looks too early is enough for its upsert to be
before, between and after the others'. Two bookings are the least a deadlock, a full batch or a
cached identity needs; `BackfillSafety` has a third, so that the batch leaves one out. Two
connections for four takers are the least in which a task waits for a connection while another has
one and waits for a row; two rows of one save are the least in which it holds one while it waits for
another, and can be in a circle with the cycle; three faults allow a failed start, a stop and an
error within it. `Migrations` has no bound: it is the real history. `MaxFaults` bounds faults
everywhere, stops of the process included, and `MaxMissed` the events that look too early; nothing
else is bounded.

**Fairness.** A handler task goes on when its await is over (the event loop), the broker delivers
while the prefetch window is open, a free lock is granted (`WF` of the steps and of `Deliver`). The
backfill's loop never ends, and PostgreSQL detects deadlocks (`WF_vars(BreakDeadlock)`). A row that
is freed goes to the statement already waiting for it, hence `SF` for `UpdateRow`. In `Service` the
orchestrator starts the container again once it has exited, each step of start and stop that has no
error goes on (`WF` of `Lifespan`, `CycleStep`, `ProbeStep`, `Task`), PostgreSQL looks for deadlocks
after `deadlock_timeout` (`WF` of `BreakDeadlock`), and the pool and PostgreSQL serve a waiter
though the cycle and the probe come again and again (`SF` of `Connect` and `LockRow`: SQLAlchemy's
pool is a queue, PostgreSQL's lock queues are fair). Faults, cancels, stops, new events and new
users are never forced.

## Findings

1. `saver_events_total` is incremented before the commit and again by every retry (`EventsTotal`).
2. A late assignment can leave consecutive history entries of one organizer (`HistoryDuplicates`).
3. `last_seen_at` is not the time of a booking's most recent event: other queues' events leave it
   alone once the booking exists (`LastSeen`).
4. Bookings that can never be completed starve the backfill once they fill a batch (`BackfillStarved`).
5. A deadlock with the backfill dead-letters a `user.synced` event (`BackfillDeadlock`).

Some consequences of the code are in the models and not in runs of their own. A reassignment to an
unresolved organizer keeps the former one (`BookingIsLastWriter` states which one). A receipt whose
update runs beside the insert of a message it covers leaves that message unread, though it commits
after it (`ReadExactlyWhenCovered` says "began after", not "arrived after"), and so does a link's
deletion with the link (`OneLinkPerUser`). Not only poison is dead-lettered: any database error that
`_is_transient` does not know is rejected at its first attempt (`DeadHasCause`; finding 5 is one way
to such an error). A projection that raises rolls back those of the same event that succeeded, while
docs/architecture/ARCHITECTURE_DECISION_RECORDS.md:100 says the failure of one does not block the
others (`Fail`). An identity event-users fails for in every cycle ends each cycle at the same
booking: `EventuallyResolved` assumes there is none (`Broken = {}`).

Three more statements of the repository are narrower than they read. A subscriber consumes before
`_ensure_dead_letter_topology` has run, so a poison message of the very first start, or of one that
failed, can be dropped, while consumer.py:105 says there is no start-up-order dependency;
`LostOnlyBeforeFirstStart` states, and the proof shows, that this is the only window. The prefetch
of 10 is per subscriber: ten queues allow 100 handlers, more than the 30 connections the comment in
config.py:30 protects; `EveryMessageSettles` shows that they wait and requeue, and still end.
4c0ec66f1c56 makes links unique by participant without removing the rows of a participant with two
roles: from such a database `alembic upgrade head`, and with it every start, fails
(`HeadReachable` names it as its exception).

The race of `get_or_none` with the first lifecycle event (`raced`) is real, but `RaceIsBenign`
shows what it cannot touch: existence, status, and `last_seen_at` but upwards.

## The proofs

`RabbitConsumerProofs`, for any messages, keys, handlers, prefetch, attempts and faults (from
`ConsumerAssumption`): `IInv` is inductive. The properties are not inductive alone. `UniqueRows`
needs that two open transactions that inserted never conflict, with each other or with a stored row
(`HoldersApart`): this is what waiting in `Insert` gives. `AckedIsStored` and `DeadHasCause` need
the reason a task is at its place (`TaskJustified`), and that an answer can settle only the delivery
it belongs to (`LiveOwns`). `DeadLetteredForACause` adds that the cause is either the message's own,
or an error in `unclassed`. `ImplementsExactlyOnce` maps each step: `Commit` and `CommitUnconfirmed`
to `Store`, a live `Ack` to `Settle`, `UnclassedError` to `Fail`, a live `Reject` to `DeadLetter`,
all else to a stutter.

`BookingTablesProofs` has the lemmas about the operators of `BookingTables` that the next two
modules share: what an upsert, a client update and an insert into the history yield
(`UpsertedTyped`, `ClientUpdatedTyped`, `HistoryTyped`, `IngestedTyped`, `ExistsTyped`), that a row
only moves forward (`RowMovesForward`), and that whether a projection raises does not depend on
whether the booking was found (`RaisesEitherWay`).

`IngestTransactionProofs`, for any events (from `EventsAssumption`, `RoutingAssumption`,
`TransactionAssumption`): `HistoryIsSerial`, `BookingIsSerial` and `RaceIsBenign` follow from three
facts of each transaction: it has the lock from its upsert to its end (`LockIsHeld`); the holder's
work is what its statements make of the table as committed now, since nobody else can have changed
it (`WorkIsCurrent`); who goes without the lock has found the booking, and comes from another queue
(`UpsertIsJustified`). A commit of the holder is therefore `Ingested` of the committed table, as it
is of `serial`, and `NoLostUpdate` is then `RowMovesForward`: it is the same three facts that keep
a transaction from writing back an older row. `ImplementsAtomicIngest` maps `Commit` to `Ingest`,
with `found` as the transaction read it, the `Rollback` of a transaction that raises or meets an
`UnclassedError` to `Reject`, and all else to a
stutter; it needs that a transaction that has come to its commit has no projection that raises
(`CommitsAreClean`).

`ReadModelProofs`, for any events, any lives and every arrival order (from `EventsAssumption`,
`RoutingAssumption`, `LivesAssumption`): all of `ReadModel`'s properties. `IInv` is their
conjunction with `WellFormed`, since they lean on each other.
- The properties speak of the first or last of a set of events in a log that grows at its end, so
  `LastOfAppend`, `FirstOfAppend` and `PlacesOfAppend` carry all of them: after an event has
  arrived, the last of a set is that event if it is in the set, and otherwise what it was.
  `LastWriterWins`, `HalvesKept` and `LinksUnique` are then a case per statement. In
  `LastWriterWins` the set itself grows (the booking's first event writes it, from whatever queue,
  and so does one that looked too early), but only by the event that arrives.
- `LinksUnique` also needs that a deletion that sees a link's last update sees the insertion of its
  row (`RowsOutliveUpdates`): then "began after the last creation" implies that the row is found.
- `CompleteTables` is where the order of the handlers enters: a status has its row in the history
  because the e-mail row has been written before it in the same transaction, whether or not the
  e-mail had been reported sent.
- `ReadByReceipt` goes by the last event: a new message is unread, and no snapshot has it yet, as
  snapshots are of what had arrived (`TypeOK`); a receipt marks what its own has and it covers.
- `HistoryListsChanges` needs `HistoryIsSorted`: assignments that arrive in order leave entries
  sorted by `effective_from`, so `MostRecent`, which the insert compares with, is the last entry
  (`SortedHistory`), and adjacent entries by time are adjacent in the sequence. `EntriesAreAssignments`
  links both sides: every entry is an assignment that has arrived, hence is not later than the next.
- `ImplementsAtomicIngest` maps `Ingest` to `Ingest` with the same `found`, `Fail` to `Reject` and
  `Look` to a stutter; it needs only the types, among them that an event is not in the log twice.

`UserIdBackfillProofs`, for any bookings, events, identities, batch and faults (from
`BackfillAssumption`): `OnlyNamedParticipants` is inductive only with what lies between reading and
writing. The cycle asks about an address that an event of that very booking gives in that role
(`AskedAboutSlot`), a cached answer is event-users' (`CacheIsTrue`), and what is written and not
committed is on a row that is locked and whose column is still NULL (`WorkIsLocked`; `HeldIsMatched`
for `user.synced`). Events are only added and users only learnt, so a participant stays one
(`NamesKept`, `ListsKept`). `NeverOverwritten` follows: a commit writes only such rows
(`WritesOnlyNull`), whatever happened since the candidates were selected. Since a row is locked by
one transaction, the two `UPDATE`s cannot both find the same column NULL. `ImplementsResolvedIds`
maps `Ingest`, `Learn`, `CommitSynced` and `Commit` to `Ingest`, `Learn`, `Sync` and `Backfill`, and
all else, the locks, questions, rollbacks and deadlocks, to a stutter. Besides `IInv` it needs that
what the cycle still looks at or has written lies in at most `Batch` bookings (`WithinBatch`). The
candidates are those with fewer than `Batch` incomplete bookings before them; `CandidatesBounded`
counts them by sending each to the number of those before it, an injection into `0..(Batch - 1)`.

`ServiceProofs`, for any messages, queues, bookings, windows, pool size, attempts and faults (from
`PoolAssumption`): `NoHoldAndWait`, `SomeoneGoesOn`, `ClosedLast`, `LostOnlyBeforeFirstStart` and
`SettledForGood`. A row's holder is connected because it locks with the connection it has and a
session gives both back at once (`TaskHolders`, `CycleHolders` state this of one step).
`SomeoneGoesOn`, that the pool and the rows come to no standstill PostgreSQL would not see
(`NoDeadlock`), goes by contradiction: if all with a connection were blocked, each would wait for a
row, as who waits for the pool has none; the row's holder is connected again (`NoHoldAndWait`),
hence blocked in its turn. At most `PoolLimit` have connections (`PoolFits`), and among finitely
many each of whom points to another there is a circle: one of row waits alone. `ClosedLast` needs
what the shutdown has already done at each phase (`Drains`): the cycle runs only while the process
serves or stops, and while it drains only the queues still `left` are consumed.
`LostOnlyBeforeFirstStart` needs that the topology only grows (`TopologyStays`): during a
declaration, the queues no longer `left` have their DLQ, so a start that comes through has them all.
`SettledForGood`, that nothing settled is settled or requeued again, needs that a message is
unacknowledged exactly while a task runs for it (`DeliveriesRun`), through crashes, cancelled
handlers and exhausted attempts; it also says that no slot of a window leaks.

`MigrationsProofs`, from `HistoryAssumption` alone, whatever the revisions are: `TypeCorrect`, that
no constraint stands over rows that contradict it and no revision without its parents. Each
operation keeps schema and rows `Consistent` (`ApplyKeeps`: an addition that rows contradict is
blocked, and a drop takes with it the rows it leaves without a table or column), hence so does a
whole command (`RunKeeps`). Induction over the operations being out of reach, `RunKeeps` takes the
least operation after which they would not be consistent, and contradicts it; `FlattenTyped` goes
the same way.

Only model-checked are: the liveness properties (`EveryMessageSettles` twice,
`EveryTransactionEnds`, `EventuallyResolved`, `StopEnds`), which are outside the prover's reach; and
`NothingBroken`, `SchemaOfItsRevisions`, `HeadReachable` and `HeadServesTheCode` of `Migrations`,
which hold by what these 21 revisions do one after the other. Their history is finite and TLC
searches all of it, so there is no larger instance to prove them for. Every other safety property
that a passing run checks is proved. `Metrics` only has a refuted property.

## Not modelled

`user.synced` compares addresses regardless of case (`lower`, booking_repository.py:26), the cycle
does not: addresses are identities here, and no property turns on their spelling. The parsing of single
payload fields, replaced by the value it yields; the action of a video row,
wording, logs, traces and the duration histogram, which no operation reads back. `Metrics` counts
without the labels.
Column types, defaults and check constraints of the schema. The blacklist and admin tables have no
writer here: `Migrations` creates and drops them. `user.synced` with an unknown role updates
nothing and is left out. `Service` leaves out the loss of the broker's connection (`RabbitConsumer`
has it) and what a transaction writes (`IngestTransaction`). FastStream, aio-pika, SQLAlchemy,
alembic, uvicorn, RabbitMQ and PostgreSQL are modelled as the code relies on them and marked
external in the map.

## Plan

1. Done: `RabbitConsumer` with `ExactlyOnce`; `BookingTables` with `ReadModel` and
   `IngestTransaction`, which implements `AtomicIngest`; `UserIdBackfill`; `ConnectionPool` and
   `Service`; `Migrations`; `Metrics`; the proofs above.
2. Done: the proofs of `UserIdBackfill`, of `ReadModel`, of `NoLostUpdate`, that `ReadModel`'s
   transactions implement `AtomicIngest`, that `UserIdBackfill` implements `ResolvedIds`, and of
   `TypeOK` of `Migrations`.
3. Next: shorter proofs where lemmas of `ReadModelProofs` and `IngestTransactionProofs` overlap.
