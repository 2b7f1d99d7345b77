----------------------- MODULE IngestTransactionProofs -----------------------
(***************************************************************************)
(* For any set of events, contents and number of transient errors, the      *)
(* concurrent transactions leave the tables a serial ingestion would leave. *)
(***************************************************************************)
EXTENDS IngestTransaction, BookingTablesProofs

-----------------------------------------------------------------------------
(* Types. *)

LEMMA BegunTyped ==
  ASSUME NEW pc \in Pcs
  PROVE  /\ Empty \in Tables
         /\ Begun \in [pc : Pcs, found : BOOLEAN, work : Tables]
         /\ [Begun EXCEPT !.pc = pc] \in [pc : Pcs, found : BOOLEAN, work : Tables]
<1>1. Empty \in Tables
  BY DEF Empty, Tables
<1>2. Begun \in [pc : Pcs, found : BOOLEAN, work : Tables]
  BY <1>1 DEF Begun, Pcs
<1>3. [Begun EXCEPT !.pc = pc] \in [pc : Pcs, found : BOOLEAN, work : Tables]
  BY <1>2
<1>. QED BY <1>1, <1>2, <1>3

LEMMA InitTyped == Init => TypeOK
<1>. SUFFICES ASSUME Init PROVE TypeOK
  OBVIOUS
<1>1. /\ Empty \in Tables
      /\ Begun \in [pc : Pcs, found : BOOLEAN, work : Tables]
  BY BegunTyped DEF Pcs
<1>2. faults \in 0..MaxFaults
  BY TransactionAssumption DEF Init
<1>. QED BY <1>1, <1>2 DEF Init, TypeOK

LEMMA GotoTyped ==
  ASSUME TypeOK, NEW e \in Events, NEW pc \in Pcs, Goto(e, pc)
  PROVE  tx' \in [Events -> [pc : Pcs, found : BOOLEAN, work : Tables]]
BY DEF TypeOK, Goto

LEMMA RollbackTyped ==
  ASSUME TypeOK, NEW e \in Events, NEW pc \in Pcs, Rollback(e, pc)
  PROVE  /\ tx' \in [Events -> [pc : Pcs, found : BOOLEAN, work : Tables]]
         /\ lock' \in Events \union {Null}
         /\ raced' \subseteq Events
         /\ UNCHANGED <<table, serial>>
BY BegunTyped DEF TypeOK, Rollback

(* Every step of a transaction keeps the types. *)
LEMMA TypeStep ==
  ASSUME TypeOK, NEW e \in Events, Disciplined(e), Step(e) \/ TransientError(e) \/ UnclassedError(e)
  PROVE  TypeOK'
<1>. DEFINE txs == [Events -> [pc : Pcs, found : BOOLEAN, work : Tables]]
<1>1. CASE InsertEvent(e)
  BY <1>1, GotoTyped DEF InsertEvent, TypeOK, Pcs
<1>2. CASE FindBooking(e)
  <2>1. table.booking.exists \in BOOLEAN
    BY ExistsTyped DEF TypeOK
  <2>2. tx' \in txs
    BY <1>2, <2>1 DEF FindBooking, TypeOK, Pcs
  <2>. QED BY <1>2, <2>2 DEF FindBooking, TypeOK
<1>3. CASE UpsertBooking(e)
  <2>1. [table EXCEPT !.booking = Upserted(@, e)] \in Tables
    BY UpsertedTyped DEF TypeOK, Tables
  <2>2. AfterUpsert(e) \in Pcs
    BY DEF AfterUpsert, Pcs
  <2>3. tx' \in txs
    BY <1>3, <2>1, <2>2 DEF UpsertBooking, TypeOK
  <2>4. lock' \in Events \union {Null} /\ raced' \subseteq Events
    BY <1>3 DEF UpsertBooking, TypeOK
  <2>. QED BY <1>3, <2>3, <2>4 DEF UpsertBooking, TypeOK
<1>4. CASE SaveOrganizerHistory(e)
  <2>1. HistoryAfter(table.history, e) \in Seq(Entries)
    BY HistoryTyped DEF TypeOK, Tables
  <2>2. tx' \in txs
    BY <1>4, <2>1 DEF SaveOrganizerHistory, TypeOK, Pcs, Tables
  <2>. QED BY <1>4, <2>2 DEF SaveOrganizerHistory, TypeOK
<1>5. CASE UpdateClient(e)
  <2>1. lock = e /\ tx[e].pc = "client"
    BY <1>5 DEF UpdateClient, At, Disciplined, LockIsHeld
  <2>2. tx[e].work.booking = Upserted(table.booking, e)
    BY <2>1 DEF Disciplined, WorkIsCurrent
  <2>3. ClientUpdated(tx[e].work.booking, e) \in BookingRows
    BY <2>2, UpsertedTyped, ClientUpdatedTyped DEF TypeOK, Tables
  <2>4. tx' \in txs
    BY <1>5, <2>3 DEF UpdateClient, TypeOK, Pcs, Tables
  <2>. QED BY <1>5, <2>4 DEF UpdateClient, TypeOK
<1>6. CASE ExecuteProjections(e)
  <2>1. CASE Goto(e, "commit") /\ UNCHANGED <<table, lock, serial, raced>>
    BY <1>6, <2>1, GotoTyped DEF ExecuteProjections, TypeOK, Pcs
  <2>2. CASE Rollback(e, "rejected")
    BY <1>6, <2>2, RollbackTyped DEF ExecuteProjections, TypeOK, Pcs
  <2>. QED BY <1>6, <2>1, <2>2 DEF ExecuteProjections
<1>7. CASE Commit(e)
  <2>1. table' \in Tables
    BY <1>7 DEF Commit, TypeOK
  <2>2. serial' \in Tables
    BY <1>7, IngestedTyped DEF Commit, TypeOK
  <2>3. [Begun EXCEPT !.pc = "done"] \in [pc : Pcs, found : BOOLEAN, work : Tables]
    BY BegunTyped DEF Pcs
  <2>4. tx' \in txs
    BY <1>7, <2>3 DEF Commit, TypeOK
  <2>5. lock' \in Events \union {Null}
    BY <1>7 DEF Commit, TypeOK
  <2>. QED BY <1>7, <2>1, <2>2, <2>4, <2>5 DEF Commit, TypeOK
<1>8. CASE TransientError(e)
  <2>1. faults' \in 0..MaxFaults
    BY <1>8, TransactionAssumption DEF TransientError, TypeOK
  <2>. QED BY <1>8, <2>1, RollbackTyped DEF TransientError, TypeOK, Pcs
<1>9. CASE UnclassedError(e)
  <2>1. faults' \in 0..MaxFaults
    BY <1>9, TransactionAssumption DEF UnclassedError, TypeOK
  <2>. QED BY <1>9, <2>1, RollbackTyped DEF UnclassedError, TypeOK, Pcs
<1>. QED BY <1>1, <1>2, <1>3, <1>4, <1>5, <1>6, <1>7, <1>8, <1>9 DEF Step

-----------------------------------------------------------------------------
(* The discipline. *)

(* A step of one transaction that leaves the table alone and the lock to whom *)
(* it may concern disturbs no other transaction.                              *)
LEMMA OthersKeep ==
  ASSUME IInv, NEW e \in Events, UNCHANGED table,
         NEW f \in Events \ {e}, tx'[f] = tx[f],
         lock' = f <=> lock = f, f \in raced' <=> f \in raced
  PROVE  Disciplined(f)'
BY DEF IInv, Disciplined, LockIsHeld, WorkIsCurrent, UpsertIsJustified

(* A step that commits nothing keeps the correspondence to the serial order.  *)
LEMMA SerialKept ==
  ASSUME IInv, NEW e \in Events, UNCHANGED <<table, serial>>,
         tx[e].pc # "done", tx'[e].pc # "done",
         \A f \in Events \ {e} : tx'[f] = tx[f] /\ (f \in raced' <=> f \in raced)
  PROVE  SameExistence' /\ HistoryIsSerial' /\ BookingIsSerial' /\ RaceIsBenign'
<1>1. Committed' = Committed
  BY DEF Committed
<1>2. e \notin Committed
  BY DEF Committed
<1>3. raced' \intersect Committed' = raced \intersect Committed
  BY <1>1, <1>2 DEF Committed
<1>. QED BY <1>1, <1>3 DEF IInv, SameExistence, HistoryIsSerial, BookingIsSerial, RaceIsBenign

(* Rolling back gives up the lock, the work and the mark of the race. *)
LEMMA RollbackKeeps ==
  ASSUME IInv, NEW e \in Events, NEW pc \in {"begin", "rejected"}, Rollback(e, pc),
         tx[e].pc # "done", TypeOK'
  PROVE  IInv'
<1>1. /\ tx' = [tx EXCEPT ![e] = [Begun EXCEPT !.pc = pc]]
      /\ lock' = IF lock = e THEN Null ELSE lock
      /\ raced' = raced \ {e}
      /\ UNCHANGED <<table, serial>>
  BY DEF Rollback
<1>2. tx'[e].pc = pc /\ ~tx'[e].found
  BY <1>1 DEF IInv, TypeOK, Begun
<1>3. lock' # e
  BY <1>1, EventsAssumption
<1>4. ASSUME NEW f \in Events \ {e}
      PROVE  /\ tx'[f] = tx[f]
             /\ lock' = f <=> lock = f
             /\ f \in raced' <=> f \in raced
  BY <1>1, EventsAssumption DEF IInv, TypeOK
<1>5. Disciplined(e)'
  BY <1>2, <1>3 DEF Disciplined, LockIsHeld, WorkIsCurrent, UpsertIsJustified
<1>6. \A f \in Events : Disciplined(f)'
  BY <1>1, <1>4, <1>5, OthersKeep
<1>7. SameExistence' /\ HistoryIsSerial' /\ BookingIsSerial' /\ RaceIsBenign'
  BY <1>1, <1>2, <1>4, SerialKept
<1>. QED BY <1>6, <1>7 DEF IInv

(* A statement that commits nothing and takes no lock but its own. *)
LEMMA StatementKeeps ==
  ASSUME IInv, NEW e \in Events, TypeOK',
         InsertEvent(e) \/ FindBooking(e) \/ UpsertBooking(e)
           \/ SaveOrganizerHistory(e) \/ UpdateClient(e)
  PROVE  IInv'
<1>1. Disciplined(e) /\ TypeOK
  BY DEF IInv
<1>2. /\ UNCHANGED <<table, serial>>
      /\ tx[e].pc # "done" /\ tx'[e].pc # "done"
  BY <1>1 DEF InsertEvent, FindBooking, UpsertBooking, SaveOrganizerHistory,
              UpdateClient, AfterUpsert, At, Goto, TypeOK
<1>3. ASSUME NEW f \in Events \ {e}
      PROVE  /\ tx'[f] = tx[f]
             /\ lock' = f <=> lock = f
             /\ f \in raced' <=> f \in raced
  BY <1>1, EventsAssumption
     DEF InsertEvent, FindBooking, UpsertBooking, SaveOrganizerHistory, UpdateClient,
         Goto, TypeOK
<1>4. Disciplined(e)'
  <2>1. CASE InsertEvent(e)
    BY <1>1, <2>1 DEF InsertEvent, At, Goto, TypeOK, Disciplined, LockIsHeld,
                      WorkIsCurrent, UpsertIsJustified
  <2>2. CASE FindBooking(e)
    <3>1. tx'[e].found = table.booking.exists /\ lock # e /\ Ev[e].booking
      BY <1>1, <2>2 DEF FindBooking, At, TypeOK, Disciplined, LockIsHeld
    <3>2. tx'[e].pc = IF Upserts(e, table.booking.exists) THEN "upsert" ELSE "project"
      BY <1>1, <2>2 DEF FindBooking, TypeOK
    <3>. QED BY <1>1, <1>2, <2>2, <3>1, <3>2
             DEF FindBooking, Upserts, Disciplined, LockIsHeld, WorkIsCurrent, UpsertIsJustified
  <2>3. CASE UpsertBooking(e)
    <3>1. /\ lock' = e /\ Ev[e].booking
          /\ tx'[e].pc = AfterUpsert(e)
          /\ tx'[e].found = tx[e].found
          /\ tx'[e].work.booking = Upserted(table.booking, e)
          /\ tx'[e].work.history = table.history
      BY <1>1, <2>3 DEF UpsertBooking, At, TypeOK, Tables, Disciplined, LockIsHeld
    <3>2. AfterUpsert(e) = "history" => RecordsOrganizer(e)
      BY DEF AfterUpsert
    <3>3. AfterUpsert(e) = "client" => ReassignsClient(e)
      BY DEF AfterUpsert
    <3>4. AfterUpsert(e) = "project" => ~RecordsOrganizer(e) /\ ~ReassignsClient(e)
      BY DEF AfterUpsert
    <3>5. AfterUpsert(e) \in {"history", "client", "project"}
      BY DEF AfterUpsert
    <3>6. LockIsHeld(e)'
      BY <3>1, <3>2, <3>3, <3>5 DEF LockIsHeld
    <3>7. WorkIsCurrent(e)'
      BY <1>2, <3>1, <3>4, <3>5 DEF WorkIsCurrent, ClientUpdated
    <3>8. UpsertIsJustified(e)'
      BY <1>1, <1>2, <2>3, <3>1 DEF UpsertBooking, Disciplined, UpsertIsJustified
    <3>. QED BY <3>6, <3>7, <3>8 DEF Disciplined
  <2>4. CASE SaveOrganizerHistory(e)
    <3>1. lock = e /\ RecordsOrganizer(e) /\ ~ReassignsClient(e)
      BY <1>1, <2>4 DEF SaveOrganizerHistory, At, Disciplined, LockIsHeld,
                        RecordsOrganizer, ReassignsClient
    <3>2. /\ tx'[e].pc = "project" /\ tx'[e].found = tx[e].found
          /\ tx'[e].work.booking = tx[e].work.booking
          /\ tx'[e].work.history = HistoryAfter(table.history, e)
      BY <1>1, <2>4 DEF SaveOrganizerHistory, TypeOK, Tables
    <3>. QED BY <1>1, <1>2, <2>4, <3>1, <3>2
             DEF SaveOrganizerHistory, At, Disciplined, LockIsHeld, WorkIsCurrent,
                 UpsertIsJustified, ClientUpdated
  <2>5. CASE UpdateClient(e)
    <3>1. lock = e /\ ReassignsClient(e) /\ ~RecordsOrganizer(e)
      BY <1>1, <2>5 DEF UpdateClient, At, Disciplined, LockIsHeld,
                        RecordsOrganizer, ReassignsClient
    <3>2. /\ tx'[e].pc = "project" /\ tx'[e].found = tx[e].found
          /\ tx'[e].work.booking = ClientUpdated(tx[e].work.booking, e)
          /\ tx'[e].work.history = tx[e].work.history
      BY <1>1, <2>5 DEF UpdateClient, TypeOK, Tables
    <3>. QED BY <1>1, <1>2, <2>5, <3>1, <3>2
             DEF UpdateClient, At, Disciplined, LockIsHeld, WorkIsCurrent, UpsertIsJustified
  <2>. QED BY <2>1, <2>2, <2>3, <2>4, <2>5
<1>5. \A f \in Events : Disciplined(f)'
  BY <1>2, <1>3, <1>4, OthersKeep
<1>6. SameExistence' /\ HistoryIsSerial' /\ BookingIsSerial' /\ RaceIsBenign'
  BY <1>2, <1>3, SerialKept
<1>. QED BY <1>5, <1>6 DEF IInv

(* Running the projections, or failing in one. *)
LEMMA ProjectionsKeep ==
  ASSUME IInv, NEW e \in Events, TypeOK', ExecuteProjections(e)
  PROVE  IInv'
<1>1. Disciplined(e) /\ TypeOK /\ tx[e].pc = "project"
  BY DEF IInv, ExecuteProjections, At
<1>2. CASE Rollback(e, "rejected")
  BY <1>1, <1>2, RollbackKeeps
<1>3. CASE Goto(e, "commit") /\ UNCHANGED <<table, lock, serial, raced>>
  <2>1. tx'[e].pc = "commit" /\ tx'[e].found = tx[e].found /\ tx'[e].work = tx[e].work
    BY <1>1, <1>3 DEF Goto, TypeOK
  <2>2. \A f \in Events \ {e} : tx'[f] = tx[f]
    BY <1>1, <1>3 DEF Goto, TypeOK
  <2>3. Disciplined(e)'
    BY <1>1, <1>3, <2>1 DEF Disciplined, LockIsHeld, WorkIsCurrent, UpsertIsJustified
  <2>4. \A f \in Events : Disciplined(f)'
    BY <1>3, <2>2, <2>3, OthersKeep
  <2>5. SameExistence' /\ HistoryIsSerial' /\ BookingIsSerial' /\ RaceIsBenign'
    BY <1>1, <1>3, <2>1, <2>2, SerialKept
  <2>. QED BY <2>4, <2>5 DEF IInv
<1>. QED BY <1>2, <1>3 DEF ExecuteProjections

-----------------------------------------------------------------------------
(* The commit: the one step that changes the table. *)

(* What an upserting transaction commits is what ingesting its event into the *)
(* table as it is would leave.                                                *)
LEMMA HolderCommitsIngested ==
  ASSUME TypeOK, NEW e \in Events, Disciplined(e), Commit(e), lock = e
  PROVE  /\ table'.booking = ClientUpdated(Upserted(table.booking, e), e)
         /\ table'.booking \in BookingRows
         /\ table'.history = IF RecordsOrganizer(e) THEN HistoryAfter(table.history, e)
                             ELSE table.history
<1>1. tx[e].pc = "commit" /\ table' = tx[e].work
  BY DEF Commit, At
<1>2. table'.booking = ClientUpdated(Upserted(table.booking, e), e)
  BY <1>1 DEF Disciplined, WorkIsCurrent
<1>3. Upserted(table.booking, e) \in BookingRows
  BY UpsertedTyped DEF TypeOK, Tables
<1>. QED BY <1>1, <1>2, <1>3, ClientUpdatedTyped DEF Disciplined, WorkIsCurrent

(* The status and last_seen_at of ingesting e into two rows that agree on the *)
(* first and are ordered in the second agree and are ordered.                 *)
LEMMA IngestMonotone ==
  ASSUME NEW e \in Events, NEW a \in BookingRows, NEW b \in BookingRows,
         a.status = b.status, a.lastSeen >= b.lastSeen
  PROVE  LET A == ClientUpdated(Upserted(a, e), e)
             B == ClientUpdated(Upserted(b, e), e)
         IN  A.status = B.status /\ A.lastSeen >= B.lastSeen
<1>1. /\ Upserted(a, e) \in BookingRows /\ Upserted(b, e) \in BookingRows
  BY UpsertedTyped
<1>2. a.exists /\ b.exists
  BY DEF BookingRows
<1>3. /\ Upserted(a, e).status = Coalesce(StatusOf(Ev[e].type), a.status)
      /\ Upserted(b, e).status = Coalesce(StatusOf(Ev[e].type), b.status)
      /\ Upserted(a, e).lastSeen = Later(a.lastSeen, Ev[e].at)
      /\ Upserted(b, e).lastSeen = Later(b.lastSeen, Ev[e].at)
  BY <1>2 DEF Upserted, BookingRows
<1>4. Later(a.lastSeen, Ev[e].at) >= Later(b.lastSeen, Ev[e].at)
  BY EventsAssumption DEF Later, BookingRows
<1>. QED BY <1>1, <1>3, <1>4, ClientUpdatedTyped

LEMMA CommitKeeps ==
  ASSUME IInv, NEW e \in Events, TypeOK', Commit(e)
  PROVE  IInv'
<1>1. /\ TypeOK /\ Disciplined(e) /\ tx[e].pc = "commit"
      /\ table \in Tables /\ serial \in Tables
      /\ table' \in Tables /\ serial' \in Tables
  BY DEF IInv, Commit, At, TypeOK
<1>2. /\ tx'[e].pc = "done" /\ ~tx'[e].found
      /\ \A f \in Events \ {e} : tx'[f] = tx[f]
  BY <1>1 DEF Commit, TypeOK, Begun
<1>3. lock' # e /\ UNCHANGED raced
  BY EventsAssumption DEF Commit
<1>4. Committed' = IF Ev[e].booking THEN Committed \union {e} ELSE Committed
  BY <1>1, <1>2 DEF Committed
<1>5. /\ lock = e => Ev[e].booking
      /\ lock # e /\ Ev[e].booking =>
           table.booking.exists /\ Ev[e].queue # "lifecycle"
  BY <1>1 DEF Disciplined, LockIsHeld, UpsertIsJustified
<1>6. /\ table.booking.exists <=> table.booking \in BookingRows
      /\ serial.booking.exists <=> serial.booking \in BookingRows
      /\ table.booking.exists = serial.booking.exists
      /\ table'.booking.exists \in BOOLEAN /\ serial'.booking.exists \in BOOLEAN
      /\ table'.booking.exists <=> table'.booking \in BookingRows
      /\ serial'.booking.exists <=> serial'.booking \in BookingRows
  BY <1>1, ExistsTyped DEF IInv, SameExistence
<1>7. \A f \in Events : Disciplined(f)'
  <2>1. Disciplined(e)'
    BY <1>2, <1>3 DEF Disciplined, LockIsHeld, WorkIsCurrent, UpsertIsJustified
  <2>2. CASE lock # e
    <3>1. UNCHANGED <<table, lock>>
      BY <2>2 DEF Commit
    <3>. QED BY <1>2, <1>3, <2>1, <3>1, OthersKeep
  <2>3. CASE lock = e
    <3>1. lock' = Null /\ table'.booking.exists
      BY <1>1, <1>6, <2>3, HolderCommitsIngested DEF Commit
    <3>2. ASSUME NEW f \in Events \ {e} PROVE Disciplined(f)'
      BY <1>2, <2>3, <3>1, EventsAssumption
         DEF IInv, Disciplined, LockIsHeld, WorkIsCurrent, UpsertIsJustified
    <3>. QED BY <2>1, <3>2
  <2>. QED BY <2>2, <2>3
<1>8. CASE ~Ev[e].booking
  <2>1. UNCHANGED <<table, serial>> /\ Committed' = Committed
    BY <1>4, <1>5, <1>8 DEF Commit
  <2>. QED BY <1>3, <1>7, <2>1
           DEF IInv, SameExistence, HistoryIsSerial, BookingIsSerial, RaceIsBenign
<1>9. CASE Ev[e].booking /\ lock # e
  <2>1. UNCHANGED <<table, serial>>
    <3>1. ~Upserts(e, serial.booking.exists)
      BY <1>5, <1>6, <1>9 DEF Upserts
    <3>. QED BY <1>9, <3>1 DEF Commit, Ingested
  <2>2. Committed' = Committed \union {e}
    BY <1>4, <1>9
  <2>3. table.booking.exists
    BY <1>5, <1>9
  <2>. QED BY <1>3, <1>7, <2>1, <2>2, <2>3
           DEF IInv, SameExistence, HistoryIsSerial, BookingIsSerial, RaceIsBenign
<1>10. CASE lock = e
  <2>1. /\ table'.booking = ClientUpdated(Upserted(table.booking, e), e)
        /\ table'.booking \in BookingRows
        /\ table'.history = IF RecordsOrganizer(e) THEN HistoryAfter(table.history, e)
                            ELSE table.history
    BY <1>1, <1>10, HolderCommitsIngested
  <2>2. Ev[e].booking /\ serial' = Ingested(serial, e, serial.booking.exists)
    BY <1>5, <1>10 DEF Commit
  <2>3. serial'.booking \in BookingRows
    BY <1>1, <2>2, IngestedTyped
  <2>4. SameExistence'
    <3>1. table'.booking.exists = TRUE /\ serial'.booking.exists = TRUE
      BY <2>1, <2>3 DEF BookingRows
    <3>. QED BY <3>1 DEF SameExistence
  <2>5. HistoryIsSerial'
    <3>1. table.history = serial.history
      BY DEF IInv, HistoryIsSerial
    <3>2. CASE Upserts(e, serial.booking.exists)
      BY <2>1, <2>2, <3>1, <3>2 DEF Ingested, HistoryIsSerial
    <3>3. CASE ~Upserts(e, serial.booking.exists)
      BY <2>1, <2>2, <3>1, <3>3, RoutingAssumption DEF Ingested, Upserts, HistoryIsSerial
    <3>. QED BY <3>2, <3>3
  <2>6. BookingIsSerial'
    <3>. SUFFICES ASSUME raced' \intersect Committed' = {}
                  PROVE  table'.booking = serial'.booking
      BY DEF BookingIsSerial
    <3>1. e \notin raced /\ raced \intersect Committed = {}
      BY <1>3, <1>4, <2>2
    <3>2. table.booking = serial.booking
      BY <3>1 DEF IInv, BookingIsSerial
    <3>3. Ev[e].queue # "lifecycle" => ~table.booking.exists
      BY <1>1, <1>10, <3>1 DEF Disciplined, UpsertIsJustified
    <3>4. Upserts(e, serial.booking.exists)
      BY <1>6, <3>3 DEF Upserts
    <3>. QED BY <2>1, <2>2, <3>2, <3>4 DEF Ingested
  <2>7. /\ table'.booking.status = serial'.booking.status
        /\ table'.booking.lastSeen >= serial'.booking.lastSeen
    <3>1. CASE ~table.booking.exists
      <4>1. table.booking = serial.booking
        BY <1>1, <1>6, <3>1 DEF Tables
      <4>2. Upserts(e, serial.booking.exists)
        BY <1>6, <3>1 DEF Upserts
      <4>3. table'.booking = serial'.booking
        BY <2>1, <2>2, <4>1, <4>2 DEF Ingested
      <4>4. serial'.booking.lastSeen \in Nat
        BY <2>3 DEF BookingRows
      <4>. QED BY <4>3, <4>4
    <3>2. CASE table.booking.exists
      <4>1. /\ table.booking \in BookingRows /\ serial.booking \in BookingRows
            /\ table.booking.status = serial.booking.status
            /\ table.booking.lastSeen >= serial.booking.lastSeen
        BY <1>6, <3>2 DEF IInv, RaceIsBenign
      <4>2. CASE Upserts(e, serial.booking.exists)
        BY <2>1, <2>2, <4>1, <4>2, IngestMonotone DEF Ingested
      <4>3. CASE ~Upserts(e, serial.booking.exists)
        <5>1. StatusOf(Ev[e].type) = Null
          BY <4>3, RoutingAssumption DEF Upserts
        <5>2. /\ Upserted(table.booking, e) \in BookingRows
              /\ Upserted(table.booking, e).lastSeen >= table.booking.lastSeen
          BY <3>2, <4>1, UpsertedTyped
        <5>3. Upserted(table.booking, e).status = table.booking.status
          BY <3>2, <4>1, <5>1 DEF Upserted, Coalesce, BookingRows
        <5>4. serial'.booking = serial.booking
          BY <2>2, <4>3 DEF Ingested
        <5>5. /\ table'.booking.status = table.booking.status
              /\ table'.booking.lastSeen >= table.booking.lastSeen
          BY <2>1, <5>2, <5>3, ClientUpdatedTyped
        <5>6. /\ table.booking.lastSeen \in Nat /\ serial.booking.lastSeen \in Nat
              /\ table'.booking.lastSeen \in Nat
          BY <2>1, <4>1 DEF BookingRows
        <5>. QED BY <4>1, <5>4, <5>5, <5>6
      <4>. QED BY <4>2, <4>3
    <3>. QED BY <3>1, <3>2
  <2>8. table'.booking.exists /\ e \in Committed'
    BY <1>4, <1>6, <2>1, <2>2
  <2>9. RaceIsBenign'
    BY <2>7, <2>8 DEF RaceIsBenign
  <2>. QED BY <1>7, <2>4, <2>5, <2>6, <2>9 DEF IInv
<1>. QED BY <1>8, <1>9, <1>10

-----------------------------------------------------------------------------
(* The theorems. *)

LEMMA InitInv == Init => IInv
<1>. SUFFICES ASSUME Init PROVE IInv
  OBVIOUS
<1>1. TypeOK
  BY InitTyped
<1>2. \A e \in Events : tx[e].pc = "begin" /\ ~tx[e].found /\ lock # e
  BY EventsAssumption DEF Init, Begun
<1>3. \A e \in Events : Disciplined(e)
  BY <1>2 DEF Disciplined, LockIsHeld, WorkIsCurrent, UpsertIsJustified
<1>4. ~table.booking.exists /\ table = serial
  BY DEF Init, Empty, NoRow
<1>5. Committed = {}
  BY <1>2 DEF Committed
<1>. QED BY <1>1, <1>3, <1>4, <1>5
         DEF IInv, SameExistence, HistoryIsSerial, BookingIsSerial, RaceIsBenign

(* The conjunction of the properties and of what they rest on is inductive.   *)
THEOREM InductiveInvariant == Spec => []IInv
<1>1. IInv /\ [Next]_vars => IInv'
  <2>. SUFFICES ASSUME IInv, [Next]_vars PROVE IInv'
    OBVIOUS
  <2>1. ASSUME NEW e \in Events, Step(e) \/ TransientError(e) \/ UnclassedError(e) PROVE IInv'
    <3>1. TypeOK /\ Disciplined(e)
      BY DEF IInv
    <3>2. TypeOK'
      BY <2>1, <3>1, TypeStep
    <3>3. CASE TransientError(e) \/ UnclassedError(e)
      BY <3>2, <3>3, RollbackKeeps DEF TransientError, UnclassedError
    <3>4. CASE Step(e)
      BY <3>2, <3>4, StatementKeeps, ProjectionsKeep, CommitKeeps DEF Step
    <3>. QED BY <2>1, <3>3, <3>4
  <2>2. CASE UNCHANGED vars
    BY <2>2 DEF vars, IInv, TypeOK, Disciplined, LockIsHeld, WorkIsCurrent, UpsertIsJustified,
                SameExistence, HistoryIsSerial, BookingIsSerial, RaceIsBenign, Committed
  <2>. QED BY <2>1, <2>2 DEF Next, Quiescent
<1>. QED BY <1>1, InitInv, PTL DEF Spec

(* Type correctness: the rows the statements build are rows of the table.     *)
THEOREM TypeCorrect == Spec => []TypeOK
BY InductiveInvariant, PTL DEF IInv

(* However the transactions interleave, save_organizer_history leaves the     *)
(* history of the serial order of their commits: the row lock of the upsert   *)
(* protects its read-then-insert.                                             *)
THEOREM HistorySerializable == Spec => []HistoryIsSerial
BY InductiveInvariant, PTL DEF IInv

(* The booking's row is the serial one but for the race of get_or_none, and   *)
(* that race leaves status, existence and the order of last_seen_at alone.    *)
THEOREM BookingSerializable == Spec => [](BookingIsSerial /\ RaceIsBenign)
<1>1. IInv => BookingIsSerial /\ RaceIsBenign
  BY DEF IInv
<1>. QED BY <1>1, InductiveInvariant, PTL

(* The race of get_or_none touches neither the booking's existence nor its    *)
(* status, and moves last_seen_at only forward.                               *)
THEOREM RaceHarmless == Spec => []RaceIsBenign
BY BookingSerializable, PTL

(* No commit takes back what another transaction committed: the upsert works  *)
(* from the row as it was when the lock was granted (BookingRepository.upsert *)
(* with greatest and coalesce, update_client).                                *)
THEOREM NothingLost == Spec => NoLostUpdate
<1>1. ASSUME IInv, [Next]_vars, table.booking.exists, table' # table
      PROVE  /\ table'.booking.exists
             /\ table'.booking.lastSeen >= table.booking.lastSeen
             /\ \A c \in {"org", "cli", "status", "start"} :
                  table.booking[c] # Null => table'.booking[c] # Null
  <2>1. PICK e \in Events : Commit(e)
    BY <1>1 DEF Next, vars, Quiescent, Step, TransientError, UnclassedError, InsertEvent, FindBooking,
                UpsertBooking, SaveOrganizerHistory, UpdateClient, ExecuteProjections, Rollback
  <2>2. lock = e
    BY <1>1, <2>1 DEF Commit
  <2>3. TypeOK /\ Disciplined(e) /\ tx[e].pc = "commit"
    BY <1>1, <2>1 DEF IInv, Commit, At
  <2>4. table'.booking = ClientUpdated(Upserted(table.booking, e), e)
    BY <2>1, <2>2, <2>3 DEF Commit, Disciplined, WorkIsCurrent
  <2>5. table.booking \in BookingRows
    BY <1>1, <2>3, ExistsTyped DEF TypeOK
  <2>. QED BY <2>4, <2>5, RowMovesForward
<1>2. IInv /\ [Next]_vars =>
        [table.booking.exists =>
           /\ table'.booking.exists
           /\ table'.booking.lastSeen >= table.booking.lastSeen
           /\ \A c \in {"org", "cli", "status", "start"} :
                table.booking[c] # Null => table'.booking[c] # Null]_table
  BY <1>1
<1>. QED BY <1>2, InductiveInvariant, PTL DEF Spec, NoLostUpdate

-----------------------------------------------------------------------------
(* IngestTransaction implements AtomicIngest: the commit ingests the event,   *)
(* a projection that raises or an error that is not retried rejects it, and   *)
(* no other statement, rollback or retry is seen from outside.                *)

LEMMA CleanStep == IInv /\ CommitsAreClean /\ [Next]_vars => CommitsAreClean'
<1>. SUFFICES ASSUME IInv, CommitsAreClean, [Next]_vars PROVE CommitsAreClean'
  OBVIOUS
<1>. USE DEF CommitsAreClean, At, Raises
<1>1. CASE UNCHANGED vars
  BY <1>1 DEF vars
<1>2. ASSUME NEW e \in Events, Step(e) \/ TransientError(e) \/ UnclassedError(e) PROVE CommitsAreClean'
  <2>1. /\ TypeOK /\ Disciplined(e)
        /\ \A f \in Events \ {e} : tx'[f] = tx[f]
    BY <1>2 DEF IInv, TypeOK, Step, TransientError, UnclassedError, InsertEvent, FindBooking,
                UpsertBooking, SaveOrganizerHistory, UpdateClient, ExecuteProjections, Commit, Rollback, Goto
  <2>2. /\ tx'[e].pc = "project" => Ev[e].booking
        /\ tx'[e].pc = "commit" /\ Ev[e].booking => ~ProjectionRaises(e, tx'[e].found)
    <3>1. CASE InsertEvent(e)
      BY <2>1, <3>1 DEF InsertEvent, Goto, TypeOK
    <3>2. CASE FindBooking(e) \/ UpsertBooking(e) \/ SaveOrganizerHistory(e) \/ UpdateClient(e)
      BY <2>1, <3>2 DEF FindBooking, UpsertBooking, SaveOrganizerHistory, UpdateClient,
                        AfterUpsert, TypeOK, Disciplined, LockIsHeld
    <3>3. CASE ExecuteProjections(e)
      BY <2>1, <3>3 DEF ExecuteProjections, Goto, Rollback, Begun, TypeOK
    <3>4. CASE Commit(e) \/ TransientError(e) \/ UnclassedError(e)
      BY <2>1, <3>4 DEF Commit, TransientError, UnclassedError, Rollback, Begun, TypeOK
    <3>. QED BY <1>2, <3>1, <3>2, <3>3, <3>4 DEF Step
  <2>. QED BY <2>1, <2>2
<1>. QED BY <1>1, <1>2 DEF Next, Quiescent

(* What a commit makes of the table is what ingesting its event makes of it:  *)
(* as if the booking had not been found for the holder of the lock, and as if *)
(* it had for an event that went without.                                     *)
LEMMA CommitIngests ==
  ASSUME IInv, CommitsAreClean, TypeOK', NEW e \in Events, Commit(e), Ev[e].booking
  PROVE  \E found \in {table.booking.exists, FALSE} :
           ~ProjectionRaises(e, found) /\ table' = Ingested(table, e, found)
<1>1. /\ TypeOK /\ Disciplined(e) /\ tx[e].pc = "commit" /\ tx[e].found \in BOOLEAN
      /\ table \in Tables /\ table' \in Tables
  BY DEF IInv, TypeOK, Commit, At
<1>2. ~ProjectionRaises(e, FALSE) /\ ~ProjectionRaises(e, TRUE)
  BY <1>1, RaisesEitherWay DEF CommitsAreClean, At, Raises
<1>3. CASE lock = e
  <2>1. /\ table'.booking = ClientUpdated(Upserted(table.booking, e), e)
        /\ table'.history = IF RecordsOrganizer(e) THEN HistoryAfter(table.history, e)
                            ELSE table.history
    BY <1>1, <1>3, HolderCommitsIngested
  <2>2. table' = [booking |-> table'.booking, history |-> table'.history]
    BY <1>1 DEF Tables
  <2>3. table' = Ingested(table, e, FALSE)
    BY <2>1, <2>2 DEF Ingested, Upserts
  <2>. QED BY <1>2, <2>3
<1>4. CASE lock # e
  <2>1. table.booking.exists /\ Ev[e].queue # "lifecycle" /\ table' = table
    BY <1>1, <1>4 DEF Disciplined, UpsertIsJustified, Commit
  <2>2. table.booking.exists = TRUE
    BY <1>1, <2>1, ExistsTyped
  <2>3. table' = Ingested(table, e, TRUE)
    BY <2>1 DEF Ingested, Upserts
  <2>. QED BY <1>2, <2>2, <2>3
<1>. QED BY <1>3, <1>4

(* Concurrent ingestion is atomic. *)
THEOREM ImplementsAtomicIngest == Spec => Atomic
<1>. DEFINE Ended == [e \in Events |-> IF tx[e].pc \in {"done", "rejected"}
                                      THEN tx[e].pc ELSE "open"]
<1>1. Init => Abs!Init /\ CommitsAreClean
  BY DEF Init, Begun, Abs!Init, CommitsAreClean, At
<1>2. IInv /\ IInv' /\ CommitsAreClean /\ [Next]_vars => [Abs!Next]_(Abs!vars)
  <2>. SUFFICES ASSUME IInv, TypeOK', CommitsAreClean, [Next]_vars
                PROVE  Abs!Next \/ UNCHANGED Abs!vars
    BY DEF IInv
  <2>1. CASE UNCHANGED vars
    BY <2>1 DEF vars, Abs!vars
  <2>2. ASSUME NEW e \in Events, Step(e) \/ TransientError(e) \/ UnclassedError(e)
        PROVE  Abs!Next \/ UNCHANGED Abs!vars
    <3>1. TypeOK /\ Disciplined(e)
      BY DEF IInv
    <3>2. CASE InsertEvent(e) \/ FindBooking(e) \/ UpsertBooking(e)
                 \/ SaveOrganizerHistory(e) \/ UpdateClient(e)
      <4>1. /\ UNCHANGED table
            /\ tx[e].pc \notin {"done", "rejected"} /\ tx'[e].pc \notin {"done", "rejected"}
            /\ \A f \in Events \ {e} : tx'[f] = tx[f]
        BY <3>1, <3>2 DEF InsertEvent, FindBooking, UpsertBooking, SaveOrganizerHistory,
                          UpdateClient, AfterUpsert, At, Goto, TypeOK
      <4>. QED BY <4>1 DEF Abs!vars
    <3>3. ASSUME tx[e].pc \notin {"done", "rejected"}, Rollback(e, "begin")
          PROVE  UNCHANGED Abs!vars
      BY <3>1, <3>3 DEF Rollback, Begun, TypeOK, Abs!vars
    <3>4. ASSUME tx[e].pc \notin {"done", "rejected"}, Rollback(e, "rejected")
          PROVE  Abs!Next
      <4>1. /\ Ended[e] = "open" /\ Ended' = [Ended EXCEPT ![e] = "rejected"]
            /\ UNCHANGED table
        BY <3>1, <3>4 DEF Rollback, Begun, TypeOK
      <4>. QED BY <4>1 DEF Abs!Reject, Abs!Next
    <3>5. CASE ExecuteProjections(e)
      <4>1. CASE Goto(e, "commit") /\ UNCHANGED table
        <5>1. /\ tx[e].pc = "project" /\ tx'[e].pc = "commit"
              /\ \A f \in Events \ {e} : tx'[f] = tx[f]
          BY <3>1, <3>5, <4>1 DEF ExecuteProjections, At, Goto, TypeOK
        <5>. QED BY <4>1, <5>1 DEF Abs!vars
      <4>2. CASE Raises(e) /\ Rollback(e, "rejected")
        BY <3>1, <3>5, <3>4, <4>2 DEF ExecuteProjections, At
      <4>. QED BY <3>5, <4>1, <4>2 DEF ExecuteProjections
    <3>6. CASE Commit(e)
      <4>1. Ended[e] = "open" /\ Ended' = [Ended EXCEPT ![e] = "done"]
        BY <3>1, <3>6 DEF Commit, At, Begun, TypeOK
      <4>2. CASE Ev[e].booking
        <5>1. Abs!Ingest(e)
          BY <3>6, <4>1, <4>2, CommitIngests DEF Abs!Ingest, Abs!Answers, OnBooking
        <5>. QED BY <5>1 DEF Abs!Next
      <4>3. CASE ~Ev[e].booking
        <5>1. UNCHANGED table
          BY <3>1, <3>6, <4>3 DEF Commit, Disciplined, LockIsHeld
        <5>2. Abs!Ingest(e)
          BY <4>1, <4>3, <5>1 DEF Abs!Ingest, OnBooking
        <5>. QED BY <5>2 DEF Abs!Next
      <4>. QED BY <4>2, <4>3
    <3>7. CASE TransientError(e)
      BY <3>3, <3>7 DEF TransientError, Rollback, Begun, TypeOK, Abs!vars
    <3>8. CASE UnclassedError(e)
      BY <3>4, <3>8 DEF UnclassedError
    <3>. QED BY <2>2, <3>2, <3>5, <3>6, <3>7, <3>8 DEF Step
  <2>. QED BY <2>1, <2>2 DEF Next, Quiescent
<1>. QED BY <1>1, <1>2, CleanStep, InductiveInvariant, PTL DEF Spec, Atomic, Abs!Spec
=============================================================================
