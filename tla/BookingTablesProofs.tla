------------------------ MODULE BookingTablesProofs ------------------------
(***************************************************************************)
(* What the operators of BookingTables return, for any events: the lemmas   *)
(* on which the proofs about ReadModel and IngestTransaction rest.          *)
(***************************************************************************)
EXTENDS BookingTables, TLAPS

LEMMA UpsertedTyped ==
  ASSUME NEW row \in {NoRow} \union BookingRows, NEW e \in Events
  PROVE  /\ Upserted(row, e) \in BookingRows
         /\ row.exists => Upserted(row, e).lastSeen >= row.lastSeen
<1>1. Ev[e].at \in Nat
  BY EventsAssumption
<1>2. /\ Ev[e].start \in Column("start")
      /\ Ev[e].org \in Column("org")
      /\ Ev[e].cli \in Column("cli")
      /\ StatusOf(Ev[e].type) \in Statuses
  BY DEF Column, Statuses
<1>3. CASE ~row.exists
  BY <1>1, <1>2, <1>3 DEF Upserted, BookingRows
<1>4. CASE row.exists
  <2>1. row \in BookingRows
    BY <1>4 DEF NoRow
  <2>. DEFINE last == Later(row.lastSeen, Ev[e].at)
              start == Coalesce(Ev[e].start, row.start)
              status == Coalesce(StatusOf(Ev[e].type), row.status)
              org == Coalesce(Ev[e].org, row.org)
              cli == Coalesce(Ev[e].cli, row.cli)
  <2>2. last \in Nat /\ last >= row.lastSeen
    BY <1>1, <2>1 DEF Later, BookingRows
  <2>3. /\ start \in Column("start") /\ org \in Column("org")
        /\ cli \in Column("cli") \union Column("newCli")
        /\ status \in Statuses
    BY <1>2, <2>1 DEF Coalesce, BookingRows
  <2>4. Upserted(row, e) = [row EXCEPT !.lastSeen = last, !.start = start,
                                       !.status = status, !.org = org, !.cli = cli]
    BY <1>4, <2>1 DEF Upserted, BookingRows
  <2>. HIDE DEF last, start, status, org, cli
  <2>. QED BY <2>1, <2>2, <2>3, <2>4 DEF BookingRows
<1>. QED BY <1>3, <1>4

LEMMA ClientUpdatedTyped ==
  ASSUME NEW row \in BookingRows, NEW e \in Events
  PROVE  /\ ClientUpdated(row, e) \in BookingRows
         /\ ClientUpdated(row, e).status = row.status
         /\ ClientUpdated(row, e).lastSeen = row.lastSeen
         /\ ClientUpdated(row, e).firstSeen = row.firstSeen
<1>1. Ev[e].newCli \in Column("newCli")
  BY DEF Column
<1>. QED BY <1>1 DEF ClientUpdated, BookingRows

LEMMA HistoryTyped ==
  ASSUME NEW h \in Seq(Entries), NEW e \in Events
  PROVE  HistoryAfter(h, e) \in Seq(Entries)
<1>. DEFINE entry == [org |-> Ev[e].org, from |-> Ev[e].at, source |-> e]
<1>1. entry \in Entries
  BY EventsAssumption DEF Column, Entries
<1>2. HistoryAfter(h, e) = h \/ HistoryAfter(h, e) = Append(h, entry)
  BY DEF HistoryAfter
<1>. QED BY <1>1, <1>2

LEMMA ExistsTyped ==
  ASSUME NEW t \in Tables
  PROVE  /\ t.booking.exists \in BOOLEAN
         /\ t.booking.exists <=> t.booking \in BookingRows
<1>1. CASE t.booking = NoRow
  <2>1. t.booking.exists = FALSE
    BY <1>1 DEF NoRow
  <2>2. t.booking \notin BookingRows
    BY <2>1 DEF BookingRows
  <2>. QED BY <2>1, <2>2
<1>2. CASE t.booking \in BookingRows
  <2>1. t.booking.exists = TRUE
    BY <1>2 DEF BookingRows
  <2>. QED BY <1>2, <2>1
<1>. QED BY <1>1, <1>2 DEF Tables

(* Ingesting an event into typed tables gives typed tables. *)
LEMMA IngestedTyped ==
  ASSUME NEW t \in Tables, NEW e \in Events, NEW found \in {t.booking.exists, FALSE}
  PROVE  /\ Ingested(t, e, found) \in Tables
         /\ Ingested(t, e, found).booking \in BookingRows
<1>1. CASE Upserts(e, found)
  BY <1>1, UpsertedTyped, ClientUpdatedTyped, HistoryTyped DEF Ingested, Tables
<1>2. CASE ~Upserts(e, found)
  <2>1. t.booking \in BookingRows
    BY <1>2, ExistsTyped DEF Upserts
  <2>. QED BY <1>2, <2>1 DEF Ingested
<1>. QED BY <1>1, <1>2

(* What an upsert and update_client may not take from a row. *)
LEMMA RowMovesForward ==
  ASSUME NEW row \in BookingRows, NEW e \in Events
  PROVE  LET new == ClientUpdated(Upserted(row, e), e)
         IN  /\ new.exists /\ new.lastSeen >= row.lastSeen
             /\ \A c \in {"org", "cli", "status", "start"} : row[c] # Null => new[c] # Null
<1>. DEFINE up == Upserted(row, e)
            new == ClientUpdated(up, e)
<1>1. row.exists
  BY DEF BookingRows
<1>2. up \in BookingRows /\ up.lastSeen >= row.lastSeen
  BY <1>1, UpsertedTyped
<1>3. /\ up.org = Coalesce(Ev[e].org, row.org) /\ up.cli = Coalesce(Ev[e].cli, row.cli)
      /\ up.status = Coalesce(StatusOf(Ev[e].type), row.status)
      /\ up.start = Coalesce(Ev[e].start, row.start)
  BY <1>1 DEF Upserted, BookingRows
<1>4. /\ row.org # Null => up.org # Null
      /\ row.cli # Null => up.cli # Null
      /\ row.status # Null => up.status # Null
      /\ row.start # Null => up.start # Null
  BY <1>3 DEF Coalesce
<1>5. /\ new.org = up.org /\ new.status = up.status /\ new.start = up.start
      /\ new.exists = up.exists /\ new.lastSeen = up.lastSeen
      /\ up.cli # Null => new.cli # Null
  BY <1>2 DEF ClientUpdated, ReassignsClient, BookingRows
<1>6. ASSUME NEW c \in {"org", "cli", "status", "start"}, row[c] # Null
      PROVE  new[c] # Null
  BY <1>4, <1>5, <1>6
<1>7. up.exists
  BY <1>2 DEF BookingRows
<1>. QED BY <1>2, <1>5, <1>6, <1>7

(* Whether an event's projections raise does not depend on the booking having *)
(* been found: only client_reassigned events look at that, and they are no    *)
(* read receipts.                                                             *)
LEMMA RaisesEitherWay ==
  ASSUME NEW e \in Events, NEW f \in BOOLEAN, NEW g \in BOOLEAN
  PROVE  ProjectionRaises(e, f) <=> ProjectionRaises(e, g)
<1>1. CASE Ev[e].type = "getstream.message.read"
  BY <1>1 DEF ProjectionRaises, ReceiptRaises, IsReceipt, UserFor, ClientOf, ReassignsClient
<1>2. CASE Ev[e].type # "getstream.message.read"
  BY <1>2 DEF ProjectionRaises, ReceiptRaises, IsReceipt
<1>. QED BY <1>1, <1>2
=============================================================================
