------------------------------ MODULE ReadModel ------------------------------
(***************************************************************************)
(* The read model of one booking, fed by the events of all queues in any    *)
(* order they happen to arrive in.  An ingestion transaction,               *)
(* IngestEventUseCase.execute with every projection in the order            *)
(* ProjectionExecutor runs them, takes effect when it commits, for all its   *)
(* writes but two: where another transaction has the row they wait, and go   *)
(* on from what it left (IngestTransaction and AtomicIngest have the         *)
(* booking's row and history so).  The two, the UPDATE of a read receipt     *)
(* and the DELETE of a meeting link, only know the rows that were committed  *)
(* when they began, under READ COMMITTED: Look takes that snapshot.          *)
(*                                                                          *)
(* Deliveries and retries are RabbitConsumer's; an attempt that is rolled    *)
(* back and repeated is here the one that ends, and Look its last.           *)
(***************************************************************************)
EXTENDS BookingTables, FiniteSets, FiniteSetsExt

CONSTANTS Lives,     \* which sets of events may be published about the booking
          MaxMissed  \* bound: events that look for the booking too early

ASSUME LivesAssumption == Lives \subseteq SUBSET Events /\ MaxMissed \in Nat

VARIABLES
  published,       \* the events of this booking, one of Lives
  log,             \* the events table, in the order the rows were committed
  dead,            \* events whose transaction raised: dead-lettered
  sees,            \* for each event, what was committed when its UPDATE or DELETE began
  missed,          \* ghost: events of other queues that upserted an existing booking,
                   \* which they had looked for before it was there
  booking, history, links, email, statusHistory, chat, lifecycle, telegram, video

tables == <<booking, history, links, email, statusHistory, chat, lifecycle,
            telegram, video>>
vars == <<published, log, dead, sees, missed, tables>>

Jobs == {Ev[e].job : e \in Events} \ {Null}

Arrived == {log[i] : i \in DOMAIN log}

Users == Column("org") \union Column("cli") \union Column("newCli")
EventOrNull == Events \union {Null}

LinkUsers == {LinkUser(e) : e \in Events} \ {Null}
LinkRows == [user : LinkUsers, url : Column("url"), source : Events, born : Events]
EmailRows == [exists : BOOLEAN, user : Users, sentBy : EventOrNull, statusBy : EventOrNull,
              status : Column("status"), clicked : Column("clicked"),
              recipient : Column("email")]
ChatRows == [event : Events, type : Column("type") \union Column("stream"),
             msg : Column("msg"), user : Users, at : Nat, read : BOOLEAN]

TypeOK ==
  /\ published \in Lives
  /\ log \in Seq(Events)
  /\ Arrived \subseteq published /\ Len(log) = Cardinality(Arrived)
  /\ dead \subseteq published \ Arrived
  /\ sees \in [Events -> SUBSET Arrived]
  /\ missed \subseteq Arrived
  /\ booking \in {NoRow} \union BookingRows
  /\ booking.exists => booking.firstSeen <= booking.lastSeen
  /\ history \in Seq(Entries)
  /\ links \subseteq LinkRows
  /\ email \in [Jobs -> EmailRows]
  /\ statusHistory \subseteq Events
  /\ chat \subseteq ChatRows
  /\ lifecycle \subseteq [event : Events, org : Column("org"), cli : Users]
  /\ telegram \subseteq [event : Events, user : Users]
  /\ video \subseteq [event : Events, user : Users]

Init ==
  /\ published \in Lives
  /\ log = <<>> /\ dead = {}
  /\ sees = [e \in Events |-> {}] /\ missed = {}
  /\ booking = NoRow
  /\ history = <<>>
  /\ links = {}
  /\ email = [j \in Jobs |-> NoEmail]
  /\ statusHistory = {} /\ chat = {} /\ lifecycle = {} /\ telegram = {} /\ video = {}

-----------------------------------------------------------------------------
(* The arrival order. *)

(* Where the events of S are in a sequence, the first and the last of them    *)
(* (Null: none).                                                              *)
Places(seq, S) == {i \in DOMAIN seq : seq[i] \in S}
FirstIn(seq, S) == IF Places(seq, S) = {} THEN Null ELSE seq[Min(Places(seq, S))]
LastIn(seq, S) == IF Places(seq, S) = {} THEN Null ELSE seq[Max(Places(seq, S))]

FirstOf(S) == FirstIn(log, S)
LastOf(S) == LastIn(log, S)

(* The events about the booking, and those that upsert it: the lifecycle      *)
(* queue's, the booking's first and those that looked for it too early.       *)
Booked == {e \in Events : OnBooking(e)}
Writers == {e \in Booked : Ev[e].queue = "lifecycle" \/ e = FirstOf(Booked) \/ e \in missed}

-----------------------------------------------------------------------------
(* The transactions. *)

Pending(e) == e \in published \ (Arrived \union dead)

Raises(e) == ProjectionRaises(e, booking.exists)

(* The events with a statement that works on the rows it finds. *)
Looks(e) == OnBooking(e) /\ ~Raises(e) /\ (IsReceipt(e, TRUE) \/ IsUnlink(e))

(* The statement begins.  (Before the first Look nothing was committed.) *)
Look(e) ==
  /\ Pending(e) /\ Looks(e)
  /\ sees' = [sees EXCEPT ![e] = Arrived]
  /\ UNCHANGED <<published, log, dead, missed, tables>>

(* It begins after get_or_none and the upsert: a booking that was found was   *)
(* committed by then, and one that is upserted is locked, by which everyone   *)
(* else who upserts it has committed before or will after.                    *)
InTurn(e, found) ==
  Looks(e) => IF Upserts(e, found) THEN Arrived \intersect Writers \subseteq sees[e]
              ELSE sees[e] \intersect Booked # {}

(* The booking row and its history: written when the event comes from the     *)
(* lifecycle queue or get_or_none did not find the booking.                   *)
WriteBooking(e, found) ==
  LET after == Ingested([booking |-> booking, history |-> history], e, found)
  IN  booking' = after.booking /\ history' = after.history

(* Bug: the status history before the e-mail row it selects from. *)
StatusHistoryFirst(e, found) ==
  /\ links' = LinksAfter(links, e, sees[e])
  /\ email' = EmailAfter(email, e, found)
  /\ telegram' = TelegramAfter(telegram, e, found)
  /\ statusHistory' = StatusHistoryAfter(statusHistory, email, e)
  /\ UNCHANGED <<chat, video, lifecycle>>

(* execute_projections; a handler sees what the ones before it wrote.         *)
ExecuteProjections(e, found) ==
  /\ links' = LinksAfter(links, e, sees[e])
  /\ email' = EmailAfter(email, e, found)
  /\ telegram' = TelegramAfter(telegram, e, found)
  /\ statusHistory' = StatusHistoryAfter(statusHistory, email', e)
  /\ chat' = ChatReadAfter(ChatAfter(chat, e, found), e, found, sees[e])
  /\ video' = VideoAfter(video, e, found)
  /\ lifecycle' = LifecycleAfter(lifecycle, e, found)

(* get_or_none answered before a concurrent transaction inserted the booking. *)
TooEarly(e, found) == Ev[e].queue # "lifecycle" /\ booking.exists /\ ~found

(* The transaction commits. *)
Ingest(e) ==
  /\ Pending(e)
  /\ log' = Append(log, e)
  /\ \/ /\ OnBooking(e) /\ ~Raises(e)
        /\ \E found \in {booking.exists, FALSE} :
             /\ InTurn(e, found)
             /\ TooEarly(e, found) => Cardinality(missed) < MaxMissed
             /\ missed' = IF TooEarly(e, found) THEN missed \union {e} ELSE missed
             /\ WriteBooking(e, found)
             /\ ExecuteProjections(e, found)
     \/ ~OnBooking(e) /\ UNCHANGED <<missed, tables>>
  /\ UNCHANGED <<published, dead, sees>>

(* Bug: what was written before the error stays. *)
FailHalfWay(e) ==
  /\ Pending(e)
  /\ OnBooking(e) /\ Raises(e)
  /\ dead' = dead \union {e}
  /\ WriteBooking(e, booking.exists)
  /\ UNCHANGED <<published, log, sees, missed, links, email, statusHistory, chat, lifecycle, telegram, video>>

(* The executor re-raises a handler's error: the whole transaction, the raw   *)
(* event included, is rolled back and the message dead-lettered.  (So it is   *)
(* after a database error that is not retried, which any event may meet: it   *)
(* then leaves what it would have left had it not been published.)            *)
Fail(e) ==
  /\ Pending(e)
  /\ OnBooking(e) /\ Raises(e)
  /\ dead' = dead \union {e}
  /\ UNCHANGED <<published, log, sees, missed, tables>>

(* No event is left: the service waits. *)
Quiescent == /\ \A e \in Events : ~Pending(e)
             /\ UNCHANGED vars

Next == \/ \E e \in Events : Look(e) \/ Ingest(e) \/ Fail(e)
        \/ Quiescent

Spec == Init /\ [][Next]_vars

-----------------------------------------------------------------------------
(* What the tables say of the arrival order. *)

(* The append-only tables hold one row for every stored event they are about, *)
(* whatever the arrival order: the status history in particular is complete   *)
(* though its insert selects from a row another projection writes, and a       *)
(* status may arrive before the e-mail is reported sent.                       *)
AppendOnlyTablesComplete ==
  LET Stored == Arrived \intersect Booked
  IN  /\ {r.event : r \in lifecycle} = {e \in Stored : Ev[e].type \in LifecycleTypes}
      /\ {r.event : r \in telegram} =
           {e \in Stored : Ev[e].type = "notification.telegram.message_sent"}
      /\ {r.event : r \in video} = {e \in Stored : Ev[e].type \in JitsiTypes}
      /\ {r.event : r \in chat} = {e \in Stored : IsChat(e)}
      /\ statusHistory = {e \in Stored : IsStatus(e) /\ Ev[e].status # Null}

(* The reports of e-mail j: that it was sent, and what became of it. *)
SentOf(j) == {e \in Booked : IsSent(e) /\ Ev[e].job = j}
StatusesOf(j) == {e \in Booked : IsStatus(e) /\ Ev[e].job = j}

(* The two kinds of events that share an e-mail row never undo each other:    *)
(* whichever came first, the row has the last report of each kind, and keeps  *)
(* an address and a clicked url once one is known.                            *)
EmailKeepsBothHalves ==
  \A j \in Jobs :
    LET About == SentOf(j) \union StatusesOf(j)
        Clicked == {e \in StatusesOf(j) : Ev[e].clicked # Null}
        Known == {e \in About : Ev[e].email # Null}
        row == email[j]
    IN  /\ row.exists <=> LastOf(About) # Null
        /\ row.sentBy = LastOf(SentOf(j)) /\ row.statusBy = LastOf(StatusesOf(j))
        /\ row.statusBy # Null => row.status = Ev[row.statusBy].status
        /\ (row.clicked = Null) <=> (LastOf(Clicked) = Null)
        /\ LastOf(Known) # Null => row.recipient = Ev[LastOf(Known)].email

(* A message is marked read exactly when a receipt that covers it has been    *)
(* stored whose update began after the message was: no receipt of its author, *)
(* no receipt for older messages only, and no other writer of the row changes *)
(* the flag.  A receipt that runs beside the message's own transaction may    *)
(* commit after it and still leave it unread.                                 *)
ReadExactlyWhenCovered ==
  \A r \in chat :
    r.read <=> \E e \in Arrived \intersect Booked : /\ IsReceipt(e, TRUE)
                                                  /\ r.event \in sees[e]
                                                  /\ Covers(e, UserFor(e, TRUE), r)

(* The events that create a link for a user, and those that delete it. *)
Creating(u) == {e \in Booked : Ev[e].type = "meeting.url_created" /\ LinkUser(e) = u}
Deleting(u) == {e \in Booked : Ev[e].type = "meeting.url_deleted" /\ LinkUser(e) = u}

(* A user has at most one link, the one whose creation was the last to        *)
(* commit.  It is there if no deletion committed since, and is not if one did *)
(* that also began since; a deletion that began before and committed after    *)
(* may have deleted it or not, according to whether it found a row.           *)
OneLinkPerUser ==
  /\ \A l, k \in links : l.user = k.user => l = k
  /\ \A l \in links : l.source = LastOf(Creating(l.user))
  /\ \A u \in LinkUsers :
       LET last == LastOf(Creating(u))
           HasLink == \E l \in links : l.user = u
       IN  /\ LastOf(Creating(u) \union Deleting(u)) \in Creating(u) => HasLink
           /\ (\E e \in Arrived \intersect Deleting(u) : last \in sees[e]) => ~HasLink

(* What an event says of a column of the booking (Null: nothing), a           *)
(* reassigned client before the listed one.                                   *)
Says(e, c) == CASE c = "status" -> StatusOf(Ev[e].type)
                [] c = "cli" /\ ReassignsClient(e) -> Ev[e].newCli
                [] OTHER -> Ev[e][c]

LastToSay(c) == LastOf({e \in Writers : Says(e, c) # Null})

(* The booking row is the work of the events that upsert it: each column is   *)
(* what the last of these to arrive said of it, first_seen_at the time of the *)
(* first and last_seen_at the latest of their times.  (A participant that is  *)
(* still NULL may be filled in by user.synced or the backfill cycle, which    *)
(* UserIdBackfill has.)                                                       *)
BookingIsLastWriter ==
  /\ booking.exists <=> LastOf(Booked) # Null
  /\ booking.exists =>
       /\ \A c \in {"status", "start", "org", "cli"} :
            booking[c] = IF LastToSay(c) = Null THEN Null ELSE Says(LastToSay(c), c)
       /\ booking.firstSeen = Ev[FirstOf(Booked)].at
       /\ \A e \in Arrived \intersect Writers : booking.lastSeen >= Ev[e].at
       /\ \E e \in Arrived \intersect Writers : booking.lastSeen = Ev[e].at

(* What the documentation says of last_seen_at: it is the most recent time of *)
(* an event of the booking.  It is not: a later event of another queue finds  *)
(* the booking and leaves its row alone.                                      *)
LastSeenIsMostRecent ==
  booking.exists => \A e \in Arrived \intersect Booked : booking.lastSeen >= Ev[e].at

-----------------------------------------------------------------------------
(* The organizer history read in the order of effective_from. *)

Ordered(h, i, j) == \/ h[i].from < h[j].from
                    \/ h[i].from = h[j].from /\ i < j

Adjacent(h, i, j) == /\ Ordered(h, i, j)
                     /\ ~\E k \in DOMAIN h : Ordered(h, i, k) /\ Ordered(h, k, j)

(* The history has no "duplicate consecutive entries" (save_organizer_history *)
(* inserts if changed only).  It has when assignments arrive out of order.    *)
NoConsecutiveDuplicates ==
  \A i, j \in DOMAIN history : Adjacent(history, i, j) => history[i].org # history[j].org

(* The events that assign an organizer, and where they are in the log. *)
Assigning == {e \in Booked : RecordsOrganizer(e)}
Assignments == Places(log, Assigning)

ArrivedInOrder ==
  \A i, j \in Assignments : i < j => Ev[log[i]].at <= Ev[log[j]].at

(* The assignment at j follows one that named the same organizer. *)
Repeats(j) ==
  \E i \in Assignments : /\ i < j /\ ~\E k \in Assignments : i < k /\ k < j
                         /\ Ev[log[i]].org = Ev[log[j]].org

(* When the assignments arrive in the order they occurred in, the history is  *)
(* the list of the changes: no change is lost, none is repeated, and it ends  *)
(* with the organizer last assigned.                                          *)
HistoryInOrder ==
  ArrivedInOrder =>
    /\ NoConsecutiveDuplicates
    /\ (history = <<>>) <=> (Assignments = {})
    /\ history # <<>> => history[Len(history)].org = Ev[LastOf(Assigning)].org
    /\ \A j \in Assignments :
         ~Repeats(j) => \E k \in DOMAIN history : history[k].source = log[j]

-----------------------------------------------------------------------------
(* A step of this module is one of the specification that the statements of   *)
(* IngestTransaction implement, and nothing of a transaction that raises      *)
(* remains.                                                                   *)
Ended == LET done == Arrived
         IN  [e \in Events |-> IF e \in done THEN "done"
                               ELSE IF e \in dead THEN "rejected" ELSE "open"]

Abs == INSTANCE AtomicIngest WITH
         Fails <- ProjectionRaises,
         table <- [booking |-> booking, history |-> history],
         ended <- Ended

Atomic == Abs!Spec

-----------------------------------------------------------------------------
(* The inductive invariant behind them. *)

(* Every entry of the history is an assignment that arrived. *)
EntriesAreAssignments ==
  \A k \in DOMAIN history :
    LET e == history[k].source
    IN  e \in Arrived \intersect Assigning /\ history[k].org = Ev[e].org
                                           /\ history[k].from = Ev[e].at

(* Assignments that arrive in order leave the history sorted, so that the     *)
(* most recent entry is the last, and each entry differs from the one before. *)
HistoryIsSorted ==
  ArrivedInOrder =>
    /\ \A k, l \in DOMAIN history : k < l => history[k].from <= history[l].from
    /\ \A k \in DOMAIN history : k # Len(history) => history[k].org # history[k+1].org

(* A deletion that sees the last creation of a link sees the row's insertion. *)
RowsOutliveUpdates ==
  \A l \in links : /\ l.born \in Arrived /\ l.source \in Arrived
                   /\ \A e \in Events : l.source \in sees[e] => l.born \in sees[e]

(* The shape of the tables, whatever order the events arrive in. *)
WellFormed == TypeOK /\ EntriesAreAssignments /\ HistoryIsSorted /\ RowsOutliveUpdates

IInv == /\ WellFormed
        /\ AppendOnlyTablesComplete
        /\ EmailKeepsBothHalves
        /\ ReadExactlyWhenCovered
        /\ OneLinkPerUser
        /\ BookingIsLastWriter
        /\ HistoryInOrder

=============================================================================
