---------------------------- MODULE BookingTables ----------------------------
(***************************************************************************)
(* What one event does to each table of the read model: the SQL of          *)
(* BookingRepository and of the projection handlers, as operators from a    *)
(* table (or a row) and an event to the table afterwards.  ReadModel         *)
(* composes them into whole transactions, IngestTransaction interleaves      *)
(* them statement by statement.                                              *)
(***************************************************************************)
EXTENDS Naturals, Sequences

CONSTANTS Events,      \* names of the CloudEvents that may arrive
          Ev,          \* [Events -> [type, queue, at, ...]]: their contents
          Null,        \* SQL NULL, Python None
          Malformed    \* a payload value of the wrong type

ASSUME EventsAssumption == /\ Null \notin Events
                           /\ \A e \in Events : Ev[e].at \in Nat

(* Fields of Ev[e].  at: occurred_at.  org, cli: the ids ParticipantExtractor *)
(* returns.  start: start_time and end_time.  newCli: new_client_user_id.     *)
(* stream: the type inside the payload.  url, job, status, email, clicked,    *)
(* role, msg, lastRead: of the payload.                                       *)
(* source: the CloudEvents source.  queue: which queue delivered it.          *)

OnBooking(e) == Ev[e].booking

NoRow == [exists |-> FALSE]

(* Bug: the row's old value before the event's. *)
CoalesceSwapped(a, b) == IF b # Null THEN b ELSE a

Coalesce(a, b) == IF a # Null THEN a ELSE b

Later(a, b) == IF a > b THEN a ELSE b

-----------------------------------------------------------------------------
(* bookings *)

StatusOf(type) ==
  CASE type = "booking.created"   -> "created"
    [] type = "booking.cancelled" -> "cancelled"
    [] type = "booking.rejected"  -> "rejected"
    [] OTHER -> Null

(* get_or_none answers None for the lifecycle queue, so that the booking is   *)
(* upserted even when it exists.                                              *)
Upserts(e, found) == Ev[e].queue = "lifecycle" \/ ~found

(* Bug: last_seen_at without greatest(). *)
UpsertedOverwriting(row, e) ==
  IF ~row.exists
  THEN [exists |-> TRUE, firstSeen |-> Ev[e].at, lastSeen |-> Ev[e].at,
        start |-> Ev[e].start, status |-> StatusOf(Ev[e].type),
        org |-> Ev[e].org, cli |-> Ev[e].cli]
  ELSE [row EXCEPT !.lastSeen = Ev[e].at]

(* INSERT ... ON CONFLICT (booking_uid) DO UPDATE: first_seen_at keeps the    *)
(* time of the event that inserted the row.                                   *)
Upserted(row, e) ==
  IF ~row.exists
  THEN [exists |-> TRUE, firstSeen |-> Ev[e].at, lastSeen |-> Ev[e].at,
        start |-> Ev[e].start, status |-> StatusOf(Ev[e].type),
        org |-> Ev[e].org, cli |-> Ev[e].cli]
  ELSE [row EXCEPT !.lastSeen = Later(@, Ev[e].at),
                   !.start  = Coalesce(Ev[e].start, @),
                   !.status = Coalesce(StatusOf(Ev[e].type), @),
                   !.org    = Coalesce(Ev[e].org, @),
                   !.cli    = Coalesce(Ev[e].cli, @)]

ReassignsClient(e) == /\ Ev[e].type = "booking.client_reassigned"
                      /\ Ev[e].newCli # Null

(* update_client sets the client unconditionally. *)
ClientUpdated(row, e) ==
  IF ReassignsClient(e) THEN [row EXCEPT !.cli = Ev[e].newCli] ELSE row

-----------------------------------------------------------------------------
(* booking_organizer_history, oldest id first *)

RecordsOrganizer(e) ==
  /\ Ev[e].type \in {"booking.created", "booking.reassigned"}
  /\ Ev[e].org # Null

(* Bug: the first entry for the latest. *)
Oldest(history) == 1

(* ORDER BY effective_from DESC, id DESC LIMIT 1 *)
MostRecent(history) ==
  CHOOSE i \in DOMAIN history :
    \A j \in DOMAIN history \ {i} :
      \/ history[j].from < history[i].from
      \/ history[j].from = history[i].from /\ j < i

(* INSERT ... WHERE the most recent entry IS DISTINCT FROM the organizer. *)
HistoryAfter(history, e) ==
  IF history # <<>> /\ history[MostRecent(history)].org = Ev[e].org
  THEN history
  ELSE Append(history, [org |-> Ev[e].org, from |-> Ev[e].at, source |-> e])

(* The broker's bindings: an event that assigns an organizer or sets a status *)
(* comes through the lifecycle queue.                                         *)
ASSUME RoutingAssumption ==
         \A e \in Events : RecordsOrganizer(e) \/ StatusOf(Ev[e].type) # Null
                             => Ev[e].queue = "lifecycle"

(* What IngestEventUseCase does to a booking and its history, given whether    *)
(* get_or_none found the booking.                                             *)
Ingested(table, e, found) ==
  IF Upserts(e, found)
  THEN [booking |-> ClientUpdated(Upserted(table.booking, e), e),
        history |-> IF RecordsOrganizer(e) THEN HistoryAfter(table.history, e)
                    ELSE table.history]
  ELSE table

(* What the columns may hold. *)
Column(c) == {Ev[e][c] : e \in Events} \union {Null}
Statuses == {StatusOf(Ev[e].type) : e \in Events} \union {Null}

BookingRows == [exists : {TRUE}, firstSeen : Nat, lastSeen : Nat,
                start : Column("start"), status : Statuses, org : Column("org"),
                cli : Column("cli") \union Column("newCli")]

Entries == [org : Column("org"), from : Nat, source : Events]

Tables == [booking : {NoRow} \union BookingRows, history : Seq(Entries)]
Empty == [booking |-> NoRow, history |-> <<>>]

-----------------------------------------------------------------------------
(* Whom a projection attributes an event to. *)

(* execute hands the projections the new client of a client reassignment. *)
ClientOf(e, found) ==
  IF Upserts(e, found) /\ ReassignsClient(e) THEN Ev[e].newCli ELSE Ev[e].cli

UserFor(e, found) ==
  CASE Ev[e].role = "organizer" -> Ev[e].org
    [] Ev[e].role = "client"    -> ClientOf(e, found)
    [] OTHER -> Null

-----------------------------------------------------------------------------
(* booking_meeting_links, unique by (booking, user) *)

LinkUser(e) == Coalesce(Ev[e].org, Ev[e].cli)

LinkOf(e) == [user |-> LinkUser(e), url |-> Ev[e].url, source |-> e, born |-> e]

(* Bug: no conflict on (booking_ref_id, user_id). *)
LinkAdded(links, e) == links \union {LinkOf(e)}

(* INSERT ... ON CONFLICT (booking_ref_id, user_id) DO UPDATE.  born: the      *)
(* event that inserted the row, which stays the same row when it is updated.  *)
Linked(links, e) ==
  LET mine == {l \in links : l.user = LinkUser(e)}
  IN  IF mine = {} THEN links \union {LinkOf(e)}
      ELSE (links \ mine) \union {[l EXCEPT !.url = Ev[e].url, !.source = e] : l \in mine}

(* DELETE: the user's row if it had been committed (by one of sees) when the  *)
(* statement began, in whatever state concurrent updates have left it.        *)
Unlinked(links, e, sees) ==
  {l \in links : l.user # LinkUser(e) \/ l.born \notin sees}

IsUnlink(e) == Ev[e].type = "meeting.url_deleted" /\ LinkUser(e) # Null

LinksAfter(links, e, sees) ==
  IF Ev[e].type = "meeting.url_created" /\ LinkUser(e) # Null THEN Linked(links, e)
  ELSE IF IsUnlink(e) THEN Unlinked(links, e, sees)
  ELSE links

(* meeting_url is NOT NULL: the insert raises an integrity error. *)
LinkRaises(e) == /\ Ev[e].type = "meeting.url_created"
                 /\ LinkUser(e) # Null
                 /\ Ev[e].url = Null

-----------------------------------------------------------------------------
(* booking_email_notifications, a function from job_id to its row *)

IsSent(e) == /\ Ev[e].type = "notification.email.message_sent"
             /\ Ev[e].job # Null

IsStatus(e) == /\ Ev[e].type = "unisender.events.v1.transactional.status.create"
               /\ Ev[e].job # Null

NoEmail == [exists |-> FALSE, user |-> Null, sentBy |-> Null, statusBy |-> Null,
            status |-> Null, clicked |-> Null, recipient |-> Null]

(* Bug: what the row had is forgotten. *)
SentRowAnew(row, e, found) ==
  [NoEmail EXCEPT !.exists = TRUE, !.sentBy = e, !.user = UserFor(e, found),
                  !.recipient = Ev[e].email]

SentRow(row, e, found) ==
  [row EXCEPT !.exists = TRUE, !.sentBy = e,
              !.user = Coalesce(UserFor(e, found), @),
              !.recipient = Coalesce(Ev[e].email, @)]

StatusRow(row, e) ==
  [row EXCEPT !.exists = TRUE, !.statusBy = e, !.status = Ev[e].status,
              !.clicked = Coalesce(Ev[e].clicked, @),
              !.recipient = Coalesce(Ev[e].email, @)]

EmailAfter(email, e, found) ==
  CASE IsSent(e)   -> [email EXCEPT ![Ev[e].job] = SentRow(@, e, found)]
    [] IsStatus(e) -> [email EXCEPT ![Ev[e].job] = StatusRow(@, e)]
    [] OTHER -> email

(* booking_email_status_history: INSERT ... SELECT from the notification with *)
(* this job_id, so nothing is inserted while that row does not exist.         *)
StatusHistoryAfter(statusHistory, email, e) ==
  IF IsStatus(e) /\ Ev[e].status # Null /\ email[Ev[e].job].exists
  THEN statusHistory \union {e} ELSE statusHistory

-----------------------------------------------------------------------------
(* booking_chat_events *)

IsChat(e) ==
  \/ Ev[e].source = "getstream"
  \/ /\ Ev[e].source = "booking"
     /\ Ev[e].type \in {"chat.created", "chat.deleted", "chat.message_sent"}

(* extract_action: GetStream's own name of the event, if the payload has one. *)
ChatEventType(e) ==
  IF Ev[e].source = "getstream" THEN Coalesce(Ev[e].stream, Ev[e].type) ELSE Ev[e].type

ChatAfter(chat, e, found) ==
  IF IsChat(e)
  THEN chat \union {[event |-> e, type |-> ChatEventType(e), msg |-> Ev[e].msg,
                     user |-> UserFor(e, found), at |-> Ev[e].at, read |-> FALSE]}
  ELSE chat

(* What a read receipt covers: messages of anyone but the reader, the last    *)
(* one read or any that occurred before the receipt.                          *)
Covers(e, reader, row) ==
  /\ row.type = "message.new"
  /\ row.user # reader
  /\ \/ row.msg # Null /\ row.msg = Ev[e].lastRead
     \/ row.at < Ev[e].at

IsReceipt(e, found) == /\ Ev[e].source = "getstream"
                       /\ Ev[e].type = "getstream.message.read"
                       /\ UserFor(e, found) # Null

(* last_read_message_id is compared with a text column as it comes: anything  *)
(* but a string (here Malformed) makes the update raise.                      *)
ReceiptRaises(e, found) == IsReceipt(e, found) /\ Ev[e].lastRead = Malformed

(* What makes a projection raise, and with it the whole transaction fail. *)
ProjectionRaises(e, found) == LinkRaises(e) \/ ReceiptRaises(e, found)

(* Bug: the reader's own messages and later ones are marked too. *)
ChatReadAll(chat, e, found, sees) ==
  IF IsReceipt(e, found)
  THEN {IF r.type = "message.new" /\ r.event \in sees
        THEN [r EXCEPT !.read = TRUE] ELSE r : r \in chat}
  ELSE chat

(* UPDATE: of the rows that had been committed (by the events of sees) when   *)
(* the statement began, those it covers; its own row it never does.           *)
ChatReadAfter(chat, e, found, sees) ==
  IF IsReceipt(e, found)
  THEN {IF r.event \in sees /\ Covers(e, UserFor(e, found), r)
        THEN [r EXCEPT !.read = TRUE] ELSE r : r \in chat}
  ELSE chat

-----------------------------------------------------------------------------
(* The append-only tables, each the set of events that have a row there. *)

LifecycleTypes == {"booking.created", "booking.rescheduled", "booking.reassigned",
                   "booking.cancelled", "booking.rejected", "booking.client_reassigned"}

LifecycleAfter(lifecycle, e, found) ==
  IF Ev[e].type \in LifecycleTypes
  THEN lifecycle \union {[event |-> e, org |-> Ev[e].org, cli |-> ClientOf(e, found)]}
  ELSE lifecycle

TelegramAfter(telegram, e, found) ==
  IF Ev[e].type = "notification.telegram.message_sent"
  THEN telegram \union {[event |-> e, user |-> UserFor(e, found)]} ELSE telegram

(* Every type of EventType that starts with "jitsi.". *)
JitsiTypes == {"jitsi.conference.joined", "jitsi.conference.left",
               "jitsi.audio.mute_status_changed", "jitsi.video.mute_status_changed",
               "jitsi.device_list_changed"}

VideoAfter(video, e, found) ==
  IF Ev[e].type \in JitsiTypes
  THEN video \union {[event |-> e, user |-> UserFor(e, found)]} ELSE video
=============================================================================
