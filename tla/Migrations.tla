----------------------------- MODULE Migrations -----------------------------
(***************************************************************************)
(* The alembic revisions of event-saver, which owns the main database: what *)
(* each one creates and drops, upwards and downwards, and the rows that     *)
(* stand in its way.  entrypoint.sh runs "upgrade head" at every start; an  *)
(* operator may run any single step.  PostgreSQL's DDL is transactional and *)
(* env.py runs a command in one transaction, so a command that fails leaves *)
(* no trace.                                                                *)
(*                                                                          *)
(* Of a table only the columns that a later revision, a constraint or the   *)
(* code's ON CONFLICT clauses refer to are kept.                            *)
(***************************************************************************)
EXTENDS Naturals, FiniteSets, SequencesExt

CONSTANT None   \* an item that refers to no table

(* A schema is a set of items.  on: the columns the item goes with.           *)
Item(kind, t, name, on, ref) ==
  [kind |-> kind, table |-> t, name |-> name, on |-> on, ref |-> ref]

Tbl(t) == Item("table", t, t, {}, None)
Col(t, c) == Item("column", t, c, {}, None)
NotNull(t, c) == Item("notnull", t, c, {c}, None)
Ix(t, name, on) == Item("index", t, name, on, None)
UqIx(t, name, on) == Item("unique index", t, name, on, None)
Uq(t, name, on) == Item("unique", t, name, on, None)
Fk(t, c, ref) == Item("fk", t, c, {c}, ref)

Kinds == {"table", "column", "notnull", "index", "unique index", "unique", "fk"}
Items == [kind : Kinds, table : STRING, name : STRING, on : SUBSET STRING, ref : STRING \union {None}]

Id(i) == <<i.kind, i.table, i.name>>

(* The operations of a revision. *)
Add(items) == [do |-> "add", items |-> items]
Drop(kind, t, name) == [do |-> "drop", id |-> <<kind, t, name>>]
DeleteRows(fact) == [do |-> "delete", fact |-> fact]

AddCol(t, c) == Add({Col(t, c)})
DropCol(t, c) == Drop("column", t, c)
DropTable(t) == Drop("table", t, t)

CreateTable(t, columns, more) == Add({Tbl(t)} \union {Col(t, c) : c \in columns} \union more)

Revision(after, up, down) == [after |-> after, up |-> up, down |-> down]
Merge(after) == Revision(after, <<>>, <<>>)

-----------------------------------------------------------------------------
(* The revisions, oldest first. *)

UqHash == UqIx("events", "uq_events_booking_id_event_type_source_hash", {"booking_id", "hash"})

(* 9bb09c895183 *)
CreateEvents == Revision({},
  <<CreateTable("events", {"event_id", "booking_id"},
      {NotNull("events", "booking_id"), Uq("events", "events_pkey", {"event_id"})}),
    Add({Ix("events", "ix_events_booking_id_occurred_at_desc", {"booking_id"})}),
    Add({Ix("events", "ix_events_event_type_occurred_at_desc", {})})>>,
  <<Drop("index", "events", "ix_events_event_type_occurred_at_desc"),
    Drop("index", "events", "ix_events_booking_id_occurred_at_desc"),
    DropTable("events")>>)

(* Bug: 5f1c2e9a8b1d without deleting the duplicates first. *)
AddHashOnly == Revision({"CreateEvents"},
  <<AddCol("events", "hash"), Add({NotNull("events", "hash")}), Add({UqHash})>>,
  <<Drop("unique index", "events", UqHash.name), DropCol("events", "hash")>>)

(* 5f1c2e9a8b1d *)
AddHash == Revision({"CreateEvents"},
  <<AddCol("events", "hash"), DeleteRows("duplicates"),
    Add({NotNull("events", "hash")}), Add({UqHash})>>,
  <<Drop("unique index", "events", UqHash.name), DropCol("events", "hash")>>)

(* 3a791de67f88 *)
NullableBookingId == Revision({"AddHash"},
  <<Drop("notnull", "events", "booking_id")>>,
  <<Add({NotNull("events", "booking_id")})>>)

(* b2c4f8a1d9e3, a table at a time. *)
Participants ==
  <<CreateTable("participants", {"email", "role"},
      {Uq("participants", "uq_participants_email", {"email"})}),
    Add({Ix("participants", "ix_participants_role", {"role"})})>>

BookingsTable ==
  <<CreateTable("bookings",
      {"booking_uid", "current_organizer_participant_ref_id", "current_client_participant_ref_id"},
      {Fk("bookings", "current_organizer_participant_ref_id", "participants"),
       Fk("bookings", "current_client_participant_ref_id", "participants"),
       Uq("bookings", "uq_bookings_booking_uid", {"booking_uid"})}),
    Add({Ix("bookings", "ix_bookings_last_seen_desc", {})})>>

(* The tables of a booking: foreign keys to it, to participants and events. *)
OfBooking(t, participant, event, columns, more) ==
  CreateTable(t, {"booking_ref_id", participant, event} \union columns,
    {Fk(t, "booking_ref_id", "bookings"), Fk(t, participant, "participants"),
     Fk(t, event, "events")} \union more)

OrganizerHistory ==
  <<OfBooking("booking_organizer_history", "organizer_participant_ref_id", "source_event_id", {},
      {NotNull("booking_organizer_history", "organizer_participant_ref_id")}),
    Add({Ix("booking_organizer_history", "ix_boh_booking_effective_from_desc", {"booking_ref_id"})})>>

UqLinkRole == Uq("booking_meeting_links", "uq_bml_booking_ref_id_recipient_role",
                 {"booking_ref_id", "recipient_role"})

MeetingLinks ==
  <<OfBooking("booking_meeting_links", "participant_ref_id", "source_event_id", {"recipient_role"},
      {NotNull("booking_meeting_links", "participant_ref_id"),
       NotNull("booking_meeting_links", "recipient_role"), UqLinkRole}),
    Add({Ix("booking_meeting_links", "ix_bml_booking_ref_id", {"booking_ref_id"})})>>

Emails ==
  <<OfBooking("booking_email_notifications", "participant_ref_id", "sent_event_id",
      {"job_id", "recipient_role", "last_status_event_id"},
      {Fk("booking_email_notifications", "last_status_event_id", "events"),
       Uq("booking_email_notifications", "uq_booking_email_notifications_job_id", {"job_id"})}),
    Add({Ix("booking_email_notifications", "ix_ben_booking_ref_id", {"booking_ref_id"})}),
    Add({Ix("booking_email_notifications", "ix_ben_booking_ref_last_status_time_desc",
            {"booking_ref_id"})}),
    CreateTable("booking_email_status_history", {"notification_ref_id", "source_event_id"},
      {Fk("booking_email_status_history", "notification_ref_id", "booking_email_notifications"),
       Fk("booking_email_status_history", "source_event_id", "events"),
       Uq("booking_email_status_history", "uq_besh_source_event_id", {"source_event_id"})}),
    Add({Ix("booking_email_status_history", "ix_besh_notification_ref_status_time_desc",
            {"notification_ref_id"})})>>

Telegrams ==
  <<OfBooking("booking_telegram_notifications", "participant_ref_id", "source_event_id",
      {"recipient_role"},
      {Uq("booking_telegram_notifications", "uq_btn_source_event_id", {"source_event_id"})}),
    Add({Ix("booking_telegram_notifications", "ix_btn_booking_ref_sent_at_desc",
            {"booking_ref_id"})})>>

ChatEvents ==
  <<OfBooking("booking_chat_events", "participant_ref_id", "raw_event_id", {},
      {Uq("booking_chat_events", "uq_booking_chat_events_raw_event_id", {"raw_event_id"})}),
    Add({Ix("booking_chat_events", "ix_bce_booking_ref_occurred_desc", {"booking_ref_id"})}),
    Add({Ix("booking_chat_events", "ix_bce_booking_ref_type_occurred_desc", {"booking_ref_id"})})>>

VideoEvents ==
  <<OfBooking("booking_video_events", "participant_ref_id", "raw_event_id", {},
      {Uq("booking_video_events", "uq_booking_video_events_raw_event_id", {"raw_event_id"})}),
    Add({Ix("booking_video_events", "ix_bve_booking_ref_event_time_desc", {"booking_ref_id"})}),
    Add({Ix("booking_video_events", "ix_bve_booking_ref_type_event_time_desc",
            {"booking_ref_id"})})>>

DropProjections ==
  <<Drop("index", "booking_video_events", "ix_bve_booking_ref_type_event_time_desc"),
    Drop("index", "booking_video_events", "ix_bve_booking_ref_event_time_desc"),
    DropTable("booking_video_events"),
    Drop("index", "booking_chat_events", "ix_bce_booking_ref_type_occurred_desc"),
    Drop("index", "booking_chat_events", "ix_bce_booking_ref_occurred_desc"),
    DropTable("booking_chat_events"),
    Drop("index", "booking_email_status_history", "ix_besh_notification_ref_status_time_desc"),
    DropTable("booking_email_status_history"),
    Drop("index", "booking_telegram_notifications", "ix_btn_booking_ref_sent_at_desc"),
    DropTable("booking_telegram_notifications"),
    Drop("index", "booking_email_notifications", "ix_ben_booking_ref_last_status_time_desc"),
    Drop("index", "booking_email_notifications", "ix_ben_booking_ref_id"),
    DropTable("booking_email_notifications"),
    Drop("index", "booking_meeting_links", "ix_bml_booking_ref_id"),
    DropTable("booking_meeting_links"),
    Drop("index", "booking_organizer_history", "ix_boh_booking_effective_from_desc"),
    DropTable("booking_organizer_history"),
    Drop("index", "bookings", "ix_bookings_last_seen_desc"),
    DropTable("bookings"),
    Drop("index", "participants", "ix_participants_role"),
    DropTable("participants")>>

AddProjections == Revision({"NullableBookingId"},
  Participants \o BookingsTable \o OrganizerHistory \o MeetingLinks \o Emails
    \o Telegrams \o ChatEvents \o VideoEvents,
  DropProjections)

(* Bug: a downgrade left as the template has it. *)
RoleNotRestored == Revision({"AddProjections"},
  <<DropCol("booking_email_notifications", "recipient_role")>>, <<>>)

(* 31c851c306e9 *)
EmailsWithoutRole == Revision({"AddProjections"},
  <<DropCol("booking_email_notifications", "recipient_role")>>,
  <<AddCol("booking_email_notifications", "recipient_role")>>)

UqLinkParticipant == Uq("booking_meeting_links", "uq_bml_booking_ref_id_participant_ref_id",
                        {"booking_ref_id", "participant_ref_id"})

(* 4c0ec66f1c56 *)
LinksByParticipant == Revision({"EmailsWithoutRole"},
  <<Drop("unique", "booking_meeting_links", UqLinkRole.name),
    Add({UqLinkParticipant}),
    DropCol("booking_meeting_links", "recipient_role")>>,
  <<Add({Col("booking_meeting_links", "recipient_role"),
         NotNull("booking_meeting_links", "recipient_role")}),
    Drop("unique", "booking_meeting_links", UqLinkParticipant.name),
    Add({UqLinkRole})>>)

(* 9db481e61abb *)
TelegramsWithoutRole == Revision({"LinksByParticipant"},
  <<DropCol("booking_telegram_notifications", "recipient_role")>>,
  <<AddCol("booking_telegram_notifications", "recipient_role")>>)

(* 188a4a37868a *)
ChatIsRead == Revision({"TelegramsWithoutRole"},
  <<AddCol("booking_chat_events", "is_read")>>,
  <<DropCol("booking_chat_events", "is_read")>>)

(* b0e296cc4b17 *)
ChatUpdatedAt == Revision({"ChatIsRead"},
  <<AddCol("booking_chat_events", "updated_at")>>,
  <<DropCol("booking_chat_events", "updated_at")>>)

(* ca7326cf2ec5 *)
AddLifecycle == Revision({"ChatIsRead"},
  <<CreateTable("booking_lifecycle_events", {"booking_ref_id", "raw_event_id"},
      {Fk("booking_lifecycle_events", "booking_ref_id", "bookings"),
       Fk("booking_lifecycle_events", "raw_event_id", "events"),
       Uq("booking_lifecycle_events", "uq_booking_lifecycle_events_raw_event_id",
          {"raw_event_id"})}),
    Add({Ix("booking_lifecycle_events", "ix_ble_booking_ref_occurred_at", {"booking_ref_id"})})>>,
  <<Drop("index", "booking_lifecycle_events", "ix_ble_booking_ref_occurred_at"),
    DropTable("booking_lifecycle_events")>>)

(* afce66b11b80 *)
BookingTimes == Revision({"ChatUpdatedAt"},
  <<AddCol("bookings", "start_time"), AddCol("bookings", "end_time")>>,
  <<DropCol("bookings", "end_time"), DropCol("bookings", "start_time")>>)

(* c5d7f9e3a1b2 *)
Tracing == Revision({"BookingTimes"},
  <<AddCol("events", "idempotency_key"), AddCol("events", "trace_id"),
    AddCol("events", "span_id"), AddCol("events", "dataschema"),
    Add({UqIx("events", "idx_events_idempotency", {"idempotency_key"})}),
    Add({Ix("events", "idx_events_trace_id", {"trace_id"})})>>,
  <<Drop("index", "events", "idx_events_trace_id"),
    Drop("unique index", "events", "idx_events_idempotency"),
    DropCol("events", "dataschema"), DropCol("events", "span_id"),
    DropCol("events", "trace_id"), DropCol("events", "idempotency_key")>>)

(* ea_0001, a root of its own *)
AdminUsers == Revision({},
  <<CreateTable("admin_users", {"id", "email"},
      {Uq("admin_users", "uq_admin_users_email", {"email"})}),
    Add({Ix("admin_users", "ix_admin_users_email", {"email"})})>>,
  <<Drop("index", "admin_users", "ix_admin_users_email"), DropTable("admin_users")>>)

UqEmail == Uq("participants", "uq_participants_email", {"email"})

(* f3a9b2c1d4e5 *)
ParticipantUserId == Revision({"MergeAdmin"},
  <<AddCol("participants", "user_id"),
    Drop("unique", "participants", UqEmail.name),
    Drop("index", "participants", "ix_participants_role"),
    Add({Uq("participants", "uq_participants_email_role", {"email", "role"})}),
    Add({Uq("participants", "uq_participants_user_id", {"user_id"})}),
    Add({Ix("participants", "ix_participants_user_id", {"user_id"})})>>,
  <<Drop("index", "participants", "ix_participants_user_id"),
    Drop("unique", "participants", "uq_participants_user_id"),
    Drop("unique", "participants", "uq_participants_email_role"),
    Add({Ix("participants", "ix_participants_role", {"role"})}),
    Add({UqEmail}),
    DropCol("participants", "user_id")>>)

(* 28bba7523965, which replaces each of these columns by another.  Its steps   *)
(* are in its order but for the unique constraint of the links, which it drops *)
(* and adds next to that table's column.                                       *)
ParticipantColumns ==
  <<<<"bookings", "current_organizer_participant_ref_id">>,
    <<"bookings", "current_client_participant_ref_id">>,
    <<"booking_organizer_history", "organizer_participant_ref_id">>,
    <<"booking_meeting_links", "participant_ref_id">>,
    <<"booking_email_notifications", "participant_ref_id">>,
    <<"booking_telegram_notifications", "participant_ref_id">>,
    <<"booking_chat_events", "participant_ref_id">>,
    <<"booking_video_events", "participant_ref_id">>>>

UserColumns ==
  <<<<"bookings", "organizer_user_id">>, <<"bookings", "client_user_id">>,
    <<"booking_organizer_history", "organizer_user_id">>,
    <<"booking_meeting_links", "user_id">>,
    <<"booking_email_notifications", "user_id">>,
    <<"booking_telegram_notifications", "user_id">>,
    <<"booking_chat_events", "user_id">>,
    <<"booking_video_events", "user_id">>>>

ForEach(op(_, _), columns) == [i \in DOMAIN columns |-> op(columns[i][1], columns[i][2])]

UqLinkUser == Uq("booking_meeting_links", "uq_bml_booking_ref_id_user_id",
                 {"booking_ref_id", "user_id"})

DropFk(t, c) == Drop("fk", t, c)
ToParticipants(t, c) == Add({Fk(t, c, "participants")})

RestoreParticipants ==
  <<CreateTable("participants", {"user_id", "email", "role"},
      {Uq("participants", "uq_participants_email_role", {"email", "role"}),
       Uq("participants", "uq_participants_user_id", {"user_id"})}),
    Add({Ix("participants", "ix_participants_user_id", {"user_id"})}),
    Drop("unique", "booking_meeting_links", UqLinkUser.name)>>
  \o ForEach(DropCol, UserColumns)
  \o ForEach(AddCol, ParticipantColumns)
  \o ForEach(ToParticipants, ParticipantColumns)
  \o <<Add({UqLinkParticipant})>>

(* Bug: the table goes before the foreign keys to it. *)
DropParticipantsFirst == Revision({"ParticipantUserId"},
  <<Drop("index", "participants", "ix_participants_user_id"), DropTable("participants"),
    Drop("unique", "booking_meeting_links", UqLinkParticipant.name)>>
    \o ForEach(DropCol, ParticipantColumns)
    \o ForEach(AddCol, UserColumns) \o <<Add({UqLinkUser})>>,
  RestoreParticipants)

RemoveParticipants == Revision({"ParticipantUserId"},
  ForEach(DropFk, ParticipantColumns)
    \o <<Drop("unique", "booking_meeting_links", UqLinkParticipant.name)>>
    \o ForEach(DropCol, ParticipantColumns)
    \o ForEach(AddCol, UserColumns) \o <<Add({UqLinkUser})>>
    \o <<Drop("index", "participants", "ix_participants_user_id"), DropTable("participants")>>,
  RestoreParticipants)

(* a1b2c3d4e5f6 *)
RecipientEmail == Revision({"RemoveParticipants"},
  <<AddCol("booking_email_notifications", "recipient_email"),
    AddCol("booking_telegram_notifications", "recipient_email")>>,
  <<DropCol("booking_telegram_notifications", "recipient_email"),
    DropCol("booking_email_notifications", "recipient_email")>>)

(* Bug: a merge revision where a9d4c1f0b7e2 should be. *)
KeepHashIndex == Revision({"MergeRecipients"}, <<>>, <<>>)

(* a9d4c1f0b7e2 *)
DropHashIndex == Revision({"MergeRecipients"},
  <<Drop("unique index", "events", UqHash.name)>>,
  <<Add({UqHash})>>)

(* d8f2a6c41b39 *)
Blacklist == Revision({"DropHashIndex"},
  <<CreateTable("blacklist_entries", {"id", "field", "value"}, {}),
    Add({Ix("blacklist_entries", "ix_blacklist_entries_field_lower_value", {"field", "value"})})>>,
  <<Drop("index", "blacklist_entries", "ix_blacklist_entries_field_lower_value"),
    DropTable("blacklist_entries")>>)

MergeAdmin == Merge({"Tracing", "AdminUsers"})                    \* 89ec847d44a9
MergeLifecycle == Merge({"RemoveParticipants", "AddLifecycle"})   \* 2af87f34c2ff
MergeRecipients == Merge({"MergeLifecycle", "RecipientEmail"})    \* 16939138e5a7

Rev ==
  [CreateEvents |-> CreateEvents, AddHash |-> AddHash, NullableBookingId |-> NullableBookingId,
   AddProjections |-> AddProjections, EmailsWithoutRole |-> EmailsWithoutRole,
   LinksByParticipant |-> LinksByParticipant, TelegramsWithoutRole |-> TelegramsWithoutRole,
   ChatIsRead |-> ChatIsRead, ChatUpdatedAt |-> ChatUpdatedAt, AddLifecycle |-> AddLifecycle,
   BookingTimes |-> BookingTimes, Tracing |-> Tracing, AdminUsers |-> AdminUsers,
   MergeAdmin |-> MergeAdmin, ParticipantUserId |-> ParticipantUserId,
   RemoveParticipants |-> RemoveParticipants, RecipientEmail |-> RecipientEmail,
   MergeLifecycle |-> MergeLifecycle, MergeRecipients |-> MergeRecipients,
   DropHashIndex |-> DropHashIndex, Blacklist |-> Blacklist]

Revisions == DOMAIN Rev

-----------------------------------------------------------------------------
(* Rows that contradict an item, and so cannot be there with it; or, of       *)
(* "links", any row of a table that cannot be given a NOT NULL column.        *)
(* duplicates: events equal in booking, type, source and payload; unbooked: a *)
(* NULL booking_id; twoRoles: two links of a booking for one participant;     *)
(* sameEmail: participants who differ in their role.                          *)
Fact ==
  [duplicates |-> [table |-> "events", on |-> {}, against |-> UqHash],
   unbooked |-> [table |-> "events", on |-> {"booking_id"},
                 against |-> NotNull("events", "booking_id")],
   twoRoles |-> [table |-> "booking_meeting_links", on |-> {"participant_ref_id"},
                 against |-> UqLinkParticipant],
   links |-> [table |-> "booking_meeting_links", on |-> {},
              against |-> NotNull("booking_meeting_links", "recipient_role")],
   sameEmail |-> [table |-> "participants", on |-> {"role"}, against |-> UqEmail]]

Facts == DOMAIN Fact

(* A database as a command sees it; fate is "broken" when an operation does   *)
(* not fit the schema, "blocked" when it does not fit the rows.               *)
Has(schema, id) == \E i \in schema : Id(i) = id
HasCol(schema, t, c) == Has(schema, <<"column", t, c>>)

Fits(items, schema) ==
  /\ \A i \in items : /\ ~Has(schema, Id(i))
                      /\ Tbl(i.table) \in schema \union items
                      /\ \A c \in i.on : HasCol(schema \union items, i.table, c)
                      /\ i.ref # None => Tbl(i.ref) \in schema

Droppable(id, schema) ==
  /\ Has(schema, id)
  /\ id[1] = "table" => \A i \in schema : i.ref = id[2] => i.table = id[2]

(* What goes when id is dropped: all of a table, and what is on a column. *)
GoesWith(id, i) == \/ Id(i) = id
                   \/ id[1] = "table" /\ i.table = id[2]
                   \/ id[1] = "column" /\ i.table = id[2] /\ id[3] \in i.on

Describable(f, schema) == /\ Tbl(Fact[f].table) \in schema
                          /\ \A c \in Fact[f].on : HasCol(schema, Fact[f].table, c)

Apply(db, op) ==
  IF db.fate # "fine" THEN db
  ELSE CASE op.do = "delete" -> [db EXCEPT !.rows = @ \ {op.fact}]
         [] op.do = "add" ->
              IF ~Fits(op.items, db.schema) THEN [db EXCEPT !.fate = "broken"]
              ELSE IF \E f \in db.rows : Fact[f].against \in op.items
                   THEN [db EXCEPT !.fate = "blocked"]
              ELSE [db EXCEPT !.schema = @ \union op.items]
         [] OTHER ->   \* a drop
              IF ~Droppable(op.id, db.schema) THEN [db EXCEPT !.fate = "broken"]
              ELSE LET rest == {i \in db.schema : ~GoesWith(op.id, i)}
                   IN  [db EXCEPT !.schema = rest, !.rows = {f \in @ : Describable(f, rest)}]

(* One operation after the other. *)
Run(ops, schema, rows) ==
  LET after[i \in 0..Len(ops)] ==
        IF i = 0 THEN [fate |-> "fine", schema |-> schema, rows |-> rows]
        ELSE Apply(after[i - 1], ops[i])
  IN  after[Len(ops)]

-----------------------------------------------------------------------------
VARIABLES
  applied,   \* the revisions the database is at or past
  schema,
  rows       \* the facts true of its rows

vars == <<applied, schema, rows>>

Init == applied = {} /\ schema = {} /\ rows = {}

Upgradable(r) == r \notin applied /\ Rev[r].after \subseteq applied

(* Bug: a revision undone under those that build on it. *)
DowngradableAlways(r) == r \in applied

Downgradable(r) == r \in applied /\ \A s \in applied : r \notin Rev[s].after

Migrate(ops, revisions) ==
  LET db == Run(ops, schema, rows)
  IN  /\ db.fate = "fine"
      /\ schema' = db.schema /\ rows' = db.rows
      /\ applied' = revisions

Upgrade(r) == Upgradable(r) /\ Migrate(Rev[r].up, applied \union {r})
Downgrade(r) == Downgradable(r) /\ Migrate(Rev[r].down, applied \ {r})

(* The revisions in an order that respects "after". *)
History ==
  <<"CreateEvents", "AddHash", "NullableBookingId", "AddProjections", "EmailsWithoutRole",
    "LinksByParticipant", "TelegramsWithoutRole", "ChatIsRead", "AddLifecycle",
    "ChatUpdatedAt", "BookingTimes", "Tracing", "AdminUsers", "MergeAdmin",
    "ParticipantUserId", "RemoveParticipants", "MergeLifecycle", "RecipientEmail",
    "MergeRecipients", "DropHashIndex", "Blacklist">>

(* The revision files: parents come first, and a step is a list of operations. *)
Operations ==
  [do : {"add"}, items : SUBSET Items] \union [do : {"drop"}, id : Kinds \X STRING \X STRING]
    \union [do : {"delete"}, fact : Facts]

ASSUME HistoryAssumption ==
         /\ {History[i] : i \in DOMAIN History} = Revisions
         /\ \A i \in DOMAIN History :
              Rev[History[i]].after \subseteq {History[j] : j \in 1..(i - 1)}
         /\ \A r \in Revisions : Rev[r].up \in Seq(Operations) /\ Rev[r].down \in Seq(Operations)

(* What the pending ones do, in that order. *)
UpTo(revisions) ==
  FlattenSeq([i \in DOMAIN History |->
                IF History[i] \in revisions THEN Rev[History[i]].up ELSE <<>>])

(* alembic upgrade head, at the start of the container. *)
UpgradeHead == /\ applied # Revisions
               /\ Migrate(UpTo(Revisions \ applied), Revisions)

(* The service of that revision writes rows that make a fact true. *)
Write(f) ==
  /\ f \notin rows /\ Describable(f, schema)
  /\ IF f = "links" THEN TRUE ELSE Fact[f].against \notin schema
  /\ f = "twoRoles" => "links" \in rows
  /\ rows' = rows \union {f}
  /\ UNCHANGED <<applied, schema>>

Next == \/ \E r \in Revisions : Upgrade(r) \/ Downgrade(r)
        \/ UpgradeHead
        \/ \E f \in Facts : Write(f)

Spec == Init /\ [][Next]_vars

-----------------------------------------------------------------------------
(* Properties. *)

TypeOK ==
  /\ applied \subseteq Revisions /\ \A r \in applied : Rev[r].after \subseteq applied
  /\ rows \subseteq Facts
  /\ \A f \in rows \ {"links"} : Describable(f, schema) /\ Fact[f].against \notin schema

(* No step up or down ever meets a schema its operations do not fit, in       *)
(* whichever order the branches went up and down before: nothing is created   *)
(* twice, dropped when absent, or dropped from under a foreign key.           *)
NothingBroken ==
  \A r \in Revisions :
    /\ Upgradable(r) => Run(Rev[r].up, schema, rows).fate # "broken"
    /\ Downgradable(r) => Run(Rev[r].down, schema, rows).fate # "broken"

(* 28bba7523965 restores these columns as nullable: "we can't restore data".  *)
Unrestored ==
  {NotNull("booking_organizer_history", "organizer_participant_ref_id"),
   NotNull("booking_meeting_links", "participant_ref_id")}

(* A schema is what its revisions make it, and not of the way that led there: *)
(* every downgrade undoes its upgrade, but for the two nullable columns.      *)
SchemaOfItsRevisions ==
  schema \ Unrestored = Run(UpTo(applied), {}, {}).schema \ Unrestored

(* alembic upgrade head, and so the start of the container, succeeds from any *)
(* database an operator and the service may have left behind, except when     *)
(* one participant had two links of one booking before 4c0ec66f1c56.          *)
HeadReachable ==
  Run(UpTo(Revisions \ applied), schema, rows).fate = "fine" \/ "twoRoles" \in rows

(* The conflict targets that the code's statements name. *)
ConflictTargets ==
  {<<"bookings", {"booking_uid"}>>,
   <<"booking_meeting_links", {"booking_ref_id", "user_id"}>>,
   <<"booking_email_notifications", {"job_id"}>>,
   <<"booking_email_status_history", {"source_event_id"}>>,
   <<"booking_telegram_notifications", {"source_event_id"}>>,
   <<"booking_chat_events", {"raw_event_id"}>>,
   <<"booking_video_events", {"raw_event_id"}>>,
   <<"booking_lifecycle_events", {"raw_event_id"}>>}

UniqueOn(t) == {i.on : i \in {j \in schema : j.table = t /\ j.kind \in {"unique", "unique index"}}}

(* At head every ON CONFLICT (columns) finds its unique index, without which  *)
(* PostgreSQL refuses the statement; and events is unique in its id and       *)
(* idempotency key alone, as its insert takes any conflict for a duplicate.   *)
HeadServesTheCode ==
  applied = Revisions =>
    /\ \A target \in ConflictTargets : target[2] \in UniqueOn(target[1])
    /\ UniqueOn("events") = {{"event_id"}, {"idempotency_key"}}
=============================================================================
