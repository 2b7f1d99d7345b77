---------------------------- MODULE MCReadModel ----------------------------
(* Small instances of ReadModel: the events of one booking's life, its        *)
(* e-mails, its meeting links and its chat.  Every arrival order of each is   *)
(* explored, and every moment a receipt or a deletion may begin.              *)
EXTENDS ReadModel, TLC

Base == [type |-> "", source |-> "booking", queue |-> "other", booking |-> TRUE,
         at |-> 0, org |-> Null, cli |-> Null, newCli |-> Null, start |-> Null,
         role |-> Null, stream |-> Null, url |-> Null, job |-> Null, status |-> Null,
         email |-> Null, clicked |-> Null, msg |-> Null, lastRead |-> Null]

Life == [Base EXCEPT !.queue = "lifecycle"]

(* A is the organizer, then B, then A again, then C, and it starts later; X   *)
(* is the client, then Y.                                                     *)
(* The conference is joined before the booking's first event occurred.        *)
BookingEv ==
  [created    |-> [Life EXCEPT !.type = "booking.created", !.at = 2, !.org = "A",
                               !.cli = "X", !.start = 10],
   toB        |-> [Life EXCEPT !.type = "booking.reassigned", !.at = 3, !.org = "B", !.cli = "X"],
   backToA    |-> [Life EXCEPT !.type = "booking.reassigned", !.at = 4, !.org = "A", !.cli = "X"],
   toC        |-> [Life EXCEPT !.type = "booking.reassigned", !.at = 5, !.org = "C", !.cli = "X",
                               !.start = 11],
   cancelled  |-> [Life EXCEPT !.type = "booking.cancelled", !.at = 6],
   newClient  |-> [Life EXCEPT !.type = "booking.client_reassigned", !.at = 4, !.newCli = "Y"],
   joined     |-> [Base EXCEPT !.type = "jitsi.conference.joined", !.source = "jitsi",
                               !.at = 7, !.org = "B", !.role = "organizer"]]

Mail == [Base EXCEPT !.source = "notifier", !.role = "client"]
Status == [Mail EXCEPT !.type = "unisender.events.v1.transactional.status.create", !.job = "j"]

MailEv ==
  [sent       |-> [Mail EXCEPT !.type = "notification.email.message_sent", !.at = 1,
                               !.job = "j", !.email = "x@", !.cli = "X"],
   opened     |-> [Status EXCEPT !.at = 3, !.status = "opened"],
   clicked    |-> [Status EXCEPT !.at = 4, !.status = "clicked", !.clicked = "u", !.email = "y@"],
   jobless    |-> [Status EXCEPT !.at = 5, !.status = "opened", !.job = Null],
   telegram   |-> [Mail EXCEPT !.type = "notification.telegram.message_sent", !.at = 2]]

(* A's link is created, replaced and twice deleted; X's is created by an      *)
(* event without organizer; one event has no url.                             *)
Meeting == [Base EXCEPT !.type = "meeting.url_created", !.at = 1]
Unlink == [Base EXCEPT !.type = "meeting.url_deleted", !.at = 2]

MeetingEv ==
  [linked     |-> [Meeting EXCEPT !.org = "A", !.cli = "X", !.url = "l1"],
   relinked   |-> [Meeting EXCEPT !.org = "A", !.url = "l2"],
   linkedX    |-> [Meeting EXCEPT !.cli = "X", !.url = "l3"],
   unlinked   |-> [Unlink EXCEPT !.org = "A"],
   unlinked2  |-> [Unlink EXCEPT !.org = "A"],
   noUrl      |-> [Meeting EXCEPT !.cli = "X"]]

Chat(type, at) == [Base EXCEPT !.source = "getstream", !.stream = type, !.at = at,
                               !.type = IF type = "message.new" THEN "getstream.message.new"
                                        ELSE "getstream.message.read"]
ByClient(type, at) == [Chat(type, at) EXCEPT !.role = "client", !.cli = "X"]
ByOrganizer(type, at) == [Chat(type, at) EXCEPT !.role = "organizer", !.org = "A"]

(* The author of anonymous is not resolved and the payload of untyped does    *)
(* not name its type.                                                         *)
ChatEv ==
  [hello      |-> [ByClient("message.new", 1) EXCEPT !.msg = "m1"],
   answer     |-> [ByOrganizer("message.new", 2) EXCEPT !.msg = "m2"],
   anonymous  |-> [Chat("message.new", 3) EXCEPT !.msg = "m3", !.role = "client"],
   untyped    |-> [ByClient("message.new", 1) EXCEPT !.msg = "m4", !.stream = Null],
   readByOrg  |-> [ByOrganizer("message.read", 3) EXCEPT !.lastRead = "m3"],
   readByCli  |-> ByClient("message.read", 2)]

(* A malformed receipt, and an event that is about no booking. *)
OddEv ==
  [badReceipt |-> [ByClient("message.read", 4) EXCEPT !.lastRead = Malformed],
   unbooked   |-> [Base EXCEPT !.type = "chat.created", !.at = 1, !.booking = FALSE]]

MCEv == BookingEv @@ MailEv @@ MeetingEv @@ ChatEv @@ OddEv
MCEvents == DOMAIN MCEv
MCLives == {DOMAIN BookingEv, DOMAIN MailEv \union DOMAIN OddEv, DOMAIN MeetingEv,
            DOMAIN ChatEv}
=============================================================================
