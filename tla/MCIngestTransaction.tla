------------------------ MODULE MCIngestTransaction ------------------------
(* The first events of a booking, all in flight at once: its creation, a      *)
(* reassignment, a client reassignment, a conference event of another queue   *)
(* that names another organizer, a link event whose projection raises, and an *)
(* event that is about no booking.                                            *)
EXTENDS IngestTransaction

Base == [type |-> "", source |-> "booking", queue |-> "lifecycle", booking |-> TRUE,
         at |-> 0, org |-> Null, cli |-> Null, newCli |-> Null, start |-> Null,
         role |-> Null, stream |-> Null, url |-> Null, job |-> Null, status |-> Null,
         email |-> Null, clicked |-> Null, msg |-> Null, lastRead |-> Null]

MCEv ==
  [created   |-> [Base EXCEPT !.type = "booking.created", !.at = 1, !.org = "A",
                              !.cli = "X", !.start = 10],
   toB       |-> [Base EXCEPT !.type = "booking.reassigned", !.at = 3, !.org = "B"],
   newClient |-> [Base EXCEPT !.type = "booking.client_reassigned", !.at = 2, !.newCli = "Y"],
   joined    |-> [Base EXCEPT !.type = "jitsi.conference.joined", !.queue = "other",
                              !.source = "jitsi", !.at = 4, !.org = "C"],
   badLink   |-> [Base EXCEPT !.type = "meeting.url_created", !.queue = "other",
                              !.at = 5, !.org = "A"],
   unbooked  |-> [Base EXCEPT !.type = "user.created", !.queue = "other",
                              !.booking = FALSE]]

MCEvents == DOMAIN MCEv
=============================================================================
