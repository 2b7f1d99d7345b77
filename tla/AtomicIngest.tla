---------------------------- MODULE AtomicIngest ----------------------------
(***************************************************************************)
(* What concurrent ingestion promises a reader of the bookings tables: each *)
(* event takes effect in one step, wholly or not at all, once, on the       *)
(* tables as the events before it left them.  One liberty is left: an event *)
(* may act as if the booking were not there yet, having looked too early.   *)
(*                                                                          *)
(* The statements of IngestTransaction and the whole transactions of        *)
(* ReadModel both implement this specification (their Atomic).              *)
(***************************************************************************)
CONSTANTS Events,               \* the events that arrive
          OnBooking(_),         \* the event is about the booking
          Empty,                \* the tables before any event
          Ingested(_, _, _),    \* tables, event, found -> the tables afterwards
          Fails(_, _)           \* event, found: a statement raises for good

VARIABLES table,                \* the booking's row and its organizer history
          ended                 \* what became of each event

vars == <<table, ended>>

Init == /\ table = Empty
        /\ ended = [e \in Events |-> "open"]

(* What looking for the booking may have answered. *)
Answers == {table.booking.exists, FALSE}

Ingest(e) == /\ ended[e] = "open"
             /\ ended' = [ended EXCEPT ![e] = "done"]
             /\ \/ ~OnBooking(e) /\ UNCHANGED table
                \/ /\ OnBooking(e)
                   /\ \E found \in Answers : /\ ~Fails(e, found)
                                             /\ table' = Ingested(table, e, found)

(* An event whose transaction meets an error that is not retried, its own or  *)
(* the database's, leaves no trace.                                           *)
Reject(e) == /\ ended[e] = "open"
             /\ ended' = [ended EXCEPT ![e] = "rejected"]
             /\ UNCHANGED table

Next == \E e \in Events : Ingest(e) \/ Reject(e)

Spec == Init /\ [][Next]_vars
=============================================================================
