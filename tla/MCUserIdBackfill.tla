-------------------------- MODULE MCUserIdBackfill --------------------------
(* Bookings that stay incomplete, as nobody is ever named as the client of    *)
(* the first or, in Reassigned, as the organizer of the second; people who    *)
(* take part in two bookings.  The third booking, in Reassigned, comes to be  *)
(* by an event of another queue that names x, or by the one that gives it z   *)
(* as client, by id alone.                                                    *)
EXTENDS UserIdBackfill

Of3(b, queue, at, org, cli) ==
  [booking |-> b, queue |-> queue, at |-> at, organizer |-> org, client |-> cli,
   newCli |-> NoEmail]

MCEv ==
  [one  |-> Of3(1, "lifecycle", 1, "a", NoEmail),
   two  |-> Of3(2, "lifecycle", 1, "a", "x"),
   call |-> Of3(2, "lifecycle", 2, NoEmail, "x"),
   mail |-> Of3(3, "other", 4, NoEmail, "x"),
   toZ  |-> [Of3(3, "lifecycle", 3, "a", NoEmail) EXCEPT !.newCli = "z"]]

Two == {"one", "two"}
Reassigned == {"one", "call", "mail", "toZ"}

MCBookings == {Ev[e].booking : e \in Events}
=============================================================================
