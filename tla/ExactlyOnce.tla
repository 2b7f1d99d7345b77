---------------------------- MODULE ExactlyOnce ----------------------------
(***************************************************************************)
(* What the saver promises for the CloudEvents its queues deliver, with no  *)
(* broker, no handler and no transaction in sight: an event is stored at    *)
(* most once under its event_id and its idempotency key, a message is       *)
(* acknowledged only when its event is stored, and one is dead-lettered     *)
(* only when it can never be stored or the database failed it in a way the  *)
(* saver does not take for temporary.                                       *)
(*                                                                          *)
(* RabbitConsumer implements this specification (RabbitConsumer!Abstract).  *)
(***************************************************************************)
CONSTANTS Messages,             \* the messages published to the saver's queues
          Conflict(_, _),       \* both carry one event_id or one idempotency key
          Storable(_)           \* ingesting the message raises no permanent error

VARIABLES stored,               \* messages whose row is in the events table
          failed,               \* messages the database failed in such a way
          outcome               \* what became of each message

vars == <<stored, failed, outcome>>

Outcomes == {"open", "acked", "dead"}

TypeOK == /\ stored \subseteq Messages
          /\ failed \subseteq Messages
          /\ outcome \in [Messages -> Outcomes]

Init == /\ stored = {}
        /\ failed = {}
        /\ outcome = [m \in Messages |-> "open"]

(* The event of m becomes durable; an event it conflicts with never did. *)
Store(m) == /\ Storable(m)
            /\ \A n \in stored : ~Conflict(m, n)
            /\ stored' = stored \union {m}
            /\ UNCHANGED <<failed, outcome>>

(* m leaves the queue: its event, or one it duplicates, is durable. *)
Settle(m) == /\ outcome[m] = "open"
             /\ \E n \in stored : Conflict(m, n)
             /\ outcome' = [outcome EXCEPT ![m] = "acked"]
             /\ UNCHANGED <<stored, failed>>

(* An attempt to store m ends in a database error that is not retried. *)
Fail(m) == /\ failed' = failed \union {m}
           /\ UNCHANGED <<stored, outcome>>

(* m is given up for good. *)
DeadLetter(m) == /\ outcome[m] = "open"
                 /\ ~Storable(m) \/ m \in failed
                 /\ outcome' = [outcome EXCEPT ![m] = "dead"]
                 /\ UNCHANGED <<stored, failed>>

Next == \E m \in Messages : Store(m) \/ Settle(m) \/ Fail(m) \/ DeadLetter(m)

Spec == Init /\ [][Next]_vars
=============================================================================
