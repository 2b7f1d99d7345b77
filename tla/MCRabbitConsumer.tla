-------------------------- MODULE MCRabbitConsumer --------------------------
(* A small instance of RabbitConsumer: a good event and its re-publication   *)
(* under a new id and the same idempotency key, a poison message that reuses *)
(* the first one's event_id, and, in the larger instance, an unparsable one. *)
EXTENDS RabbitConsumer

CONSTANTS m1, m2, m3, m4, h1, h2, h3

MCMessages3 == {m1, m2, m3}
MCMessages4 == {m1, m2, m3, m4}
MCHandlers2 == {h1, h2}
MCHandlers3 == {h1, h2, h3}

MCEventId == [m \in Messages |-> CASE m = m1 -> "e1" [] m = m2 -> "e2"
                                   [] m = m3 -> "e1" [] OTHER -> "e4"]
MCIdemKey == [m \in Messages |-> IF m \in {m1, m2} THEN "k1" ELSE NoKey]
MCKind == [m \in Messages |-> CASE m = m3 -> "badPayload"
                                [] m = m4 -> "unparsable" [] OTHER -> "good"]

=============================================================================
