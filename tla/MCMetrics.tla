----------------------------- MODULE MCMetrics -----------------------------
(* The instance of MCRabbitConsumer, all of its good messages lifecycle       *)
(* events.                                                                    *)
EXTENDS Metrics, MCRabbitConsumer

MCLifecycle == {m1, m2}
=============================================================================
