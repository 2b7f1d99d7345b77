----------------------------- MODULE MCService -----------------------------
(* Two queues with a window of one and a pool of two connections: two         *)
(* handlers, the cycle and the probe want more than there are.  The first     *)
(* message upserts one booking, the second is poison and takes no row, the    *)
(* third is a user.synced that updates both bookings.                         *)
EXTENDS Service

CONSTANTS m1, m2, m3, q1, q2, b1, b2

MCMessages == {m1, m2, m3}
MCQueues == {q1, q2}
MCBookings == {b1, b2}

MCQueueOf == [m \in Messages |-> IF m = m1 THEN q1 ELSE q2]
MCRowsOf == [m \in Messages |-> CASE m = m1 -> {b1} [] m = m3 -> {b1, b2} [] OTHER -> {}]
MCPoison == {m2}
=============================================================================
