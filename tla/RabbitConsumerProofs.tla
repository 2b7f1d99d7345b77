------------------------ MODULE RabbitConsumerProofs ------------------------
(* Proofs about RabbitConsumer, for every set of messages and handlers, every *)
(* prefetch, number of attempts and number of faults.                         *)
EXTENDS RabbitConsumer, TLAPS

(* An idle task is a task. *)
LEMMA IdleIsTask == Idle \in Tasks /\ Idle.pc = "idle"
  BY ConsumerAssumption DEF Idle, Tasks, Pcs

(* The initial state is well typed. *)
LEMMA InitTyped == Init => TypeOK
  BY ConsumerAssumption, IdleIsTask DEF Init, TypeOK, Places, Busy

(* Every step keeps every variable in its domain. *)
LEMMA TypeStep == TypeOK /\ [Next]_vars => TypeOK'
<1> SUFFICES ASSUME TypeOK, [Next]_vars PROVE TypeOK'
  OBVIOUS
<1> USE ConsumerAssumption DEF TypeOK, Places, Busy, Msg
<1>1. ASSUME NEW t \in Handlers, NEW m \in Messages, Deliver(t, m) PROVE TypeOK'
  BY <1>1 DEF Deliver, Tasks, Pcs
<1>2. ASSUME NEW t \in Handlers, Insert(t) PROVE TypeOK'
  BY <1>2 DEF Insert, Goto, Tasks, Pcs
<1>3. ASSUME NEW t \in Handlers, Project(t) PROVE TypeOK'
  BY <1>3 DEF Project, Goto, Tasks, Pcs
<1>4. ASSUME NEW t \in Handlers, Commit(t) PROVE TypeOK'
  BY <1>4 DEF Commit, MakeDurable, Goto, Tasks, Pcs
<1>5. ASSUME NEW t \in Handlers, CommitDup(t) PROVE TypeOK'
  BY <1>5 DEF CommitDup, Goto, Tasks, Pcs
<1>6. ASSUME NEW t \in Handlers, Retry(t) PROVE TypeOK'
  BY <1>6 DEF Retry, Tasks, Pcs
<1>7. ASSUME NEW t \in Handlers, Ack(t) \/ Nack(t) \/ Reject(t) PROVE TypeOK'
  <2>1. task' = [task EXCEPT ![t] = Idle]
    BY <1>7 DEF Ack, Nack, Reject, Finish
  <2>2. place' \in [Messages -> Places]
    BY <1>7 DEF Ack, Nack, Reject, Finish
  <2>3. UNCHANGED <<rows, applied, unclassed, faults>>
    BY <1>7 DEF Ack, Nack, Reject, Finish
  <2>4. QED
    BY <2>1, <2>2, <2>3, IdleIsTask
<1>8. ASSUME NEW t \in Handlers, TransientError(t) \/ UnclassedError(t) PROVE TypeOK'
  <2>1. CASE TransientError(t)
    BY <2>1 DEF TransientError, InTransaction, Fault, Goto, AfterTransient, Tasks, Pcs
  <2>2. CASE UnclassedError(t)
    BY <2>2 DEF UnclassedError, InTransaction, Fault, Goto, Tasks, Pcs
  <2>3. QED
    BY <1>8, <2>1, <2>2
<1>9. ASSUME NEW t \in Handlers, CommitUnconfirmed(t) PROVE TypeOK'
  BY <1>9 DEF CommitUnconfirmed, MakeDurable, Fault, Goto, AfterTransient, Tasks, Pcs
<1>10. ASSUME NEW t \in Handlers, Cancel(t) PROVE TypeOK'
  BY <1>10, IdleIsTask DEF Cancel
<1>11. CASE ConnectionLost
  <2>1. \A t \in Handlers : [task[t] EXCEPT !.live = FALSE] \in Tasks
    BY DEF Tasks
  <2>2. \A t \in Handlers : task'[t].pc = task[t].pc /\ task'[t].msg = task[t].msg
    BY <1>11 DEF ConnectionLost, Tasks
  <2>3. task' \in [Handlers -> Tasks]
    BY <1>11, <2>1 DEF ConnectionLost
  <2>4. QED
    BY <1>11, <2>2, <2>3 DEF ConnectionLost, Fault, Requeued
<1>12. CASE Crash
  BY <1>12, IdleIsTask DEF Crash, Fault, Requeued
<1>13. CASE UNCHANGED vars
  BY <1>13 DEF vars
<1>14. QED
  BY <1>1, <1>2, <1>3, <1>4, <1>5, <1>6, <1>7, <1>8, <1>9, <1>10, <1>11,
     <1>12, <1>13 DEF Next, Step, Quiescent

(* Every reachable state has the types TypeOK gives: tasks, places and the    *)
(* tables stay inside their domains through every handler step and fault.     *)
THEOREM TypeCorrect == Spec => []TypeOK
  BY InitTyped, TypeStep, PTL DEF Spec

-----------------------------------------------------------------------------
(* Conflicts are symmetric; they are not transitive. *)
LEMMA ConflictSymmetric ==
        \A m, n \in Messages : Conflict(m, m) /\ (Conflict(m, n) => Conflict(n, m))
  BY DEF Conflict

(* The strengthened invariant holds in every reachable state. *)
THEOREM InductiveInvariant == Spec => []IInv
<1>1. Init => IInv
  <2> SUFFICES ASSUME Init PROVE IInv
    OBVIOUS
  <2>1. TypeOK
    BY InitTyped
  <2>2. QED
    BY <2>1 DEF Init, Idle, IInv, LiveOwns, HoldersApart, TaskJustified, UniqueRows,
       AppliedOnce, AckedIsStored, DeadHasCause, Busy, Holds, Stored
<1>2. IInv /\ [Next]_vars => IInv'
  <2> SUFFICES ASSUME IInv, [Next]_vars PROVE IInv'
    OBVIOUS
  <2>0. TypeOK /\ TypeOK'
    BY TypeStep DEF IInv
  <2> USE <2>0, ConflictSymmetric
  <2> USE DEF IInv, LiveOwns, HoldersApart, TaskJustified, UniqueRows, AppliedOnce,
       AckedIsStored, DeadHasCause, Busy, Holds, Msg, Stored, Storable, TypeOK, Tasks
  <2>1. ASSUME NEW t \in Handlers, NEW m \in Messages, Deliver(t, m) PROVE IInv'
    BY <2>1, SMTT(60) DEF Deliver
  <2>2. ASSUME NEW t \in Handlers, Insert(t) PROVE IInv'
    BY <2>2, SMTT(60) DEF Insert, Goto
  <2>3. ASSUME NEW t \in Handlers, Project(t) PROVE IInv'
    <3>1. CASE Kind[Msg(t)] = "badPayload"
      <4>1. Goto(t, "reject")
        BY <2>3, <3>1 DEF Project
      <4>2. QED
        BY <2>3, <3>1, <4>1, SMTT(60) DEF Project, Goto
    <3>2. CASE Kind[Msg(t)] # "badPayload"
      <4>1. Goto(t, "commit") /\ Kind[Msg(t)] = "good"
        BY <2>3, <3>2, ConsumerAssumption DEF Project, Kinds
      <4>2. QED
        BY <2>3, <4>1, SMTT(60) DEF Project, Goto
    <3>3. QED
      BY <3>1, <3>2
  <2>4. ASSUME NEW t \in Handlers, Commit(t) PROVE IInv'
    BY <2>4, SMTT(60) DEF Commit, MakeDurable, Goto
  <2>5. ASSUME NEW t \in Handlers, CommitDup(t) PROVE IInv'
    BY <2>5, SMTT(60) DEF CommitDup, Goto
  <2>6. ASSUME NEW t \in Handlers, Retry(t) PROVE IInv'
    BY <2>6, SMTT(60) DEF Retry
  <2>7. ASSUME NEW t \in Handlers, Ack(t) \/ Nack(t) \/ Reject(t) PROVE IInv'
    <3>1. CASE Ack(t)
      BY <3>1, SMTT(60) DEF Ack, Finish, Idle
    <3>2. CASE Nack(t)
      BY <3>2, SMTT(60) DEF Nack, Finish, Idle
    <3>3. CASE Reject(t)
      BY <3>3, SMTT(60) DEF Reject, Finish, Idle
    <3>4. QED
      BY <2>7, <3>1, <3>2, <3>3
  <2>8. ASSUME NEW t \in Handlers, TransientError(t) PROVE IInv'
    <3>1. PICK pc \in {"backoff", "nack"} : Goto(t, pc)
      BY <2>8 DEF TransientError, AfterTransient
    <3>2. QED
      BY <2>8, <3>1, SMTT(60) DEF TransientError, InTransaction, Goto
  <2>9. ASSUME NEW t \in Handlers, CommitUnconfirmed(t) PROVE IInv'
    BY <2>9, SMTT(60) DEF CommitUnconfirmed, MakeDurable, Fault, Goto, AfterTransient
  <2>10. ASSUME NEW t \in Handlers, Cancel(t) PROVE IInv'
    BY <2>10, SMTT(60) DEF Cancel, Idle
  <2>11. CASE ConnectionLost
    BY <2>11, SMTT(60) DEF ConnectionLost, Fault, Requeued
  <2>12. CASE Crash
    BY <2>12, SMTT(60) DEF Crash, Fault, Requeued, Idle
  <2>13. CASE UNCHANGED vars
    BY <2>13 DEF vars
  <2>14. ASSUME NEW t \in Handlers, UnclassedError(t) PROVE IInv'
    BY <2>14, SMTT(60) DEF UnclassedError, InTransaction, Goto
  <2>15. QED
    BY <2>1, <2>2, <2>3, <2>4, <2>5, <2>6, <2>7, <2>8, <2>9, <2>10, <2>11,
       <2>12, <2>13, <2>14 DEF Next, Step, Quiescent
<1>3. QED
  BY <1>1, <1>2, PTL DEF Spec

-----------------------------------------------------------------------------
(* At most one row per event_id and idempotency key, and the writes of an     *)
(* event applied once, with its row.                                          *)
THEOREM ExactlyOnceStored == Spec => []UniqueRows
<1>1. IInv => UniqueRows
  BY DEF IInv
<1>2. QED
  BY <1>1, InductiveInvariant, PTL

(* The writes that go with an event take effect exactly when its row exists. *)
THEOREM EffectsOnce == Spec => []AppliedOnce
<1>1. IInv => AppliedOnce
  BY DEF IInv
<1>2. QED
  BY <1>1, InductiveInvariant, PTL

(* An acknowledged message has its event, or the one it duplicates, committed. *)
THEOREM NothingLost == Spec => []AckedIsStored
<1>1. IInv => AckedIsStored
  BY DEF IInv
<1>2. QED
  BY <1>1, InductiveInvariant, PTL

(* A storable message is dead-lettered only if one of its attempts met a       *)
(* database error that _is_transient does not know: transient errors, however  *)
(* many, never dead-letter one.                                                *)
THEOREM DeadLetteredForACause == Spec => []DeadHasCause
<1>1. IInv => DeadHasCause
  BY DEF IInv
<1>2. QED
  BY <1>1, InductiveInvariant, PTL

(* The end of a handler settles a message only if the delivery is still the   *)
(* broker's.                                                                  *)
LEMMA FinishSettlesOwn ==
        ASSUME IInv, NEW t \in Handlers, NEW pc, NEW to, pc # "idle",
               Finish(t, pc, to), NEW m \in Messages, place'[m] # place[m]
        PROVE  m = Msg(t) /\ place[m] = "unacked" /\ place'[m] = to
  BY DEF Finish, IInv, TypeOK, LiveOwns, Busy, Msg

(* No step of a task that lost its channel, and no other step, brings a       *)
(* settled message back.                                                      *)
THEOREM SettledStays == Spec => SettledForever
<1> DEFINE Stays == \A m \in Messages :
                      place[m] \in {"acked", "dead"} => place'[m] = place[m]
<1>1. IInv /\ [Next]_vars => [Stays]_place
  <2> SUFFICES ASSUME IInv, [Next]_vars PROVE Stays \/ UNCHANGED place
    OBVIOUS
  <2>1. ASSUME NEW t \in Handlers, NEW m \in Messages, Deliver(t, m) PROVE Stays
    BY <2>1 DEF Deliver, IInv, TypeOK
  <2>2. ASSUME NEW t \in Handlers, Ack(t) \/ Nack(t) \/ Reject(t) PROVE Stays
    BY <2>2, FinishSettlesOwn DEF Ack, Nack, Reject
  <2>3. CASE ConnectionLost \/ Crash
    BY <2>3 DEF ConnectionLost, Crash, Requeued
  <2>4. QED
    BY <2>1, <2>2, <2>3 DEF Next, Step, Quiescent, vars, Insert, Project, Commit,
       CommitDup, Retry, TransientError, UnclassedError, CommitUnconfirmed, Cancel
<1>2. QED
  BY <1>1, InductiveInvariant, PTL DEF Spec, SettledForever

-----------------------------------------------------------------------------
(* RabbitConsumer implements ExactlyOnce: a commit stores, an ack that        *)
(* arrives settles, a reject that arrives dead-letters, an error that is not  *)
(* retried is noted, and every other step, faults included, changes nothing   *)
(* the abstract specification sees.                                           *)
THEOREM ImplementsExactlyOnce == Spec => Abstract
<1> DEFINE Outcome == [m \in Messages |-> IF place[m] \in {"acked", "dead"}
                                          THEN place[m] ELSE "open"]
<1>1. Init => Abs!Init
  BY DEF Init, Abs!Init
<1>2. IInv /\ [Next]_vars => [Abs!Next]_(Abs!vars)
  <2> SUFFICES ASSUME IInv, [Next]_vars PROVE Abs!Next \/ UNCHANGED Abs!vars
    OBVIOUS
  <2> USE DEF Abs!vars
  <2>1. ASSUME NEW t \in Handlers, NEW m \in Messages, Deliver(t, m)
        PROVE  UNCHANGED Abs!vars
    BY <2>1 DEF Deliver, IInv, TypeOK
  <2>2. ASSUME NEW t \in Handlers, Commit(t) \/ CommitUnconfirmed(t)
        PROVE  Abs!Next
    <3>1. Msg(t) \in Messages /\ Storable(Msg(t))
      BY <2>2 DEF Commit, CommitUnconfirmed, IInv, TypeOK, TaskJustified, Busy
    <3>2. \A n \in rows : ~Conflict(Msg(t), n)
      BY <2>2 DEF Commit, CommitUnconfirmed, IInv, HoldersApart, Holds, Stored
    <3>3. Abs!Store(Msg(t))
      BY <2>2, <3>1, <3>2 DEF Commit, CommitUnconfirmed, MakeDurable, Abs!Store
    <3>4. QED
      BY <3>1, <3>3 DEF Abs!Next
  <2>3. ASSUME NEW t \in Handlers, Ack(t) PROVE Abs!Next \/ UNCHANGED Abs!vars
    <3>1. Msg(t) \in Messages /\ Stored(Msg(t))
      BY <2>3 DEF Ack, Finish, IInv, TypeOK, TaskJustified, Busy
    <3>2. CASE task[t].live
      <4>1. place[Msg(t)] = "unacked" /\ place' = [place EXCEPT ![Msg(t)] = "acked"]
        BY <2>3, <3>2 DEF Ack, Finish, IInv, LiveOwns, Busy
      <4>2. Outcome' = [Outcome EXCEPT ![Msg(t)] = "acked"] /\ Outcome[Msg(t)] = "open"
        BY <3>1, <4>1 DEF IInv, TypeOK
      <4>3. UNCHANGED <<rows, unclassed>>
        BY <2>3 DEF Ack, Finish
      <4>4. Abs!Next
        BY <3>1, <4>2, <4>3 DEF Abs!Next, Abs!Settle, Stored
      <4>5. QED
        BY <4>4
    <3>3. CASE ~task[t].live
      BY <2>3, <3>3 DEF Ack, Finish
    <3>4. QED
      BY <3>2, <3>3
  <2>4. ASSUME NEW t \in Handlers, Nack(t) PROVE UNCHANGED Abs!vars
    BY <2>4 DEF Nack, Finish, IInv, TypeOK, LiveOwns, Busy
  <2>5. ASSUME NEW t \in Handlers, Reject(t) PROVE Abs!Next \/ UNCHANGED Abs!vars
    <3>1. Msg(t) \in Messages /\ (~Storable(Msg(t)) \/ Msg(t) \in unclassed)
      BY <2>5 DEF Reject, Finish, IInv, TypeOK, TaskJustified, Busy
    <3>2. CASE task[t].live
      <4>1. place[Msg(t)] = "unacked" /\ place' = [place EXCEPT ![Msg(t)] = "dead"]
        BY <2>5, <3>2 DEF Reject, Finish, IInv, LiveOwns, Busy
      <4>2. Outcome' = [Outcome EXCEPT ![Msg(t)] = "dead"] /\ Outcome[Msg(t)] = "open"
        BY <3>1, <4>1 DEF IInv, TypeOK
      <4>3. UNCHANGED <<rows, unclassed>>
        BY <2>5 DEF Reject, Finish
      <4>4. Abs!Next
        BY <3>1, <4>2, <4>3 DEF Abs!Next, Abs!DeadLetter
      <4>5. QED
        BY <4>4
    <3>3. CASE ~task[t].live
      BY <2>5, <3>3 DEF Reject, Finish
    <3>4. QED
      BY <3>2, <3>3
  <2>6. CASE ConnectionLost \/ Crash
    BY <2>6 DEF ConnectionLost, Crash, Requeued, IInv, TypeOK
  <2>7. ASSUME NEW t \in Handlers, UnclassedError(t) PROVE Abs!Next
    <3>1. Msg(t) \in Messages
      BY <2>7 DEF UnclassedError, InTransaction, IInv, TypeOK, Busy
    <3>2. Abs!Fail(Msg(t))
      BY <2>7 DEF UnclassedError, Abs!Fail
    <3>3. QED
      BY <3>1, <3>2 DEF Abs!Next
  <2>8. QED
    BY <2>1, <2>2, <2>3, <2>4, <2>5, <2>6, <2>7 DEF Next, Step, Quiescent, vars, Insert,
       Project, CommitDup, Retry, TransientError, Cancel
<1>3. QED
  BY <1>1, <1>2, InductiveInvariant, PTL DEF Spec, Abstract, Abs!Spec
=============================================================================
