--------------------------- MODULE UserIdBackfill ---------------------------
(***************************************************************************)
(* How the participant ids that ingress could not resolve reach the         *)
(* bookings: the periodic cycle of UserIdBackfillService, one transaction   *)
(* that asks event-users over HTTP between its statements, and the          *)
(* user.synced events, each a transaction that updates every booking of an  *)
(* identity.  Both contend with ingestion, and with each other, for the     *)
(* rows of bookings.                                                        *)
(***************************************************************************)
EXTENDS Naturals, FiniteSets, SequencesExt

CONSTANTS
  Bookings,    \* ids of the bookings rows, smallest first seen
  Events,      \* events that name participants
  Ev,          \* [Events -> [booking, queue, at, organizer, client, newCli]]
  NoEmail,     \* the event names no one in that role, or no address
  Null,        \* SQL NULL
  Cycle,       \* the cycle's transaction, as a holder of row locks
  Batch,       \* user_id_backfill_batch_size
  Broken,      \* identities event-users answers neither 200 nor 404 for
  MaxFaults    \* bound: event-users outages and lost transactions

Roles == {"organizer", "client"}

(* An identity is what event-users knows a user by, [email, role]; it also    *)
(* stands for the user's id.                                                  *)
Identity(email, r) == [email |-> email, role |-> r]

(* organizer and client are the participants' e-mails.  newCli is that of the *)
(* user whose id is new_client_user_id, which the event need not list.        *)
Shows(e, r) == Identity(Ev[e][r], r)
NewClient(e) == Identity(Ev[e].newCli, "client")
Gives(e, r) == {Shows(e, r)} \union (IF r = "client" THEN {NewClient(e)} ELSE {})

Identities == (UNION {Gives(e, r) : e \in Events, r \in Roles})
                \ {Identity(NoEmail, r) : r \in Roles}

Slots == Bookings \X Roles

ASSUME BackfillAssumption ==
         /\ Bookings \subseteq Nat /\ IsFiniteSet(Bookings)
         /\ Batch \in Nat \ {0}
         /\ MaxFaults \in Nat
         /\ Broken \subseteq Identities
         /\ Null \notin Identities /\ Cycle \notin Identities /\ Null # Cycle
         /\ \A e \in Events : Ev[e].booking \in Bookings /\ Ev[e].at \in Nat

VARIABLES
  stored,      \* the events committed so far
  ids,         \* committed organizer_user_id and client_user_id, per slot
  directory,   \* the identities event-users has a user for
  lock,        \* who has a booking's row locked: Cycle, an identity, or Null
  cycle,       \* the transaction of the periodic cycle
  synced,      \* the user.synced event of each identity and its transaction
  faults

vars == <<stored, ids, directory, lock, cycle, synced, faults>>

(* todo: slots still to look at.  cache: what event-users answered.  work:    *)
(* the ids written and not committed.                                         *)
Asleep == [pc |-> "idle", todo |-> <<>>, asking |-> Null,
           cache |-> [i \in Identities |-> "unasked"], work |-> [s \in Slots |-> Null]]

Unsynced == [pc |-> "absent", todo |-> <<>>]

Init ==
  /\ stored = {}
  /\ ids = [s \in Slots |-> Null]
  /\ directory = {}
  /\ lock = [b \in Bookings |-> Null]
  /\ cycle = Asleep
  /\ synced = [i \in Identities |-> Unsynced]
  /\ faults = 0

Of(b) == {e \in stored : Ev[e].booking = b}
Present(b) == Of(b) # {}

(* Every stored event that names someone in the slot's role. *)
Naming(s) == {e \in Of(s[1]) : Ev[e][s[2]] # NoEmail}

(* ORDER BY occurred_at DESC LIMIT 1: of two with one time, either. *)
IsLatest(e, s) == e \in Naming(s) /\ \A f \in Naming(s) : Ev[f].at <= Ev[e].at

Fault == faults < MaxFaults /\ faults' = faults + 1

-----------------------------------------------------------------------------
(* Ingestion: a committed transaction of IngestTransaction.                  *)

(* The ids an event may bring: event-receiver resolved some of the            *)
(* participants event-users knew; update_client takes new_client_user_id,     *)
(* which is one of event-users' ids, whatever the participants say.           *)
Resolved(e) ==
  {given \in [Roles -> directory \union {Null}] :
     \A r \in Roles : IF r = "client" /\ Ev[e].newCli # NoEmail
                      THEN given[r] = NewClient(e)
                      ELSE given[r] \in {Shows(e, r), Null}}

(* An event of another queue may have looked for the booking too early.       *)
Ingest(e) ==
  LET b == Ev[e].booking
  IN  /\ e \notin stored
      /\ stored' = stored \union {e}
      /\ \E found \in {Present(b), FALSE}, given \in Resolved(e) :
           LET upserts == Ev[e].queue = "lifecycle" \/ ~found
           IN  /\ upserts => lock[b] = Null
               /\ ids' = [s \in Slots |-> IF upserts /\ s[1] = b /\ given[s[2]] # Null
                                         THEN given[s[2]] ELSE ids[s]]
      /\ UNCHANGED <<directory, lock, cycle, synced, faults>>

(* event-users gets to know a user, and user.synced is published. *)
Learn(i) ==
  /\ i \notin directory
  /\ directory' = directory \union {i}
  /\ synced' = [synced EXCEPT ![i].pc = "queued"]
  /\ UNCHANGED <<stored, ids, lock, cycle, faults>>

-----------------------------------------------------------------------------
(* The cycle.                                                                *)

Incomplete == {b \in Bookings : Present(b) /\ \E r \in Roles : ids[<<b, r>>] = Null}

(* Bug: one booking too few. *)
CandidatesOffByOne ==
  {b \in Incomplete : Cardinality({c \in Incomplete : c < b}) < Batch - 1}

(* The first Batch of them by id. *)
Candidates == {b \in Incomplete : Cardinality({c \in Incomplete : c < b}) < Batch}

(* Their NULL columns as the SELECT saw them. *)
Unresolved == {s \in Slots : s[1] \in Candidates /\ ids[s] = Null}

Before(s, t) == \/ s[1] < t[1]
                \/ s[1] = t[1] /\ s[2] = "organizer" /\ t[2] = "client"

Begin ==
  /\ cycle.pc = "idle"
  /\ Unresolved # {}
  /\ \E todo \in SetToSeqs(Unresolved) :
       /\ \A i, j \in DOMAIN todo : i < j => Before(todo[i], todo[j])
       /\ cycle' = [Asleep EXCEPT !.pc = "slot", !.todo = todo]
  /\ UNCHANGED <<stored, ids, directory, lock, synced, faults>>

Slot == Head(cycle.todo)
Skipped == [cycle EXCEPT !.pc = "slot", !.todo = Tail(@), !.asking = Null]

(* _SELECT_LATEST_EMAIL, then the cache. *)
ReadEmail ==
  /\ cycle.pc = "slot" /\ cycle.todo # <<>>
  /\ \/ Naming(Slot) = {} /\ cycle' = Skipped
     \/ \E e \in Naming(Slot) :
          LET i == Shows(e, Slot[2])
          IN  /\ IsLatest(e, Slot)
              /\ cycle' = CASE cycle.cache[i] = "unasked" ->
                                 [cycle EXCEPT !.pc = "ask", !.asking = i]
                            [] cycle.cache[i] = "found" ->
                                 [cycle EXCEPT !.pc = "update", !.asking = i]
                            [] cycle.cache[i] = "none" -> Skipped
  /\ UNCHANGED <<stored, ids, directory, lock, synced, faults>>

(* GET /api/users/by-identity answers 200 or 404. *)
Answer ==
  /\ cycle.pc = "ask" /\ cycle.asking \notin Broken
  /\ cycle' = IF cycle.asking \in directory
              THEN [cycle EXCEPT !.pc = "update", !.cache[cycle.asking] = "found"]
              ELSE [Skipped EXCEPT !.cache[cycle.asking] = "none"]
  /\ UNCHANGED <<stored, ids, directory, lock, synced, faults>>

(* Bug: the failure is cached as an answer. *)
AbortCaching ==
  /\ cycle.pc = "ask"
  /\ Fault
  /\ cycle' = [Skipped EXCEPT !.cache[cycle.asking] = "unavailable"]
  /\ UNCHANGED <<stored, ids, directory, lock, synced>>

(* Anything else raises UsersServiceUnavailableError, which ends the loop. *)
Abort ==
  /\ cycle.pc = "ask"
  /\ \/ cycle.asking \in Broken /\ UNCHANGED faults
     \/ Fault
  /\ cycle' = [cycle EXCEPT !.pc = "slot", !.todo = <<>>, !.asking = Null]
  /\ UNCHANGED <<stored, ids, directory, lock, synced>>

(* Bug: the candidate list is trusted, the column not looked at again. *)
UpdateUnguarded ==
  /\ cycle.pc = "update"
  /\ lock[Slot[1]] \in {Null, Cycle}
  /\ lock' = [lock EXCEPT ![Slot[1]] = Cycle]
  /\ cycle' = [Skipped EXCEPT !.work[Slot] = cycle.asking]
  /\ UNCHANGED <<stored, ids, directory, synced, faults>>

(* UPDATE ... WHERE id = :id AND column IS NULL waits for the row, and looks  *)
(* at it as its last writer committed it.                                     *)
Update ==
  LET b == Slot[1]
  IN  /\ cycle.pc = "update"
      /\ lock[b] \in {Null, Cycle}
      /\ IF ids[Slot] = Null
         THEN /\ lock' = [lock EXCEPT ![b] = Cycle]
              /\ cycle' = [Skipped EXCEPT !.work[Slot] = cycle.asking]
         ELSE /\ cycle' = Skipped
              /\ UNCHANGED lock
      /\ UNCHANGED <<stored, ids, directory, synced, faults>>

Released(who) == [b \in Bookings |-> IF lock[b] = who THEN Null ELSE lock[b]]

(* One commit for what the cycle resolved, aborted or not. *)
Commit ==
  /\ cycle.pc = "slot" /\ cycle.todo = <<>>
  /\ ids' = [s \in Slots |-> IF cycle.work[s] # Null THEN cycle.work[s] ELSE ids[s]]
  /\ lock' = Released(Cycle)
  /\ cycle' = Asleep
  /\ UNCHANGED <<stored, directory, synced, faults>>

CycleRollsBack == /\ lock' = Released(Cycle)
                  /\ cycle' = Asleep
                  /\ UNCHANGED <<stored, ids, directory, synced>>

(* A database error, or the process stopping: the loop starts afresh. *)
CycleFails == cycle.pc # "idle" /\ Fault /\ CycleRollsBack

-----------------------------------------------------------------------------
(* user.synced: BookingRepository.backfill_user_id_by_email.                 *)

(* Bug: every booking that lacks the role. *)
MatchesAnyBooking(i, b) == Present(b) /\ ids[<<b, i.role>>] = Null

(* Bug: the column may hold another id. *)
MatchesKnown(i, b) == \E e \in Of(b) : Ev[e][i.role] = i.email

(* NULL in the role's column, and any stored event names the e-mail. *)
Matches(i, b) == /\ ids[<<b, i.role>>] = Null
                 /\ \E e \in Of(b) : Ev[e][i.role] = i.email

(* One UPDATE; the order in which it comes to the rows is the planner's. *)
Consume(i) ==
  /\ synced[i].pc = "queued"
  /\ \E order \in SetToSeqs({b \in Bookings : Matches(i, b)}) :
       synced' = [synced EXCEPT ![i] = [pc |-> "updating", todo |-> order]]
  /\ UNCHANGED <<stored, ids, directory, lock, cycle, faults>>

UpdateRow(i) ==
  LET b == Head(synced[i].todo)
  IN  /\ synced[i].pc = "updating" /\ synced[i].todo # <<>>
      /\ lock[b] = Null
      /\ lock' = IF Matches(i, b) THEN [lock EXCEPT ![b] = i] ELSE lock
      /\ synced' = [synced EXCEPT ![i].todo = Tail(@)]
      /\ UNCHANGED <<stored, ids, directory, cycle, faults>>

CommitSynced(i) ==
  /\ synced[i].pc = "updating" /\ synced[i].todo = <<>>
  /\ ids' = [s \in Slots |-> IF lock[s[1]] = i /\ s[2] = i.role THEN i ELSE ids[s]]
  /\ lock' = Released(i)
  /\ synced' = [synced EXCEPT ![i].pc = "done"]
  /\ UNCHANGED <<stored, directory, cycle, faults>>

SyncedRollsBack(i, pc) ==
  /\ synced' = [synced EXCEPT ![i] = [pc |-> pc, todo |-> <<>>]]
  /\ lock' = Released(i)
  /\ UNCHANGED <<stored, ids, directory, cycle>>

(* A transient error: retried, at last by way of the queue. *)
SyncedFails(i) == synced[i].pc = "updating" /\ Fault /\ SyncedRollsBack(i, "queued")

-----------------------------------------------------------------------------
(* Deadlocks: PostgreSQL rolls one of the transactions that wait in a circle *)
(* back, the one it happens to find it in.  The error is no connection error *)
(* or timeout, so _is_transient takes a user.synced event for poison.        *)

Holder(who) ==
  IF who = Cycle
  THEN IF cycle.pc = "update" THEN lock[Slot[1]] ELSE Null
  ELSE IF synced[who].todo # <<>> THEN lock[Head(synced[who].todo)] ELSE Null

InCircle(who) ==
  \E ring \in SUBSET (Identities \union {Cycle}) :
    who \in ring /\ Cardinality(ring) > 1 /\ {Holder(x) : x \in ring} = ring

BreakDeadlock ==
  /\ \/ InCircle(Cycle) /\ CycleRollsBack
     \/ \E i \in Identities : InCircle(i) /\ SyncedRollsBack(i, "dead")
  /\ UNCHANGED faults

CycleStep == Begin \/ ReadEmail \/ Answer \/ Abort \/ Update \/ Commit
SyncedStep(i) == Consume(i) \/ UpdateRow(i) \/ CommitSynced(i)

(* Nothing is incomplete: the cycle finds no candidate and sleeps on. *)
NothingToDo == /\ cycle.pc = "idle" /\ Unresolved = {}
               /\ UNCHANGED vars

Next == \/ \E e \in Events : Ingest(e)
        \/ \E i \in Identities : Learn(i) \/ SyncedStep(i) \/ SyncedFails(i)
        \/ CycleStep \/ CycleFails
        \/ BreakDeadlock
        \/ NothingToDo

Spec == Init /\ [][Next]_vars

(* The runner's loop goes on forever, the consumer takes what is queued, and  *)
(* the server breaks deadlocks.  A row that is freed goes to the statement    *)
(* that waits for it, not to a later cycle: hence SF for UpdateRow.  Nothing  *)
(* makes events or users appear.                                              *)
FairSpec == /\ Spec
            /\ WF_vars(CycleStep)
            /\ \A i \in Identities : WF_vars(SyncedStep(i)) /\ SF_vars(UpdateRow(i))
            /\ WF_vars(BreakDeadlock)

-----------------------------------------------------------------------------
(* Properties. *)

Cycles == [pc : {"idle", "slot", "ask", "update"}, todo : Seq(Slots),
           asking : Identities \union {Null},
           cache : [Identities -> {"unasked", "found", "none"}],
           work : [Slots -> Identities \union {Null}]]

Updates == [pc : {"absent", "queued", "updating", "done", "dead"}, todo : Seq(Bookings)]

TypeOK ==
  /\ stored \subseteq Events
  /\ ids \in [Slots -> Identities \union {Null}]
  /\ directory \subseteq Identities
  /\ lock \in [Bookings -> Identities \union {Cycle, Null}]
  /\ cycle \in Cycles
  /\ synced \in [Identities -> Updates]
  /\ faults \in 0..MaxFaults

(* A participant of the booking, in that role, whom event-users knows. *)
Names(s, i) == /\ i \in directory
               /\ \E e \in Of(s[1]) : i \in Gives(e, s[2])

(* So the cycle and user.synced know one: by e-mail. *)
Lists(s, i) == /\ i \in directory
               /\ \E e \in Of(s[1]) : i = Shows(e, s[2])

(* A booking is only ever given the id of someone one of its events names in  *)
(* that very role, and whom event-users knows: no cached answer is used for   *)
(* another address or role, no row of another booking is touched.             *)
OnlyNamedParticipants == \A s \in Slots : ids[s] # Null => Names(s, ids[s])

(* A known id is never replaced, and never lost, but by ingesting an event:   *)
(* neither a candidate list nor an answer that is out of date by the time of  *)
(* the update overwrites what another transaction resolved.                   *)
NeverOverwritten ==
  [][\A s \in Slots : ids[s] # Null /\ ids'[s] # ids[s]
       => stored' # stored /\ ids'[s] # Null]_ids

(* The inductive invariant behind them.  What the cycle is about to write, or *)
(* has written and not committed, is the id of a participant; a row it has    *)
(* written to is locked, and its column was NULL when that happened.          *)
AskedAboutSlot ==
  /\ cycle.pc \in {"ask", "update"} =>
       /\ cycle.todo # <<>>
       /\ \E e \in Naming(Slot) : cycle.asking = Shows(e, Slot[2])
  /\ cycle.pc = "update" => cycle.asking \in directory

CacheIsTrue == \A i \in Identities : cycle.cache[i] = "found" => i \in directory

WorkIsLocked ==
  \A s \in Slots : cycle.work[s] # Null =>
    /\ ids[s] = Null /\ lock[s[1]] = Cycle
    /\ Lists(s, cycle.work[s])

(* The rows a user.synced transaction holds are those it will write to. *)
HeldIsMatched ==
  \A b \in Bookings : lock[b] \in Identities =>
    LET s == <<b, lock[b].role>> IN ids[s] = Null /\ Lists(s, lock[b])

(* A user.synced event is of a known user; only its transaction has rows to do. *)
SyncedIsKnown ==
  \A i \in Identities :
    /\ synced[i].pc # "absent" => i \in directory
    /\ synced[i].todo # <<>> => synced[i].pc = "updating"

IInv == /\ TypeOK
        /\ AskedAboutSlot
        /\ CacheIsTrue
        /\ WorkIsLocked
        /\ HeldIsMatched
        /\ SyncedIsKnown
        /\ OnlyNamedParticipants

(* Who is given an id, and which bookings, is what ResolvedIds leaves open:   *)
(* the commits of the cycle and of user.synced each take effect in one step,  *)
(* fill only NULLs and only as told there, and no other step but ingestion's  *)
(* touches an id, whatever was locked, asked, cached or rolled back meanwhile. *)
BookingOf(e) == Ev[e].booking
Abs == INSTANCE ResolvedIds
Resolves == Abs!Spec

(* What the cycle still looks at or has written is in the batch it began with. *)
InHand(c) ==
  {s \in Slots : c.work[s] # Null \/ \E i \in DOMAIN c.todo : c.todo[i] = s}
WithinBatch == Cardinality({s[1] : s \in InHand(cycle)}) <= Batch

(* The column is NULL and event-users knows whom the latest event names. *)
Resolvable(s) ==
  /\ ids[s] = Null
  /\ \E e \in Naming(s) : IsLatest(e, s) /\ Shows(e, s[2]) \in directory

(* The safety net: what can be resolved does not stay unresolved, though the  *)
(* user.synced event came before the booking, was dead-lettered or was the    *)
(* victim of a deadlock.  It holds while the bookings that can never be       *)
(* completed are fewer than Batch and event-users answers for every identity. *)
EventuallyResolved == \A s \in Slots : Resolvable(s) ~> ~Resolvable(s)

(* Only poison is dead-lettered, and no user.synced event here is poison.     *)
(* The victim of a deadlock with the cycle, or with another, is.              *)
NoneDeadLettered == \A i \in Identities : synced[i].pc # "dead"
=============================================================================
