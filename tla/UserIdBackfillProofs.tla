------------------------ MODULE UserIdBackfillProofs ------------------------
(***************************************************************************)
(* For any bookings, events, batch size and faults: the cycle, user.synced  *)
(* and ingestion give a booking only ids of its participants and overwrite  *)
(* no id that is known.                                                     *)
(***************************************************************************)
EXTENDS UserIdBackfill, FiniteSetTheorems, TLAPS

-----------------------------------------------------------------------------
(* The data. *)

LEMMA IdentityTyped ==
  ASSUME NEW e \in Events, NEW r \in Roles, Ev[e][r] # NoEmail
  PROVE  Shows(e, r) \in Identities
<1>1. Shows(e, r).email = Ev[e][r] /\ Shows(e, r) \in Gives(e, r)
  BY DEF Shows, Identity, Gives
<1>2. \A q \in Roles : Identity(NoEmail, q).email = NoEmail
  BY DEF Identity
<1>. QED BY <1>1, <1>2 DEF Identities

LEMMA IdentityParts ==
  ASSUME NEW i \in Identities
  PROVE  /\ i.role \in Roles
         /\ \A email : i.email = email => i = Identity(email, i.role)
         /\ i # Null /\ i # Cycle
BY BackfillAssumption DEF Identities, Identity, Shows, Gives, NewClient, Roles

(* A finite set in some order is a sequence over it. *)
LEMMA OrdersTyped ==
  ASSUME NEW S, IsFiniteSet(S), NEW order \in SetToSeqs(S), NEW T, S \subseteq T
  PROVE  order \in Seq(T)
<1>1. Cardinality(S) \in Nat
  BY FS_CardinalityType
<1>2. order \in [1..Cardinality(S) -> T]
  BY DEF SetToSeqs
<1>. QED BY <1>1, <1>2

LEMMA SlotsFinite == IsFiniteSet(Slots)
<1>1. IsFiniteSet({"organizer"}) /\ IsFiniteSet({"client"})
  BY FS_Singleton
<1>2. Roles = {"organizer"} \union {"client"}
  BY DEF Roles
<1>3. IsFiniteSet(Roles)
  BY <1>1, <1>2, FS_Union
<1>. QED BY <1>3, BackfillAssumption, FS_Product DEF Slots

LEMMA AsleepTyped == Asleep \in Cycles
BY DEF Asleep, Cycles

LEMMA HeadTailTyped ==
  ASSUME NEW S, NEW s \in Seq(S), s # <<>>
  PROVE  Head(s) \in S /\ Tail(s) \in Seq(S)
OBVIOUS

LEMMA SkippedTyped ==
  ASSUME cycle \in Cycles, cycle.todo # <<>>
  PROVE  /\ Slot \in Slots
         /\ Skipped \in Cycles
         /\ Skipped.pc = "slot"
         /\ Skipped.cache = cycle.cache
         /\ Skipped.work = cycle.work
<1>1. Head(cycle.todo) \in Slots /\ Tail(cycle.todo) \in Seq(Slots)
  BY HeadTailTyped DEF Cycles
<1>. QED BY <1>1 DEF Cycles, Skipped, Slot

LEMMA SlotParts ==
  ASSUME NEW s \in Slots
  PROVE  /\ s[1] \in Bookings /\ s[2] \in Roles
         /\ s = <<s[1], s[2]>>
BY DEF Slots

LEMMA ReleasedTyped ==
  ASSUME TypeOK, NEW who
  PROVE  Released(who) \in [Bookings -> Identities \union {Cycle, Null}]
BY DEF TypeOK, Released

LEMMA FaultTyped == ASSUME TypeOK, Fault PROVE faults' \in 0..MaxFaults
BY BackfillAssumption DEF TypeOK, Fault

(* Whom the cycle's slot names is an identity. *)
LEMMA NamingTyped ==
  ASSUME TypeOK, NEW s \in Slots, NEW e \in Naming(s)
  PROVE  /\ e \in Events
         /\ Shows(e, s[2]) \in Identities
BY SlotParts, IdentityTyped DEF TypeOK, Naming, Of

-----------------------------------------------------------------------------
(* Types. *)

LEMMA InitTyped == Init => TypeOK
BY AsleepTyped, BackfillAssumption DEF Init, TypeOK, Unsynced, Updates

LEMMA IngestTyped == ASSUME TypeOK, NEW e \in Events, Ingest(e) PROVE TypeOK'
<1>1. PICK upserts \in BOOLEAN, given \in Resolved(e) :
        ids' = [s \in Slots |-> IF upserts /\ s[1] = Ev[e].booking /\ given[s[2]] # Null
                                THEN given[s[2]] ELSE ids[s]]
  BY DEF Ingest
<1>2. \A s \in Slots : given[s[2]] \in Identities \union {Null}
  BY <1>1, SlotParts DEF Resolved, TypeOK
<1>3. ids' \in [Slots -> Identities \union {Null}]
  BY <1>1, <1>2 DEF TypeOK
<1>. QED BY <1>3 DEF Ingest, TypeOK

LEMMA CycleTyped == ASSUME TypeOK, AskedAboutSlot, CycleStep \/ CycleFails PROVE TypeOK'
<1>1. CASE Begin
  <2>1. IsFiniteSet(Unresolved) /\ Unresolved \subseteq Slots
    BY SlotsFinite, FS_Subset DEF Unresolved
  <2>2. PICK todo \in SetToSeqs(Unresolved) :
          cycle' = [Asleep EXCEPT !.pc = "slot", !.todo = todo]
    BY <1>1 DEF Begin
  <2>3. todo \in Seq(Slots)
    BY <2>1, OrdersTyped
  <2>4. cycle' \in Cycles
    BY <2>2, <2>3, AsleepTyped DEF Cycles
  <2>. QED BY <1>1, <2>4 DEF Begin, TypeOK
<1>2. CASE ReadEmail
  <2>1. cycle \in Cycles /\ cycle.todo # <<>>
    BY <1>2 DEF ReadEmail, TypeOK
  <2>2. Slot \in Slots /\ Skipped \in Cycles
    BY <2>1, SkippedTyped
  <2>3. ASSUME NEW e \in Naming(Slot)
        PROVE  Shows(e, Slot[2]) \in Identities
    BY <2>2, NamingTyped
  <2>4. cycle' \in Cycles
    <3>1. CASE cycle' = Skipped
      BY <2>2, <3>1
    <3>2. ASSUME cycle' # Skipped
          PROVE  \E i \in Identities : \/ cycle' = [cycle EXCEPT !.pc = "ask", !.asking = i]
                                       \/ cycle' = [cycle EXCEPT !.pc = "update", !.asking = i]
      <4>1. PICK e \in Naming(Slot) :
              LET i == Shows(e, Slot[2])
              IN  cycle' = CASE cycle.cache[i] = "unasked" ->
                                  [cycle EXCEPT !.pc = "ask", !.asking = i]
                             [] cycle.cache[i] = "found" ->
                                  [cycle EXCEPT !.pc = "update", !.asking = i]
                             [] cycle.cache[i] = "none" -> Skipped
        BY <1>2, <3>2 DEF ReadEmail
      <4>. DEFINE i == Shows(e, Slot[2])
      <4>2. i \in Identities
        BY <2>3
      <4>3. cycle.cache[i] \in {"unasked", "found", "none"}
        BY <2>1, <4>2 DEF Cycles
      <4>. QED BY <3>2, <4>1, <4>2, <4>3
    <3>. QED BY <2>1, <3>1, <3>2 DEF Cycles
  <2>. QED BY <1>2, <2>4 DEF ReadEmail, TypeOK
<1>3. CASE Answer
  <2>1. cycle \in Cycles /\ cycle.todo # <<>> /\ cycle.pc = "ask"
    BY <1>3 DEF Answer, TypeOK, AskedAboutSlot
  <2>2. cycle.asking \in Identities
    BY <2>1, SkippedTyped, NamingTyped DEF AskedAboutSlot
  <2>3. [cycle EXCEPT !.pc = "update", !.cache[cycle.asking] = "found"] \in Cycles
    BY <2>1, <2>2 DEF Cycles
  <2>4. [Skipped EXCEPT !.cache[cycle.asking] = "none"] \in Cycles
    BY <2>1, <2>2, SkippedTyped DEF Cycles
  <2>. QED BY <1>3, <2>3, <2>4 DEF Answer, TypeOK
<1>4. CASE Abort
  <2>1. cycle' \in Cycles
    <3>1. <<>> \in Seq(Slots)
      OBVIOUS
    <3>2. [cycle EXCEPT !.pc = "slot", !.todo = <<>>, !.asking = Null] \in Cycles
      BY <3>1 DEF TypeOK, Cycles
    <3>. QED BY <1>4, <3>2 DEF Abort
  <2>2. faults' \in 0..MaxFaults
    BY <1>4, FaultTyped DEF Abort, TypeOK
  <2>. QED BY <1>4, <2>1, <2>2 DEF Abort, TypeOK
<1>5. CASE Update
  <2>1. cycle \in Cycles /\ cycle.todo # <<>> /\ cycle.pc = "update"
    BY <1>5 DEF Update, TypeOK, AskedAboutSlot
  <2>2. cycle.asking \in Identities
    BY <2>1, SkippedTyped, NamingTyped DEF AskedAboutSlot
  <2>3. Slot \in Slots /\ Skipped \in Cycles
    BY <2>1, SkippedTyped
  <2>4. [Skipped EXCEPT !.work[Slot] = cycle.asking] \in Cycles
    BY <2>2, <2>3 DEF Cycles
  <2>5. cycle' \in Cycles
    BY <1>5, <2>3, <2>4 DEF Update
  <2>6. lock' \in [Bookings -> Identities \union {Cycle, Null}]
    BY <1>5 DEF Update, TypeOK
  <2>. QED BY <1>5, <2>5, <2>6 DEF Update, TypeOK
<1>6. CASE Commit
  <2>1. ids' \in [Slots -> Identities \union {Null}]
    BY <1>6 DEF Commit, TypeOK, Cycles
  <2>. QED BY <1>6, <2>1, ReleasedTyped, AsleepTyped DEF Commit, TypeOK
<1>7. CASE CycleFails
  BY <1>7, ReleasedTyped, AsleepTyped, FaultTyped DEF CycleFails, CycleRollsBack, TypeOK
<1>. QED BY <1>1, <1>2, <1>3, <1>4, <1>5, <1>6, <1>7 DEF CycleStep

LEMMA SyncedTyped ==
  ASSUME TypeOK, NEW i \in Identities, Learn(i) \/ SyncedStep(i) \/ SyncedFails(i)
  PROVE  TypeOK'
<1>1. CASE Learn(i)
  BY <1>1 DEF Learn, TypeOK, Updates
<1>2. CASE Consume(i)
  <2>. DEFINE S == {b \in Bookings : Matches(i, b)}
  <2>1. PICK order \in SetToSeqs(S) :
          synced' = [synced EXCEPT ![i] = [pc |-> "updating", todo |-> order]]
    BY <1>2 DEF Consume
  <2>2. IsFiniteSet(S)
    BY BackfillAssumption, FS_Subset
  <2>3. order \in Seq(Bookings)
    BY <2>1, <2>2, OrdersTyped
  <2>4. synced' \in [Identities -> Updates]
    BY <2>1, <2>3 DEF TypeOK, Updates
  <2>. QED BY <1>2, <2>4 DEF Consume, TypeOK
<1>3. CASE UpdateRow(i)
  <2>1. synced' \in [Identities -> Updates]
    <3>1. synced[i] \in Updates /\ synced[i].todo # <<>>
      BY <1>3 DEF UpdateRow, TypeOK
    <3>2. Tail(synced[i].todo) \in Seq(Bookings)
      BY <3>1, HeadTailTyped DEF Updates
    <3>3. [synced[i] EXCEPT !.todo = Tail(@)] \in Updates
      BY <3>1, <3>2 DEF Updates
    <3>. QED BY <1>3, <3>3 DEF UpdateRow, TypeOK
  <2>2. lock' \in [Bookings -> Identities \union {Cycle, Null}]
    BY <1>3 DEF UpdateRow, TypeOK
  <2>. QED BY <1>3, <2>1, <2>2 DEF UpdateRow, TypeOK
<1>4. CASE CommitSynced(i)
  <2>1. synced' \in [Identities -> Updates]
    BY <1>4 DEF CommitSynced, TypeOK, Updates
  <2>2. ids' \in [Slots -> Identities \union {Null}]
    BY <1>4 DEF CommitSynced, TypeOK
  <2>. QED BY <1>4, <2>1, <2>2, ReleasedTyped DEF CommitSynced, TypeOK
<1>5. CASE SyncedFails(i)
  BY <1>5, ReleasedTyped, FaultTyped DEF SyncedFails, SyncedRollsBack, TypeOK, Updates
<1>. QED BY <1>1, <1>2, <1>3, <1>4, <1>5 DEF SyncedStep

LEMMA BreakTyped == ASSUME TypeOK, BreakDeadlock PROVE TypeOK'
<1>1. CASE CycleRollsBack
  BY <1>1, ReleasedTyped, AsleepTyped DEF BreakDeadlock, CycleRollsBack, TypeOK
<1>2. ASSUME NEW i \in Identities, SyncedRollsBack(i, "dead")
      PROVE  TypeOK'
  <2>1. [pc |-> "dead", todo |-> <<>>] \in Updates
    BY DEF Updates
  <2>2. synced' \in [Identities -> Updates]
    BY <1>2, <2>1 DEF SyncedRollsBack, TypeOK
  <2>. QED BY <1>2, <2>2, ReleasedTyped DEF BreakDeadlock, SyncedRollsBack, TypeOK
<1>. QED BY <1>1, <1>2 DEF BreakDeadlock

LEMMA TypeStep == ASSUME TypeOK, AskedAboutSlot, [Next]_vars PROVE TypeOK'
<1>1. CASE UNCHANGED vars
  BY <1>1 DEF vars, TypeOK
<1>. QED BY <1>1, IngestTyped, CycleTyped, SyncedTyped, BreakTyped DEF Next, NothingToDo

-----------------------------------------------------------------------------
(* The invariant.  Ingestion only adds events, and no step forgets a user:    *)
(* who was named stays named.                                                 *)

Named(events, known, s, i) ==
  i \in known /\ \E e \in events : Ev[e].booking = s[1] /\ i \in Gives(e, s[2])

Listed(events, known, s, i) ==
  i \in known /\ \E e \in events : Ev[e].booking = s[1] /\ i = Shows(e, s[2])

LEMMA NamesKept ==
  ASSUME stored \subseteq stored', directory \subseteq directory', NEW s, NEW i, Names(s, i)
  PROVE  Named(stored', directory', s, i)
BY DEF Names, Of, Named

LEMMA ListsKept ==
  ASSUME stored \subseteq stored', directory \subseteq directory', NEW s, NEW i, Lists(s, i)
  PROVE  /\ Listed(stored', directory', s, i)
         /\ Names(s, i)
BY DEF Lists, Names, Of, Listed, Gives

(* A step that leaves the cycle alone, and what it relies on, keeps its part. *)
LEMMA CyclePartKept ==
  ASSUME TypeOK, AskedAboutSlot, CacheIsTrue, WorkIsLocked,
         UNCHANGED cycle, stored \subseteq stored', directory \subseteq directory',
         \A s \in Slots : ids[s] = Null /\ lock[s[1]] = Cycle =>
                            ids'[s] = Null /\ lock'[s[1]] = Cycle
  PROVE  AskedAboutSlot' /\ CacheIsTrue' /\ WorkIsLocked'
<1>1. AskedAboutSlot'
  BY DEF AskedAboutSlot, Slot, Naming, Of
<1>2. CacheIsTrue'
  BY DEF CacheIsTrue
<1>3. ASSUME NEW s \in Slots, cycle'.work[s] # Null
      PROVE  /\ ids'[s] = Null /\ lock'[s[1]] = Cycle
             /\ Listed(stored', directory', s, cycle'.work[s])
  BY <1>3, ListsKept DEF WorkIsLocked
<1>4. WorkIsLocked'
  BY <1>3 DEF WorkIsLocked, Lists, Of, Listed
<1>. QED BY <1>1, <1>2, <1>4

(* A step that gives no identity a lock and writes no id under one keeps what *)
(* is true of the rows they hold.                                             *)
LEMMA HeldKept ==
  ASSUME HeldIsMatched, stored \subseteq stored', directory \subseteq directory',
         \A b \in Bookings : lock'[b] \in Identities =>
            /\ lock'[b] = lock[b]
            /\ ids'[<<b, lock[b].role>>] = ids[<<b, lock[b].role>>]
  PROVE  HeldIsMatched'
<1>1. ASSUME NEW b \in Bookings, lock'[b] \in Identities
      PROVE  /\ ids'[<<b, lock'[b].role>>] = Null
             /\ Listed(stored', directory', <<b, lock'[b].role>>, lock'[b])
  BY <1>1, ListsKept DEF HeldIsMatched
<1>. QED BY <1>1 DEF HeldIsMatched, Lists, Of, Listed

LEMMA NamedKept ==
  ASSUME OnlyNamedParticipants, stored \subseteq stored', directory \subseteq directory',
         \A s \in Slots : ids'[s] # ids[s] /\ ids'[s] # Null =>
                            Named(stored', directory', s, ids'[s])
  PROVE  OnlyNamedParticipants'
<1>1. ASSUME NEW s \in Slots, ids'[s] # Null
      PROVE  Named(stored', directory', s, ids'[s])
  BY <1>1, NamesKept DEF OnlyNamedParticipants
<1>. QED BY <1>1 DEF OnlyNamedParticipants, Names, Of, Named

LEMMA InitInv == Init => IInv
<1>. SUFFICES ASSUME Init PROVE IInv
  OBVIOUS
<1>1. TypeOK
  BY InitTyped
<1>2. AskedAboutSlot /\ CacheIsTrue /\ WorkIsLocked
  BY DEF Init, Asleep, AskedAboutSlot, CacheIsTrue, WorkIsLocked
<1>3. HeldIsMatched
  BY BackfillAssumption DEF Init, HeldIsMatched
<1>4. SyncedIsKnown /\ OnlyNamedParticipants
  BY DEF Init, Unsynced, SyncedIsKnown, OnlyNamedParticipants
<1>. QED BY <1>1, <1>2, <1>3, <1>4 DEF IInv

(* An upsert needs the row's lock to be free, so that it takes nothing from   *)
(* a transaction that holds it.                                               *)
LEMMA IngestWrites ==
  ASSUME NEW e \in Events, Ingest(e), NEW s \in Slots, ids'[s] # ids[s]
  PROVE  /\ lock[s[1]] = Null /\ s[1] = BookingOf(e)
         /\ ids'[s] \in Gives(e, s[2]) /\ ids'[s] \in directory
<1>. DEFINE b == Ev[e].booking
<1>1. PICK upserts \in BOOLEAN, given \in Resolved(e) :
        /\ upserts => lock[b] = Null
        /\ ids' = [t \in Slots |-> IF upserts /\ t[1] = b /\ given[t[2]] # Null
                                  THEN given[t[2]] ELSE ids[t]]
  BY DEF Ingest
<1>2. upserts /\ s[1] = b /\ given[s[2]] # Null /\ ids'[s] = given[s[2]]
  BY <1>1
<1>3. given[s[2]] \in directory /\ given[s[2]] \in Gives(e, s[2])
  BY <1>1, <1>2, SlotParts DEF Resolved, Gives
<1>. QED BY <1>1, <1>2, <1>3 DEF BookingOf

LEMMA IngestKeeps == ASSUME IInv, NEW e \in Events, Ingest(e) PROVE IInv'
<1>1. /\ stored' = stored \union {e}
      /\ UNCHANGED <<directory, lock, cycle, synced>>
  BY DEF Ingest
<1>2. stored \subseteq stored' /\ directory \subseteq directory'
  BY <1>1
<1>3. TypeOK'
  BY IngestTyped DEF IInv
<1>4. AskedAboutSlot' /\ CacheIsTrue' /\ WorkIsLocked'
  <2>1. ASSUME NEW s \in Slots, ids[s] = Null, lock[s[1]] = Cycle
        PROVE  ids'[s] = Null /\ lock'[s[1]] = Cycle
    BY <1>1, <2>1, IngestWrites, BackfillAssumption
  <2>. QED BY <1>1, <1>2, <2>1, CyclePartKept DEF IInv
<1>5. HeldIsMatched'
  <2>1. ASSUME NEW c \in Bookings, lock'[c] \in Identities
        PROVE  /\ lock'[c] = lock[c]
               /\ ids'[<<c, lock[c].role>>] = ids[<<c, lock[c].role>>]
    <3>1. <<c, lock[c].role>> \in Slots
      BY <1>1, <2>1, IdentityParts DEF Slots
    <3>2. lock[c] # Null /\ lock'[c] = lock[c]
      BY <1>1, <2>1, BackfillAssumption
    <3>. QED BY <3>1, <3>2, IngestWrites
  <2>. QED BY <1>2, <2>1, HeldKept DEF IInv
<1>6. SyncedIsKnown'
  BY <1>1 DEF IInv, SyncedIsKnown
<1>7. OnlyNamedParticipants'
  <2>1. ASSUME NEW s \in Slots, ids'[s] # ids[s], ids'[s] # Null
        PROVE  Named(stored', directory', s, ids'[s])
    BY <1>1, <2>1, IngestWrites DEF Named, BookingOf
  <2>. QED BY <1>2, <2>1, NamedKept DEF IInv
<1>. QED BY <1>3, <1>4, <1>5, <1>6, <1>7 DEF IInv

LEMMA LearnKeeps == ASSUME IInv, NEW i \in Identities, Learn(i) PROVE IInv'
<1>1. /\ UNCHANGED <<stored, ids, lock, cycle>>
      /\ directory' = directory \union {i}
      /\ synced' = [synced EXCEPT ![i].pc = "queued"]
      /\ synced[i].pc = "absent" /\ synced[i].todo = <<>>
  BY DEF Learn, IInv, SyncedIsKnown
<1>2. TypeOK'
  BY SyncedTyped DEF IInv
<1>3. AskedAboutSlot' /\ CacheIsTrue' /\ WorkIsLocked'
  BY <1>1, CyclePartKept DEF IInv
<1>4. HeldIsMatched' /\ OnlyNamedParticipants'
  BY <1>1, HeldKept, NamedKept DEF IInv
<1>5. SyncedIsKnown'
  BY <1>1 DEF IInv, TypeOK, Updates, SyncedIsKnown
<1>. QED BY <1>2, <1>3, <1>4, <1>5 DEF IInv

(* The cycle reads and asks without a lock; by the time it updates, the row   *)
(* is looked at again.                                                        *)
LEMMA ReadEmailKeeps ==
  ASSUME IInv, ReadEmail
  PROVE  AskedAboutSlot' /\ CacheIsTrue' /\ WorkIsLocked'
<1>1. cycle \in Cycles /\ cycle.todo # <<>> /\ UNCHANGED <<stored, ids, directory, lock>>
  BY DEF ReadEmail, IInv, TypeOK
<1>2. CASE cycle' = Skipped
  <2>1. cycle'.pc = "slot" /\ cycle'.cache = cycle.cache /\ cycle'.work = cycle.work
    BY <1>1, <1>2, SkippedTyped
  <2>. QED BY <1>1, <2>1 DEF IInv, AskedAboutSlot, CacheIsTrue, WorkIsLocked, Lists, Of
<1>3. CASE cycle' # Skipped
  <2>1. PICK e \in Naming(Slot) :
          LET i == Shows(e, Slot[2])
          IN  cycle' = CASE cycle.cache[i] = "unasked" ->
                              [cycle EXCEPT !.pc = "ask", !.asking = i]
                         [] cycle.cache[i] = "found" ->
                              [cycle EXCEPT !.pc = "update", !.asking = i]
                         [] cycle.cache[i] = "none" -> Skipped
    BY <1>3 DEF ReadEmail
  <2>. DEFINE i == Shows(e, Slot[2])
  <2>2. i \in Identities
    BY <1>1, SkippedTyped, NamingTyped DEF IInv
  <2>3. cycle.cache[i] \in {"unasked", "found", "none"}
    BY <1>1, <2>2 DEF Cycles
  <2>4. \/ cycle' = [cycle EXCEPT !.pc = "ask", !.asking = i]
        \/ cycle.cache[i] = "found" /\ cycle' = [cycle EXCEPT !.pc = "update", !.asking = i]
    BY <1>3, <2>1, <2>3
  <2>5. /\ cycle'.asking = i /\ cycle'.todo = cycle.todo
        /\ cycle'.cache = cycle.cache /\ cycle'.work = cycle.work
        /\ cycle'.pc = "update" => cycle.cache[i] = "found"
    BY <1>1, <2>4 DEF Cycles
  <2>6. AskedAboutSlot'
    <3>1. Slot' = Slot /\ Naming(Slot)' = Naming(Slot)
      BY <1>1, <2>5 DEF Slot, Naming, Of
    <3>. QED BY <1>1, <2>2, <2>5, <3>1 DEF IInv, AskedAboutSlot, CacheIsTrue
  <2>. QED BY <1>1, <2>5, <2>6 DEF IInv, CacheIsTrue, WorkIsLocked, Lists, Of
<1>. QED BY <1>2, <1>3

LEMMA AnswerKeeps ==
  ASSUME IInv, Answer
  PROVE  AskedAboutSlot' /\ CacheIsTrue' /\ WorkIsLocked'
<1>1. /\ cycle \in Cycles /\ cycle.pc = "ask" /\ cycle.todo # <<>>
      /\ UNCHANGED <<stored, ids, directory, lock>>
  BY DEF Answer, IInv, TypeOK, AskedAboutSlot
<1>2. cycle.asking \in Identities
  BY <1>1, SkippedTyped, NamingTyped DEF IInv, AskedAboutSlot
<1>3. CASE cycle.asking \in directory
  <2>1. /\ cycle'.pc = "update" /\ cycle'.todo = cycle.todo
        /\ cycle'.asking = cycle.asking /\ cycle'.work = cycle.work
        /\ cycle'.cache = [cycle.cache EXCEPT ![cycle.asking] = "found"]
    BY <1>1, <1>3 DEF Answer, Cycles
  <2>2. AskedAboutSlot'
    <3>1. Slot' = Slot /\ Naming(Slot)' = Naming(Slot)
      BY <1>1, <2>1 DEF Slot, Naming, Of
    <3>. QED BY <1>1, <1>3, <2>1, <3>1 DEF IInv, AskedAboutSlot
  <2>3. CacheIsTrue'
    BY <1>1, <1>2, <1>3, <2>1 DEF IInv, CacheIsTrue, Cycles
  <2>. QED BY <1>1, <2>1, <2>2, <2>3 DEF IInv, WorkIsLocked, Lists, Of
<1>4. CASE cycle.asking \notin directory
  <2>1. /\ cycle'.pc = "slot" /\ cycle'.work = cycle.work
        /\ cycle'.cache = [cycle.cache EXCEPT ![cycle.asking] = "none"]
    BY <1>1, <1>4, SkippedTyped DEF Answer, Cycles
  <2>2. CacheIsTrue'
    BY <1>1, <1>2, <2>1 DEF IInv, CacheIsTrue, Cycles
  <2>. QED BY <1>1, <2>1, <2>2 DEF IInv, AskedAboutSlot, WorkIsLocked, Lists, Of
<1>. QED BY <1>3, <1>4

LEMMA UpdateKeeps ==
  ASSUME IInv, Update
  PROVE  /\ AskedAboutSlot' /\ CacheIsTrue' /\ WorkIsLocked'
         /\ \A b \in Bookings : lock'[b] \in Identities => lock'[b] = lock[b]
<1>1. /\ cycle \in Cycles /\ cycle.pc = "update" /\ cycle.todo # <<>>
      /\ UNCHANGED <<stored, ids, directory>>
      /\ lock[Slot[1]] \in {Null, Cycle}
  BY DEF Update, IInv, TypeOK, AskedAboutSlot
<1>2. Slot \in Slots /\ Slot[1] \in Bookings
  BY <1>1, SkippedTyped, SlotParts
<1>3. Lists(Slot, cycle.asking)
  BY <1>1 DEF IInv, AskedAboutSlot, Naming, Lists
<1>4. CASE ids[Slot] = Null
  <2>1. /\ lock' = [lock EXCEPT ![Slot[1]] = Cycle]
        /\ cycle' = [Skipped EXCEPT !.work[Slot] = cycle.asking]
    BY <1>4 DEF Update
  <2>2. /\ cycle'.pc = "slot" /\ cycle'.cache = cycle.cache
        /\ cycle'.work = [cycle.work EXCEPT ![Slot] = cycle.asking]
    BY <1>1, <2>1, SkippedTyped DEF Cycles
  <2>3. ASSUME NEW s \in Slots, cycle'.work[s] # Null
        PROVE  /\ ids'[s] = Null /\ lock'[s[1]] = Cycle
               /\ Listed(stored', directory', s, cycle'.work[s])
    <3>1. s[1] \in Bookings
      BY SlotParts
    <3>2. CASE s = Slot
      BY <1>1, <1>2, <1>3, <1>4, <2>1, <2>2, <3>2, ListsKept DEF Cycles, IInv, TypeOK
    <3>3. CASE s # Slot
      <4>1. cycle'.work[s] = cycle.work[s]
        BY <1>1, <1>2, <2>2, <3>3 DEF Cycles
      <4>2. ids[s] = Null /\ lock[s[1]] = Cycle /\ Lists(s, cycle.work[s])
        BY <2>3, <4>1 DEF IInv, WorkIsLocked
      <4>. QED BY <1>1, <1>2, <2>1, <3>1, <4>1, <4>2, ListsKept DEF IInv, TypeOK
    <3>. QED BY <3>2, <3>3
  <2>4. WorkIsLocked'
    BY <2>3 DEF WorkIsLocked, Lists, Of, Listed
  <2>5. \A b \in Bookings : lock'[b] \in Identities => lock'[b] = lock[b]
    BY <1>2, <2>1, BackfillAssumption DEF IInv, TypeOK
  <2>. QED BY <1>1, <2>2, <2>4, <2>5 DEF IInv, AskedAboutSlot, CacheIsTrue
<1>5. CASE ids[Slot] # Null
  <2>1. cycle' = Skipped /\ UNCHANGED lock
    BY <1>5 DEF Update
  <2>2. cycle'.pc = "slot" /\ cycle'.cache = cycle.cache /\ cycle'.work = cycle.work
    BY <1>1, <2>1, SkippedTyped
  <2>. QED BY <1>1, <2>1, <2>2
           DEF IInv, AskedAboutSlot, CacheIsTrue, WorkIsLocked, Lists, Of
<1>. QED BY <1>4, <1>5

(* Releasing locks takes nothing from the other holders. *)
LEMMA ReleasedKeeps ==
  ASSUME NEW who, lock' = Released(who), who \notin {Null}, NEW b \in Bookings
  PROVE  /\ lock'[b] # who
         /\ lock'[b] # Null => lock'[b] = lock[b]
         /\ lock[b] # who => lock'[b] = lock[b]
BY DEF Released

LEMMA AsleepKeeps ==
  ASSUME cycle' = Asleep
  PROVE  AskedAboutSlot' /\ CacheIsTrue' /\ WorkIsLocked'
BY DEF Asleep, AskedAboutSlot, CacheIsTrue, WorkIsLocked

LEMMA CycleRollsBackKeeps ==
  ASSUME IInv, CycleRollsBack, TypeOK'
  PROVE  IInv'
<1>1. /\ cycle' = Asleep /\ lock' = Released(Cycle)
      /\ UNCHANGED <<stored, ids, directory, synced>>
  BY DEF CycleRollsBack
<1>2. HeldIsMatched' /\ OnlyNamedParticipants'
  BY <1>1, ReleasedKeeps, HeldKept, NamedKept, BackfillAssumption DEF IInv
<1>. QED BY <1>1, <1>2, AsleepKeeps DEF IInv, SyncedIsKnown

LEMMA CycleKeeps == ASSUME IInv, CycleStep \/ CycleFails PROVE IInv'
<1>1. TypeOK'
  BY CycleTyped DEF IInv
<1>2. SyncedIsKnown'
  BY DEF CycleStep, Begin, ReadEmail, Answer, Abort, Update, Commit, CycleFails,
         CycleRollsBack, IInv, SyncedIsKnown
<1>3. ASSUME UNCHANGED <<stored, ids, directory>>,
             \A b \in Bookings : lock'[b] \in Identities => lock'[b] = lock[b]
      PROVE  HeldIsMatched' /\ OnlyNamedParticipants'
  BY <1>3, HeldKept, NamedKept DEF IInv
<1>4. CASE Begin
  <2>1. cycle'.pc = "slot" /\ cycle'.cache = Asleep.cache /\ cycle'.work = Asleep.work
    BY <1>4 DEF Begin, Asleep
  <2>2. AskedAboutSlot' /\ CacheIsTrue' /\ WorkIsLocked'
    BY <2>1 DEF Asleep, AskedAboutSlot, CacheIsTrue, WorkIsLocked
  <2>3. HeldIsMatched' /\ OnlyNamedParticipants'
    BY <1>3, <1>4 DEF Begin
  <2>. QED BY <1>1, <1>2, <2>2, <2>3 DEF IInv
<1>5. CASE ReadEmail
  <2>1. HeldIsMatched' /\ OnlyNamedParticipants'
    BY <1>3, <1>5 DEF ReadEmail
  <2>. QED BY <1>1, <1>2, <1>5, <2>1, ReadEmailKeeps DEF IInv
<1>6. CASE Answer
  <2>1. HeldIsMatched' /\ OnlyNamedParticipants'
    BY <1>3, <1>6 DEF Answer
  <2>. QED BY <1>1, <1>2, <1>6, <2>1, AnswerKeeps DEF IInv
<1>7. CASE Abort
  <2>1. cycle'.pc = "slot" /\ cycle'.cache = cycle.cache /\ cycle'.work = cycle.work
    BY <1>7 DEF Abort, IInv, TypeOK, Cycles
  <2>2. UNCHANGED <<stored, ids, directory, lock>>
    BY <1>7 DEF Abort
  <2>3. AskedAboutSlot' /\ CacheIsTrue' /\ WorkIsLocked'
    BY <2>1, <2>2 DEF IInv, AskedAboutSlot, CacheIsTrue, WorkIsLocked, Lists, Of
  <2>. QED BY <1>1, <1>2, <1>3, <2>2, <2>3 DEF IInv
<1>8. CASE Update
  <2>1. HeldIsMatched' /\ OnlyNamedParticipants'
    BY <1>3, <1>8, UpdateKeeps DEF Update
  <2>. QED BY <1>1, <1>2, <1>8, <2>1, UpdateKeeps DEF IInv
<1>9. CASE Commit
  <2>1. /\ cycle' = Asleep /\ lock' = Released(Cycle) /\ UNCHANGED <<stored, directory>>
        /\ ids' = [s \in Slots |-> IF cycle.work[s] # Null THEN cycle.work[s] ELSE ids[s]]
    BY <1>9 DEF Commit
  <2>2. ASSUME NEW b \in Bookings, lock'[b] \in Identities
        PROVE  /\ lock'[b] = lock[b]
               /\ ids'[<<b, lock[b].role>>] = ids[<<b, lock[b].role>>]
    <3>1. lock'[b] = lock[b] /\ lock[b] # Cycle
      BY <2>1, <2>2, ReleasedKeeps, BackfillAssumption
    <3>2. <<b, lock[b].role>> \in Slots
      BY <2>2, <3>1, IdentityParts DEF Slots
    <3>3. cycle.work[<<b, lock[b].role>>] = Null
      BY <3>1, <3>2 DEF IInv, WorkIsLocked
    <3>. QED BY <2>1, <3>1, <3>2, <3>3
  <2>3. HeldIsMatched'
    BY <2>1, <2>2, HeldKept DEF IInv
  <2>4. ASSUME NEW s \in Slots, ids'[s] # ids[s], ids'[s] # Null
        PROVE  Named(stored', directory', s, ids'[s])
    <3>1. ids'[s] = cycle.work[s] /\ Lists(s, cycle.work[s])
      BY <2>1, <2>4 DEF IInv, WorkIsLocked
    <3>. QED BY <2>1, <3>1, ListsKept, NamesKept
  <2>5. OnlyNamedParticipants'
    BY <2>1, <2>4, NamedKept DEF IInv
  <2>. QED BY <1>1, <1>2, <2>1, <2>3, <2>5, AsleepKeeps DEF IInv
<1>10. CASE CycleFails
  BY <1>1, <1>10, CycleRollsBackKeeps DEF CycleFails
<1>. QED BY <1>4, <1>5, <1>6, <1>7, <1>8, <1>9, <1>10 DEF CycleStep

(* A user.synced transaction takes the lock of a row it matches, and keeps    *)
(* the others away from it until it has written.                              *)
LEMMA UpdateRowKeeps == ASSUME IInv, NEW i \in Identities, UpdateRow(i) PROVE IInv'
<1>. DEFINE b == Head(synced[i].todo)
<1>1. /\ UNCHANGED <<stored, ids, directory, cycle>>
      /\ lock[b] = Null
      /\ lock' = IF Matches(i, b) THEN [lock EXCEPT ![b] = i] ELSE lock
      /\ synced[i].pc = "updating" /\ synced[i] \in Updates /\ synced[i].todo # <<>>
      /\ synced' = [synced EXCEPT ![i].todo = Tail(@)]
  BY DEF UpdateRow, IInv, TypeOK
<1>2. TypeOK'
  BY SyncedTyped DEF IInv, SyncedStep
<1>3. b \in Bookings
  BY <1>1, HeadTailTyped DEF Updates
<1>4. AskedAboutSlot' /\ CacheIsTrue' /\ WorkIsLocked'
  <2>1. ASSUME NEW s \in Slots, ids[s] = Null, lock[s[1]] = Cycle
        PROVE  ids'[s] = Null /\ lock'[s[1]] = Cycle
    <3>1. s[1] \in Bookings /\ s[1] # b
      BY <1>1, <2>1, SlotParts, BackfillAssumption
    <3>. QED BY <1>1, <2>1, <3>1 DEF IInv, TypeOK
  <2>. QED BY <1>1, <2>1, CyclePartKept DEF IInv
<1>5. HeldIsMatched'
  <2>1. ASSUME NEW c \in Bookings, lock'[c] \in Identities
        PROVE  /\ ids'[<<c, lock'[c].role>>] = Null
               /\ Listed(stored', directory', <<c, lock'[c].role>>, lock'[c])
    <3>1. CASE lock'[c] = lock[c]
      BY <1>1, <2>1, <3>1, ListsKept DEF IInv, HeldIsMatched
    <3>2. CASE lock'[c] # lock[c]
      <4>1. c = b /\ lock'[c] = i /\ Matches(i, b)
        BY <1>1, <1>3, <3>2 DEF IInv, TypeOK
      <4>2. PICK e \in Of(b) : Ev[e][i.role] = i.email
        BY <4>1 DEF Matches
      <4>3. i = Shows(e, i.role)
        BY <4>2, IdentityParts DEF Shows
      <4>4. i \in directory
        BY <1>1 DEF IInv, SyncedIsKnown
      <4>. QED BY <1>1, <4>1, <4>2, <4>3, <4>4 DEF Matches, Listed, Of
    <3>. QED BY <3>1, <3>2
  <2>. QED BY <2>1 DEF HeldIsMatched, Lists, Of, Listed
<1>6. SyncedIsKnown'
  BY <1>1 DEF IInv, TypeOK, Updates, SyncedIsKnown
<1>7. OnlyNamedParticipants'
  BY <1>1, NamedKept DEF IInv
<1>. QED BY <1>2, <1>4, <1>5, <1>6, <1>7 DEF IInv

LEMMA CommitSyncedKeeps == ASSUME IInv, NEW i \in Identities, CommitSynced(i) PROVE IInv'
<1>1. /\ UNCHANGED <<stored, directory, cycle>>
      /\ ids' = [s \in Slots |-> IF lock[s[1]] = i /\ s[2] = i.role THEN i ELSE ids[s]]
      /\ lock' = Released(i)
      /\ synced' = [synced EXCEPT ![i].pc = "done"]
      /\ synced[i].pc = "updating" /\ synced[i].todo = <<>>
  BY DEF CommitSynced
<1>2. TypeOK'
  BY SyncedTyped DEF IInv, SyncedStep
<1>3. AskedAboutSlot' /\ CacheIsTrue' /\ WorkIsLocked'
  <2>1. ASSUME NEW s \in Slots, ids[s] = Null, lock[s[1]] = Cycle
        PROVE  ids'[s] = Null /\ lock'[s[1]] = Cycle
    <3>1. s[1] \in Bookings /\ lock[s[1]] # i /\ i # Null
      BY <2>1, SlotParts, IdentityParts
    <3>. QED BY <1>1, <2>1, <3>1, ReleasedKeeps
  <2>. QED BY <1>1, <2>1, CyclePartKept DEF IInv
<1>4. HeldIsMatched'
  <2>1. ASSUME NEW b \in Bookings, lock'[b] \in Identities
        PROVE  /\ lock'[b] = lock[b]
               /\ ids'[<<b, lock[b].role>>] = ids[<<b, lock[b].role>>]
    <3>1. lock'[b] = lock[b] /\ lock[b] # i
      BY <1>1, <2>1, ReleasedKeeps, IdentityParts
    <3>2. <<b, lock[b].role>> \in Slots
      BY <2>1, <3>1, IdentityParts DEF Slots
    <3>. QED BY <1>1, <3>1, <3>2
  <2>. QED BY <1>1, <2>1, HeldKept DEF IInv
<1>5. OnlyNamedParticipants'
  <2>1. ASSUME NEW s \in Slots, ids'[s] # ids[s], ids'[s] # Null
        PROVE  Named(stored', directory', s, ids'[s])
    <3>1. lock[s[1]] = i /\ s[2] = i.role /\ ids'[s] = i
      BY <1>1, <2>1
    <3>2. s[1] \in Bookings /\ s = <<s[1], i.role>>
      BY <3>1, SlotParts
    <3>3. Lists(s, i)
      BY <3>1, <3>2 DEF IInv, HeldIsMatched
    <3>. QED BY <1>1, <3>1, <3>3, ListsKept, NamesKept
  <2>. QED BY <1>1, <2>1, NamedKept DEF IInv
<1>6. SyncedIsKnown'
  BY <1>1 DEF IInv, TypeOK, Updates, SyncedIsKnown
<1>. QED BY <1>2, <1>3, <1>4, <1>5, <1>6 DEF IInv

LEMMA SyncedRollsBackKeeps ==
  ASSUME IInv, NEW i \in Identities, NEW pc, SyncedRollsBack(i, pc), TypeOK',
         synced[i].pc # "absent"
  PROVE  IInv'
<1>1. /\ UNCHANGED <<stored, ids, directory, cycle>>
      /\ lock' = Released(i)
      /\ synced' = [synced EXCEPT ![i] = [pc |-> pc, todo |-> <<>>]]
  BY DEF SyncedRollsBack
<1>2. AskedAboutSlot' /\ CacheIsTrue' /\ WorkIsLocked'
  <2>1. ASSUME NEW s \in Slots, ids[s] = Null, lock[s[1]] = Cycle
        PROVE  ids'[s] = Null /\ lock'[s[1]] = Cycle
    BY <1>1, <2>1, SlotParts, IdentityParts, ReleasedKeeps
  <2>. QED BY <1>1, <2>1, CyclePartKept DEF IInv
<1>3. HeldIsMatched' /\ OnlyNamedParticipants'
  BY <1>1, IdentityParts, ReleasedKeeps, HeldKept, NamedKept DEF IInv
<1>4. SyncedIsKnown'
  BY <1>1 DEF IInv, TypeOK, Updates, SyncedIsKnown
<1>. QED BY <1>2, <1>3, <1>4 DEF IInv

(* Only a transaction that waits for a row can be in a circle. *)
LEMMA InCircleUpdates ==
  ASSUME IInv, NEW i \in Identities, InCircle(i)
  PROVE  synced[i].pc = "updating"
<1>1. PICK ring \in SUBSET (Identities \union {Cycle}) :
        i \in ring /\ {Holder(x) : x \in ring} = ring
  BY DEF InCircle
<1>2. Holder(i) # Null
  BY <1>1, BackfillAssumption
<1>3. synced[i].todo # <<>>
  BY <1>2, IdentityParts DEF Holder
<1>. QED BY <1>3 DEF IInv, SyncedIsKnown

LEMMA SyncedKeeps ==
  ASSUME IInv, NEW i \in Identities, SyncedStep(i) \/ SyncedFails(i)
  PROVE  IInv'
<1>1. CASE Consume(i)
  <2>1. PICK order : synced' = [synced EXCEPT ![i] = [pc |-> "updating", todo |-> order]]
    BY <1>1 DEF Consume
  <2>2. UNCHANGED <<stored, ids, directory, lock, cycle>> /\ synced[i].pc = "queued"
    BY <1>1 DEF Consume
  <2>3. TypeOK'
    BY <1>1, SyncedTyped DEF IInv, SyncedStep
  <2>4. AskedAboutSlot' /\ CacheIsTrue' /\ WorkIsLocked'
    BY <2>2, CyclePartKept DEF IInv
  <2>5. HeldIsMatched' /\ OnlyNamedParticipants'
    BY <2>2, HeldKept, NamedKept DEF IInv
  <2>6. SyncedIsKnown'
    BY <2>1, <2>2 DEF IInv, TypeOK, SyncedIsKnown
  <2>. QED BY <2>3, <2>4, <2>5, <2>6 DEF IInv
<1>2. CASE SyncedFails(i)
  <2>1. TypeOK'
    BY <1>2, SyncedTyped DEF IInv
  <2>. QED BY <1>2, <2>1, SyncedRollsBackKeeps DEF SyncedFails
<1>. QED BY <1>1, <1>2, UpdateRowKeeps, CommitSyncedKeeps DEF SyncedStep

LEMMA BreakKeeps == ASSUME IInv, BreakDeadlock PROVE IInv'
<1>1. TypeOK'
  BY BreakTyped DEF IInv
<1>2. CASE CycleRollsBack
  BY <1>1, <1>2, CycleRollsBackKeeps
<1>3. ASSUME NEW i \in Identities, InCircle(i), SyncedRollsBack(i, "dead")
      PROVE  IInv'
  <2>1. synced[i].pc = "updating"
    BY <1>3, InCircleUpdates
  <2>. QED BY <1>1, <1>3, <2>1, SyncedRollsBackKeeps
<1>. QED BY <1>2, <1>3 DEF BreakDeadlock

LEMMA Step == ASSUME IInv, [Next]_vars PROVE IInv'
<1>1. CASE UNCHANGED vars
  BY <1>1 DEF vars, IInv, TypeOK, AskedAboutSlot, Slot, Naming, Of, CacheIsTrue, WorkIsLocked,
              HeldIsMatched, SyncedIsKnown, OnlyNamedParticipants, Names, Lists
<1>2. CASE \E e \in Events : Ingest(e)
  BY <1>2, IngestKeeps
<1>3. ASSUME NEW i \in Identities, Learn(i) \/ SyncedStep(i) \/ SyncedFails(i)
      PROVE  IInv'
  BY <1>3, LearnKeeps, SyncedKeeps
<1>4. CASE CycleStep \/ CycleFails
  BY <1>4, CycleKeeps
<1>5. CASE BreakDeadlock
  BY <1>5, BreakKeeps
<1>. QED BY <1>1, <1>2, <1>3, <1>4, <1>5 DEF Next, NothingToDo

(* The ids written and not committed are of participants, their rows locked   *)
(* and NULL before (UserIdBackfillService, backfill_user_id_by_email).        *)
THEOREM InductiveInvariant == Spec => []IInv
BY InitInv, Step, PTL DEF Spec

(* The variables keep their types. *)
THEOREM TypeCorrect == Spec => []TypeOK
<1>1. IInv => TypeOK
  BY DEF IInv
<1>. QED BY <1>1, InductiveInvariant, PTL

(* A booking is only ever given the id of someone an event of it names in     *)
(* that role and event-users knows (_backfill_slot, _BACKFILL_BY_EMAIL).      *)
THEOREM ParticipantsOnly == Spec => []OnlyNamedParticipants
<1>1. IInv => OnlyNamedParticipants
  BY DEF IInv
<1>. QED BY <1>1, InductiveInvariant, PTL

(* The transactions that resolve ids write where the column is NULL.          *)
LEMMA WritesOnlyNull ==
  ASSUME IInv, [Next]_vars, NEW s \in Slots, ids[s] # Null, ids'[s] # ids[s]
  PROVE  stored' # stored /\ ids'[s] # Null
<1>1. CASE \E e \in Events : Ingest(e)
  <2>1. PICK e \in Events : Ingest(e)
    BY <1>1
  <2>2. stored' # stored
    BY <2>1 DEF Ingest
  <2>3. ids'[s] \in directory
    BY <2>1, IngestWrites
  <2>. QED BY <2>2, <2>3, BackfillAssumption DEF IInv, TypeOK
<1>2. CASE Commit
  BY <1>2 DEF Commit, IInv, WorkIsLocked
<1>3. ASSUME NEW i \in Identities, CommitSynced(i)
      PROVE  FALSE
  <2>1. lock[s[1]] = i /\ s[2] = i.role
    BY <1>3 DEF CommitSynced
  <2>2. s[1] \in Bookings /\ s = <<s[1], i.role>>
    BY <2>1, SlotParts
  <2>. QED BY <2>1, <2>2 DEF IInv, HeldIsMatched
<1>4. CASE UNCHANGED ids
  BY <1>4
<1>. QED BY <1>1, <1>2, <1>3, <1>4
         DEF Next, vars, CycleStep, Begin, ReadEmail, Answer, Abort, Update, CycleFails,
             CycleRollsBack, Learn, SyncedStep, Consume, UpdateRow, SyncedFails,
             SyncedRollsBack, BreakDeadlock, NothingToDo

(* No transaction of the cycle or of user.synced overwrites a known id, and   *)
(* none loses one, however stale the candidates and answers it works from     *)
(* (_UPDATE_TEMPLATE, _BACKFILL_BY_EMAIL: both ask for NULL).                 *)
THEOREM KnownIdsKept == Spec => NeverOverwritten
<1>1. ASSUME IInv, [Next]_vars
      PROVE  [\A s \in Slots : ids[s] # Null /\ ids'[s] # ids[s]
                => stored' # stored /\ ids'[s] # Null]_ids
  BY <1>1, WritesOnlyNull
<1>. QED BY <1>1, InductiveInvariant, PTL DEF Spec, NeverOverwritten

-----------------------------------------------------------------------------
(* The batch.  A candidate is told by how many incomplete bookings are before *)
(* it, fewer than Batch: so there are at most Batch of them.                  *)

LEMMA CandidatesBounded ==
  /\ IsFiniteSet(Candidates)
  /\ Cardinality(Candidates) <= Batch
<1>. DEFINE Below(b) == {c \in Incomplete : c < b}
            rank == [b \in Candidates |-> Cardinality(Below(b))]
<1>1. Incomplete \in SUBSET Bookings /\ Candidates \in SUBSET Incomplete
  BY DEF Incomplete, Candidates
<1>2. \A b : Below(b) \in SUBSET Bookings
  BY <1>1
<1>3. \A b : IsFiniteSet(Below(b)) /\ Cardinality(Below(b)) \in Nat
  BY <1>2, BackfillAssumption, FS_Subset, FS_CardinalityType
<1>4. rank \in [Candidates -> 0..(Batch - 1)]
  <2>1. ASSUME NEW b \in Candidates PROVE Cardinality(Below(b)) \in 0..(Batch - 1)
    BY <1>3, BackfillAssumption DEF Candidates
  <2>. QED BY <2>1
<1>5. ASSUME NEW b \in Candidates, NEW c \in Candidates, b < c
      PROVE  rank[b] < rank[c]
  <2>1. b \in Nat /\ c \in Nat /\ Incomplete \subseteq Nat
    BY <1>1, BackfillAssumption
  <2>2. Below(b) \in SUBSET Below(c) /\ b \in Below(c) /\ b \notin Below(b)
    <3>1. ASSUME NEW x \in Incomplete, x < b PROVE x < c
      BY <1>5, <2>1, <3>1
    <3>2. b \in Incomplete /\ ~(b < b)
      BY <1>1, <2>1
    <3>. QED BY <1>5, <3>1, <3>2
  <2>3. Cardinality(Below(b)) <= Cardinality(Below(c)) /\ Cardinality(Below(b)) # Cardinality(Below(c))
    BY <1>3, <2>2, FS_Subset
  <2>. QED BY <1>3, <2>3
<1>6. rank \in Injection(Candidates, 0..(Batch - 1))
  <2>1. ASSUME NEW b \in Candidates, NEW c \in Candidates, rank[b] = rank[c]
        PROVE  b = c
    <3>1. b \in Nat /\ c \in Nat
      BY <1>1, BackfillAssumption
    <3>2. rank[b] \in Int
      BY <1>4
    <3>3. ~(b < c) /\ ~(c < b)
      BY <1>5, <2>1, <3>2
    <3>. QED BY <3>1, <3>3
  <2>. QED BY <1>4, <2>1 DEF Injection, IsInjective
<1>7. IsFiniteSet(0..(Batch - 1)) /\ Cardinality(0..(Batch - 1)) = Batch
  BY BackfillAssumption, FS_Interval
<1>. QED BY <1>6, <1>7, FS_Injection

(* What is in hand of some state of the cycle, and its bookings. *)
BookingsOf(S) == {s[1] : s \in S}

LEMMA FewerBookings ==
  ASSUME NEW S, NEW T \in SUBSET S, IsFiniteSet(BookingsOf(S)), Cardinality(BookingsOf(S)) <= Batch
  PROVE  Cardinality(BookingsOf(T)) <= Batch
<1>1. BookingsOf(T) \in SUBSET BookingsOf(S)
  BY DEF BookingsOf
<1>2. /\ Cardinality(BookingsOf(T)) \in Nat /\ Cardinality(BookingsOf(S)) \in Nat
      /\ Cardinality(BookingsOf(T)) <= Cardinality(BookingsOf(S))
  BY <1>1, FS_Subset, FS_CardinalityType
<1>. QED BY <1>2, BackfillAssumption

LEMMA BookingsFinite == ASSUME NEW S \in SUBSET Slots PROVE IsFiniteSet(BookingsOf(S))
<1>1. BookingsOf(S) \in SUBSET Bookings
  BY SlotParts DEF BookingsOf
<1>. QED BY <1>1, BackfillAssumption, FS_Subset

(* A booking that is done with is out of hand, unless something was written. *)
LEMMA SkippedInHand ==
  ASSUME cycle \in Cycles, cycle.todo # <<>>
  PROVE  /\ InHand(Skipped) \subseteq InHand(cycle)
         /\ Slot \in InHand(cycle)
<1>1. /\ Skipped.todo = Tail(cycle.todo) /\ Skipped.work = cycle.work
      /\ cycle.todo \in Seq(Slots)
  BY DEF Skipped, Cycles
<1>2. ASSUME NEW i \in DOMAIN Tail(cycle.todo)
      PROVE  i + 1 \in DOMAIN cycle.todo /\ Tail(cycle.todo)[i] = cycle.todo[i + 1]
  BY <1>1
<1>3. Slot = cycle.todo[1] /\ 1 \in DOMAIN cycle.todo /\ Slot \in Slots
  BY <1>1 DEF Slot
<1>. QED BY <1>1, <1>2, <1>3 DEF InHand

LEMMA AsleepInHand == InHand(Asleep) = {}
BY DEF InHand, Asleep

LEMMA BatchKept == ASSUME IInv, WithinBatch, [Next]_vars PROVE WithinBatch'
<1>1. ASSUME InHand(cycle') \subseteq InHand(cycle)
      PROVE  WithinBatch'
  <2>1. InHand(cycle) \in SUBSET Slots
    BY DEF InHand
  <2>2. Cardinality(BookingsOf(InHand(cycle'))) <= Batch
    BY <1>1, <2>1, BookingsFinite, FewerBookings DEF WithinBatch, BookingsOf
  <2>. QED BY <2>2 DEF WithinBatch, BookingsOf
<1>2. CASE Begin
  <2>1. PICK todo \in SetToSeqs(Unresolved) :
          cycle' = [Asleep EXCEPT !.pc = "slot", !.todo = todo]
    BY <1>2 DEF Begin
  <2>2. IsFiniteSet(Unresolved) /\ Unresolved \subseteq Slots
    BY SlotsFinite, FS_Subset DEF Unresolved
  <2>3. todo \in [1..Cardinality(Unresolved) -> Unresolved]
    BY <2>2 DEF SetToSeqs
  <2>4. cycle'.todo = todo /\ cycle'.work = [s \in Slots |-> Null]
    BY <2>1 DEF Asleep
  <2>5. InHand(cycle') \subseteq Unresolved
    BY <2>3, <2>4 DEF InHand
  <2>6. BookingsOf(InHand(cycle')) \in SUBSET Candidates
    BY <2>5 DEF BookingsOf, Unresolved
  <2>7. Cardinality(BookingsOf(InHand(cycle'))) <= Batch
    <3>1. /\ Cardinality(BookingsOf(InHand(cycle'))) \in Nat /\ Cardinality(Candidates) \in Nat
          /\ Cardinality(BookingsOf(InHand(cycle'))) <= Cardinality(Candidates)
      BY <2>6, CandidatesBounded, FS_Subset, FS_CardinalityType
    <3>. QED BY <3>1, CandidatesBounded, BackfillAssumption
  <2>. QED BY <2>7 DEF WithinBatch, BookingsOf
<1>3. ASSUME ReadEmail \/ Answer \/ Update
      PROVE  InHand(cycle') \subseteq InHand(cycle)
  <2>1. cycle \in Cycles /\ cycle.todo # <<>>
    BY <1>3 DEF ReadEmail, Answer, Update, IInv, TypeOK, AskedAboutSlot
  <2>2. \/ cycle'.todo = cycle.todo /\ cycle'.work = cycle.work
        \/ cycle'.todo = Skipped.todo /\ cycle'.work = Skipped.work
        \/ cycle'.todo = Skipped.todo /\ cycle'.work = [Skipped.work EXCEPT ![Slot] = cycle.asking]
    <3>1. CASE ReadEmail
      <4>1. CASE cycle' = Skipped
        BY <4>1
      <4>2. ASSUME cycle' # Skipped
            PROVE  \E i : \/ cycle' = [cycle EXCEPT !.pc = "ask", !.asking = i]
                          \/ cycle' = [cycle EXCEPT !.pc = "update", !.asking = i]
        <5>1. PICK e \in Naming(Slot) :
                LET i == Shows(e, Slot[2])
                IN  cycle' = CASE cycle.cache[i] = "unasked" ->
                                    [cycle EXCEPT !.pc = "ask", !.asking = i]
                               [] cycle.cache[i] = "found" ->
                                    [cycle EXCEPT !.pc = "update", !.asking = i]
                               [] cycle.cache[i] = "none" -> Skipped
          BY <3>1, <4>2 DEF ReadEmail
        <5>2. cycle.cache[Shows(e, Slot[2])] \in {"unasked", "found", "none"}
          BY <2>1, SkippedTyped, NamingTyped DEF IInv, Cycles
        <5>. QED BY <4>2, <5>1, <5>2
      <4>. QED BY <2>1, <4>1, <4>2 DEF Cycles
    <3>2. CASE Answer
      BY <2>1, <3>2 DEF Answer, Cycles, Skipped
    <3>3. CASE Update
      BY <2>1, <3>3 DEF Update, Cycles, Skipped
    <3>. QED BY <1>3, <3>1, <3>2, <3>3
  <2>3. InHand(Skipped) \subseteq InHand(cycle) /\ Slot \in InHand(cycle)
    BY <2>1, SkippedInHand
  <2>4. CASE cycle'.todo = cycle.todo /\ cycle'.work = cycle.work
    BY <2>4 DEF InHand
  <2>5. CASE cycle'.todo = Skipped.todo /\ cycle'.work = Skipped.work
    BY <2>3, <2>5 DEF InHand
  <2>6. CASE /\ cycle'.todo = Skipped.todo
             /\ cycle'.work = [Skipped.work EXCEPT ![Slot] = cycle.asking]
    <3>1. Skipped.work \in [Slots -> Identities \union {Null}]
      BY <2>1, SkippedTyped DEF Cycles
    <3>2. \A s \in Slots : s # Slot => cycle'.work[s] = Skipped.work[s]
      BY <2>6, <3>1
    <3>3. InHand(cycle') \subseteq InHand(Skipped) \union {Slot}
      BY <2>6, <3>2 DEF InHand
    <3>. QED BY <2>3, <3>3
  <2>. QED BY <2>2, <2>4, <2>5, <2>6
<1>4. ASSUME Abort
      PROVE  InHand(cycle') \subseteq InHand(cycle)
  <2>1. cycle'.todo = <<>> /\ cycle'.work = cycle.work
    BY <1>4 DEF Abort, IInv, TypeOK, Cycles
  <2>. QED BY <2>1 DEF InHand
<1>5. CASE cycle' = Asleep
  BY <1>1, <1>5, AsleepInHand
<1>6. CASE UNCHANGED cycle
  BY <1>1, <1>6
<1>. QED BY <1>1, <1>2, <1>3, <1>4, <1>5, <1>6
         DEF Next, vars, CycleStep, Commit, CycleFails, CycleRollsBack, Ingest, Learn,
             SyncedStep, Consume, UpdateRow, CommitSynced, SyncedFails, SyncedRollsBack,
             BreakDeadlock, NothingToDo

-----------------------------------------------------------------------------
(* UserIdBackfill implements ResolvedIds: an ingestion and the two commits    *)
(* are its steps, everything else leaves what a reader sees as it is.         *)

LEMMA ListsShown ==
  ASSUME NEW s \in Slots, NEW i, Lists(s, i)
  PROVE  i \in Abs!Shown(s) /\ i \in directory
BY DEF Lists, Of, Abs!Shown, BookingOf

LEMMA IngestRefines == ASSUME IInv, NEW e \in Events, Ingest(e) PROVE Abs!Ingest(e)
<1>1. e \notin stored /\ stored' = stored \union {e} /\ UNCHANGED directory
  BY DEF Ingest
<1>2. ASSUME NEW s \in Slots PROVE ids'[s] \in directory \union {Null}
  <2>1. CASE ids'[s] # ids[s]
    BY <2>1, IngestWrites
  <2>2. CASE ids'[s] = ids[s]
    BY <2>2 DEF IInv, OnlyNamedParticipants, Names
  <2>. QED BY <2>1, <2>2
<1>3. ids' \in [Slots -> directory \union {Null}]
  <2>1. ids' \in [Slots -> Identities \union {Null}]
    BY IngestTyped DEF IInv, TypeOK
  <2>. QED BY <1>2, <2>1
<1>4. ASSUME NEW s \in Slots, ids'[s] # ids[s]
      PROVE  s[1] = BookingOf(e) /\ ids'[s] \in Gives(e, s[2])
  BY <1>4, IngestWrites
<1>. QED BY <1>1, <1>3, <1>4 DEF Abs!Ingest, Abs!Update, Abs!Changed, Abs!Slots, Slots

(* What a commit writes: NULLs become ids of participants. *)
LEMMA ResolveRefines ==
  ASSUME IInv, TypeOK', UNCHANGED <<stored, directory>>,
         \A s \in Slots : ids'[s] # ids[s] => ids[s] = Null /\ Lists(s, ids'[s])
  PROVE  Abs!Resolve
<1>1. ASSUME NEW s \in Slots PROVE ids'[s] \in directory \union {Null}
  BY DEF IInv, OnlyNamedParticipants, Names, Lists
<1>2. ids' \in [Slots -> directory \union {Null}]
  BY <1>1 DEF TypeOK
<1>3. \A s \in Slots : ids'[s] # ids[s] => ids'[s] \in Abs!Shown(s)
  BY ListsShown
<1>. QED BY <1>2, <1>3 DEF Abs!Resolve, Abs!Update, Abs!Changed, Abs!Slots, Slots

LEMMA CommitRefines == ASSUME IInv, WithinBatch, Commit PROVE Abs!Backfill
<1>1. /\ UNCHANGED <<stored, directory>>
      /\ ids' = [s \in Slots |-> IF cycle.work[s] # Null THEN cycle.work[s] ELSE ids[s]]
  BY DEF Commit
<1>2. ASSUME NEW s \in Slots, ids'[s] # ids[s]
      PROVE  ids[s] = Null /\ Lists(s, ids'[s]) /\ s \in InHand(cycle)
  BY <1>1, <1>2 DEF IInv, WorkIsLocked, InHand
<1>3. Abs!Resolve
  BY <1>1, <1>2, CycleTyped, ResolveRefines DEF IInv, CycleStep
<1>4. Cardinality(BookingsOf(Abs!Changed)) <= Batch
  <2>1. Abs!Changed \in SUBSET InHand(cycle) /\ InHand(cycle) \in SUBSET Slots
    BY <1>2 DEF Abs!Changed, Abs!Slots, Slots, InHand
  <2>. QED BY <2>1, BookingsFinite, FewerBookings DEF WithinBatch, BookingsOf
<1>. QED BY <1>3, <1>4 DEF Abs!Backfill, BookingsOf, Abs!Cardinality, Cardinality

LEMMA CommitSyncedRefines ==
  ASSUME IInv, NEW i \in Identities, CommitSynced(i)
  PROVE  Abs!Sync(i)
<1>1. /\ UNCHANGED <<stored, directory>>
      /\ ids' = [s \in Slots |-> IF lock[s[1]] = i /\ s[2] = i.role THEN i ELSE ids[s]]
  BY DEF CommitSynced
<1>2. ASSUME NEW s \in Slots, ids'[s] # ids[s]
      PROVE  ids[s] = Null /\ Lists(s, ids'[s]) /\ ids'[s] = i
  <2>1. lock[s[1]] = i /\ s[2] = i.role /\ ids'[s] = i
    BY <1>1, <1>2
  <2>2. s[1] \in Bookings /\ s = <<s[1], i.role>>
    BY <2>1, SlotParts
  <2>. QED BY <2>1, <2>2 DEF IInv, HeldIsMatched
<1>3. Abs!Resolve
  BY <1>1, <1>2, SyncedTyped, ResolveRefines DEF IInv, SyncedStep
<1>. QED BY <1>2, <1>3 DEF Abs!Sync, Abs!Changed, Abs!Slots, Slots

(* The cycle and the user.synced transactions, with the locks, the answers    *)
(* over HTTP and the deadlocks between their statements, implement the steps  *)
(* of ResolvedIds (run_once, backfill_user_id_by_email, upsert).              *)
THEOREM ImplementsResolvedIds == Spec => Resolves
<1>1. Init => Abs!Init /\ WithinBatch
  <2>. SUFFICES ASSUME Init PROVE Abs!Init /\ WithinBatch
    OBVIOUS
  <2>1. BookingsOf(InHand(cycle)) = {}
    BY AsleepInHand DEF Init, BookingsOf
  <2>2. WithinBatch
    BY <2>1, FS_EmptySet, BackfillAssumption DEF WithinBatch, BookingsOf
  <2>. QED BY <2>2 DEF Init, Abs!Init, Abs!Slots, Slots
<1>2. IInv /\ WithinBatch /\ [Next]_vars => [Abs!Next]_(Abs!vars)
  <2>. SUFFICES ASSUME IInv, WithinBatch, [Next]_vars
                PROVE  Abs!Next \/ UNCHANGED Abs!vars
    OBVIOUS
  <2>1. CASE \E e \in Events : Ingest(e)
    BY <2>1, IngestRefines DEF Abs!Next
  <2>2. ASSUME NEW i \in Identities, Learn(i)
        PROVE  Abs!Next
    BY <2>2 DEF Learn, Abs!Learn, Abs!Next
  <2>3. ASSUME NEW i \in Identities, CommitSynced(i)
        PROVE  Abs!Next
    BY <2>3, CommitSyncedRefines DEF Abs!Next
  <2>4. CASE Commit
    BY <2>4, CommitRefines DEF Abs!Next
  <2>5. CASE UNCHANGED <<stored, ids, directory>>
    BY <2>5 DEF Abs!vars
  <2>. QED BY <2>1, <2>2, <2>3, <2>4, <2>5
           DEF Next, vars, CycleStep, Begin, ReadEmail, Answer, Abort, Update, CycleFails,
               CycleRollsBack, SyncedStep, Consume, UpdateRow, SyncedFails, SyncedRollsBack,
               BreakDeadlock, NothingToDo
<1>3. IInv /\ WithinBatch /\ [Next]_vars => WithinBatch'
  BY BatchKept
<1>. QED BY <1>1, <1>2, <1>3, InductiveInvariant, PTL DEF Spec, Resolves, Abs!Spec
=============================================================================
