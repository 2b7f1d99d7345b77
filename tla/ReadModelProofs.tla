--------------------------- MODULE ReadModelProofs ---------------------------
(***************************************************************************)
(* For any set of events about a booking, any contents, any order of        *)
(* arrival and any moment their statements may begin, each table says what  *)
(* ReadModel's properties say of it.                                        *)
(***************************************************************************)
EXTENDS ReadModel, BookingTablesProofs, FiniteSetTheorems, WellFoundedInduction

-----------------------------------------------------------------------------
(* Places in a sequence. *)

LEMMA HasLeast ==
  ASSUME NEW T \in SUBSET Nat, T # {}
  PROVE  \E x \in T : \A y \in T : x <= y
<1>1. PICK x \in T : \A y \in T : ~ (<<y, x>> \in OpToRel(<, Nat))
  BY WFMin, NatLessThanWellFounded, Zenon
<1>2. ASSUME NEW y \in T PROVE x <= y
  <2>1. ~ (y < x)
    BY <1>1 DEF OpToRel
  <2>. QED BY <2>1
<1>. QED BY <1>2

LEMMA PlacesBounds ==
  ASSUME NEW seq \in Seq(Events), NEW S, Places(seq, S) # {}
  PROVE  /\ Min(Places(seq, S)) \in Places(seq, S)
         /\ \A i \in Places(seq, S) : Min(Places(seq, S)) <= i
         /\ Max(Places(seq, S)) \in Places(seq, S)
         /\ \A i \in Places(seq, S) : i <= Max(Places(seq, S))
<1>. DEFINE P == Places(seq, S)
            mirror == {Len(seq) - i : i \in P}
<1>1. P \in SUBSET (1..Len(seq)) /\ Len(seq) \in Nat
  BY DEF Places
<1>2. \E x \in P : \A y \in P : x <= y
  BY <1>1, HasLeast
<1>3. \E x \in P : \A y \in P : y <= x
  <2>1. mirror \in SUBSET Nat /\ mirror # {}
    BY <1>1
  <2>2. PICK m \in mirror : \A n \in mirror : m <= n
    BY <2>1, HasLeast
  <2>3. PICK x \in P : m = Len(seq) - x
    BY <2>2
  <2>4. ASSUME NEW y \in P PROVE y <= x
    <3>1. Len(seq) - x <= Len(seq) - y
      BY <2>2, <2>3
    <3>. QED BY <1>1, <3>1
  <2>. QED BY <2>4
<1>. HIDE DEF P
<1>4. Min(P) \in P /\ \A y \in P : Min(P) <= y
  BY <1>2 DEF Min
<1>5. Max(P) \in P /\ \A y \in P : y <= Max(P)
  <2>1. \E x \in P : \A y \in P : x >= y
    BY <1>1, <1>3
  <2>2. Max(P) \in P /\ \A y \in P : Max(P) >= y
    BY <2>1 DEF Max
  <2>. QED BY <1>1, <2>2
<1>. QED BY <1>4, <1>5 DEF P

LEMMA PlacesOfAppend ==
  ASSUME NEW seq \in Seq(Events), NEW S, NEW e \in Events
  PROVE  Places(Append(seq, e), S) =
           IF e \in S THEN Places(seq, S) \union {Len(seq) + 1} ELSE Places(seq, S)
<1>1. /\ DOMAIN Append(seq, e) = 1..(Len(seq) + 1) /\ DOMAIN seq = 1..Len(seq)
      /\ Len(seq) \in Nat
      /\ \A i \in 1..Len(seq) : Append(seq, e)[i] = seq[i]
      /\ Append(seq, e)[Len(seq) + 1] = e
  OBVIOUS
<1>. QED BY <1>1 DEF Places

(* The greatest and the least of a set of places. *)
LEMMA MaxIs ==
  ASSUME NEW P \in SUBSET Nat, NEW m \in P, \A i \in P : i <= m
  PROVE  Max(P) = m
<1>1. Max(P) \in P /\ \A i \in P : Max(P) >= i
  BY DEF Max
<1>2. Max(P) <= m /\ m <= Max(P) /\ Max(P) \in Nat /\ m \in Nat
  BY <1>1
<1>. QED BY <1>2

LEMMA MinIs ==
  ASSUME NEW P \in SUBSET Nat, NEW m \in P, \A i \in P : m <= i
  PROVE  Min(P) = m
<1>1. Min(P) \in P /\ \A i \in P : Min(P) <= i
  BY DEF Min
<1>2. Min(P) <= m /\ m <= Min(P) /\ Min(P) \in Nat /\ m \in Nat
  BY <1>1
<1>. QED BY <1>2

LEMMA LastOfAppend ==
  ASSUME NEW seq \in Seq(Events), NEW S, NEW e \in Events
  PROVE  LastIn(Append(seq, e), S) = IF e \in S THEN e ELSE LastIn(seq, S)
<1>. DEFINE P == Places(seq, S)
            n == Len(seq) + 1
<1>1. P \in SUBSET (1..Len(seq)) /\ Len(seq) \in Nat
  BY DEF Places
<1>2. /\ \A i \in 1..Len(seq) : Append(seq, e)[i] = seq[i]
      /\ Append(seq, e)[n] = e
  OBVIOUS
<1>3. CASE e \in S
  <2>1. Places(Append(seq, e), S) = P \union {n}
    BY <1>3, PlacesOfAppend
  <2>2. Max(P \union {n}) = n
    BY <1>1, MaxIs
  <2>. QED BY <1>2, <1>3, <2>1, <2>2 DEF LastIn
<1>4. CASE e \notin S
  <2>1. Places(Append(seq, e), S) = P
    BY <1>4, PlacesOfAppend
  <2>2. P # {} => Append(seq, e)[Max(P)] = seq[Max(P)]
    BY <1>1, <1>2, PlacesBounds
  <2>. QED BY <1>4, <2>1, <2>2 DEF LastIn
<1>. QED BY <1>3, <1>4

LEMMA FirstOfAppend ==
  ASSUME NEW seq \in Seq(Events), NEW S, NEW e \in Events
  PROVE  FirstIn(Append(seq, e), S) = IF FirstIn(seq, S) = Null /\ e \in S
                                      THEN e ELSE FirstIn(seq, S)
<1>. DEFINE P == Places(seq, S)
            n == Len(seq) + 1
<1>1. P \in SUBSET (1..Len(seq)) /\ Len(seq) \in Nat
  BY DEF Places
<1>2. /\ \A i \in 1..Len(seq) : Append(seq, e)[i] = seq[i]
      /\ Append(seq, e)[n] = e
  OBVIOUS
<1>3. CASE P = {}
  <2>1. Min({n}) = n
    BY <1>1, MinIs
  <2>2. FirstIn(seq, S) = Null
    BY <1>3 DEF FirstIn
  <2>3. e \in S => Places(Append(seq, e), S) = {n}
    BY <1>3, PlacesOfAppend
  <2>4. e \notin S => Places(Append(seq, e), S) = {}
    BY <1>3, PlacesOfAppend
  <2>. QED BY <1>2, <2>1, <2>2, <2>3, <2>4 DEF FirstIn
<1>4. CASE P # {}
  <2>1. Min(P) \in P /\ \A i \in P : Min(P) <= i
    BY <1>4, PlacesBounds
  <2>2. Min(P \union {n}) = Min(P)
    BY <1>1, <2>1, MinIs
  <2>3. FirstIn(Append(seq, e), S) = seq[Min(P)]
    <3>1. Append(seq, e)[Min(P)] = seq[Min(P)]
      BY <1>1, <1>2, <2>1
    <3>2. CASE e \in S
      <4>1. Places(Append(seq, e), S) = P \union {n}
        BY <3>2, PlacesOfAppend
      <4>2. Places(Append(seq, e), S) # {}
        BY <4>1
      <4>. QED BY <2>2, <3>1, <4>1, <4>2 DEF FirstIn
    <3>3. CASE e \notin S
      BY <1>4, <3>1, <3>3, PlacesOfAppend DEF FirstIn
    <3>. QED BY <3>2, <3>3
  <2>4. FirstIn(seq, S) = seq[Min(P)] /\ seq[Min(P)] \in Events
    BY <1>1, <1>4, <2>1 DEF FirstIn
  <2>. QED BY <2>3, <2>4, EventsAssumption
<1>. QED BY <1>3, <1>4

(* Null stands for no event at all. *)
LEMMA NoLast ==
  ASSUME NEW seq \in Seq(Events), NEW S
  PROVE  /\ LastIn(seq, S) = Null <=> Places(seq, S) = {}
         /\ LastIn(seq, S) # Null => LastIn(seq, S) \in S \intersect Events
         /\ FirstIn(seq, S) = Null <=> Places(seq, S) = {}
         /\ FirstIn(seq, S) # Null => /\ FirstIn(seq, S) \in S \intersect Events
                                      /\ \E i \in DOMAIN seq : FirstIn(seq, S) = seq[i]
<1>1. ASSUME NEW i \in Places(seq, S) PROVE seq[i] \in S \intersect Events /\ i \in DOMAIN seq
  BY DEF Places
<1>2. CASE Places(seq, S) = {}
  BY <1>2 DEF LastIn, FirstIn
<1>3. CASE Places(seq, S) # {}
  BY <1>1, <1>3, PlacesBounds, EventsAssumption DEF LastIn, FirstIn
<1>. QED BY <1>2, <1>3

-----------------------------------------------------------------------------
(* Types: every handler leaves a typed table typed. *)

LEMMA ColumnsTyped ==
  ASSUME NEW e \in Events, NEW found
  PROVE  /\ \A c \in {"org", "cli", "newCli", "url", "status", "email", "clicked",
                      "msg", "type", "stream", "job"} : Ev[e][c] \in Column(c)
         /\ Ev[e].at \in Nat
         /\ LinkUser(e) # Null => LinkUser(e) \in LinkUsers
         /\ ClientOf(e, found) \in Users
         /\ UserFor(e, found) \in Users
         /\ Null \in Users
<1>1. \A c : Ev[e][c] \in Column(c)
  BY DEF Column
<1>2. Ev[e].org \in Users /\ Ev[e].cli \in Users /\ Ev[e].newCli \in Users
  BY DEF Users, Column
<1>3. Null \in Users
  BY DEF Users, Column
<1>4. ClientOf(e, found) \in Users
  BY <1>2 DEF ClientOf
<1>5. UserFor(e, found) \in Users
  BY <1>2, <1>3, <1>4 DEF UserFor
<1>6. LinkUser(e) # Null => LinkUser(e) \in LinkUsers
  BY DEF LinkUsers
<1>. QED BY <1>1, <1>3, <1>4, <1>5, <1>6, EventsAssumption

LEMMA LinksTyped ==
  ASSUME NEW L \in SUBSET LinkRows, NEW e \in Events, NEW seen
  PROVE  LinksAfter(L, e, seen) \subseteq LinkRows
<1>1. LinkUser(e) # Null => LinkOf(e) \in LinkRows
  BY ColumnsTyped DEF LinkRows, LinkOf
<1>2. \A l \in LinkRows : [l EXCEPT !.url = Ev[e].url, !.source = e] \in LinkRows
  BY ColumnsTyped DEF LinkRows
<1>. QED BY <1>1, <1>2 DEF LinksAfter, Linked, Unlinked

LEMMA EmailTyped ==
  ASSUME NEW M \in [Jobs -> EmailRows], NEW e \in Events, NEW found
  PROVE  /\ EmailAfter(M, e, found) \in [Jobs -> EmailRows]
         /\ \A j \in Jobs : EmailAfter(M, e, found)[j] =
              IF IsSent(e) /\ Ev[e].job = j THEN SentRow(M[j], e, found)
              ELSE IF IsStatus(e) /\ Ev[e].job = j THEN StatusRow(M[j], e) ELSE M[j]
<1>1. IsSent(e) \/ IsStatus(e) => Ev[e].job \in Jobs
  BY DEF IsSent, IsStatus, Jobs
<1>2. ~ (IsSent(e) /\ IsStatus(e))
  BY DEF IsSent, IsStatus
<1>3. ASSUME NEW row \in EmailRows
      PROVE  SentRow(row, e, found) \in EmailRows /\ StatusRow(row, e) \in EmailRows
  <2>. DEFINE user == Coalesce(UserFor(e, found), row.user)
              recipient == Coalesce(Ev[e].email, row.recipient)
              clicked == Coalesce(Ev[e].clicked, row.clicked)
  <2>1. user \in Users /\ recipient \in Column("email") /\ clicked \in Column("clicked")
    BY ColumnsTyped DEF Coalesce, EmailRows
  <2>2. Ev[e].status \in Column("status") /\ e \in EventOrNull
    BY ColumnsTyped DEF EventOrNull
  <2>3. SentRow(row, e, found) = [row EXCEPT !.exists = TRUE, !.sentBy = e, !.user = user,
                                             !.recipient = recipient]
    BY DEF SentRow, EmailRows
  <2>4. StatusRow(row, e) = [row EXCEPT !.exists = TRUE, !.statusBy = e,
                                        !.status = Ev[e].status, !.clicked = clicked,
                                        !.recipient = recipient]
    BY DEF StatusRow, EmailRows
  <2>. HIDE DEF user, recipient, clicked
  <2>. QED BY <2>1, <2>2, <2>3, <2>4 DEF EmailRows
<1>4. CASE IsSent(e)
  BY <1>1, <1>2, <1>3, <1>4 DEF EmailAfter
<1>5. CASE ~IsSent(e) /\ IsStatus(e)
  BY <1>1, <1>3, <1>5 DEF EmailAfter
<1>6. CASE ~IsSent(e) /\ ~IsStatus(e)
  BY <1>6 DEF EmailAfter
<1>. QED BY <1>4, <1>5, <1>6

(* A chat row is what its fields say, and a receipt only changes its flag. *)
LEMMA ChatTyped ==
  ASSUME NEW C \in SUBSET ChatRows, NEW e \in Events, NEW found, NEW seen
  PROVE  /\ ChatAfter(C, e, found) \subseteq ChatRows
         /\ ChatReadAfter(C, e, found, seen) \subseteq ChatRows
<1>1. [event |-> e, type |-> ChatEventType(e), msg |-> Ev[e].msg,
       user |-> UserFor(e, found), at |-> Ev[e].at, read |-> FALSE] \in ChatRows
  <2>1. ChatEventType(e) \in Column("type") \union Column("stream")
    BY ColumnsTyped DEF ChatEventType, Coalesce
  <2>. QED BY <2>1, ColumnsTyped DEF ChatRows
<1>2. \A r \in ChatRows : [r EXCEPT !.read = TRUE] \in ChatRows
  BY DEF ChatRows
<1>. QED BY <1>1, <1>2 DEF ChatAfter, ChatReadAfter

LEMMA AppendOnlyTyped ==
  ASSUME NEW e \in Events, NEW found
  PROVE  /\ [event |-> e, org |-> Ev[e].org, cli |-> ClientOf(e, found)]
               \in [event : Events, org : Column("org"), cli : Users]
         /\ [event |-> e, user |-> UserFor(e, found)] \in [event : Events, user : Users]
BY ColumnsTyped

-----------------------------------------------------------------------------
(* The arrival of an event. *)

LEMMA Arrival ==
  ASSUME TypeOK, NEW e \in Events, Ingest(e)
  PROVE  /\ log' = Append(log, e) /\ log' \in Seq(Events)
         /\ e \notin Arrived /\ Arrived' = Arrived \union {e}
         /\ Len(log) \in Nat /\ Len(log') = Len(log) + 1
         /\ DOMAIN log = 1..Len(log) /\ DOMAIN log' = 1..(Len(log) + 1)
         /\ \A i \in DOMAIN log : log'[i] = log[i]
         /\ log'[Len(log) + 1] = e
         /\ \A S : LastIn(log', S) = IF e \in S THEN e ELSE LastIn(log, S)
         /\ \A S : FirstIn(log', S) = IF FirstIn(log, S) = Null /\ e \in S
                                      THEN e ELSE FirstIn(log, S)
<1>1. log' = Append(log, e) /\ log \in Seq(Events) /\ e \notin Arrived
  BY DEF Ingest, Pending, TypeOK
<1>2. /\ log' \in Seq(Events)
      /\ Len(log) \in Nat /\ Len(log') = Len(log) + 1
      /\ DOMAIN log = 1..Len(log) /\ DOMAIN log' = 1..(Len(log) + 1)
      /\ \A i \in DOMAIN log : log'[i] = log[i]
      /\ log'[Len(log) + 1] = e
  BY <1>1
<1>3. Arrived' = Arrived \union {e}
  BY <1>2 DEF Arrived
<1>. QED BY <1>1, <1>2, <1>3, LastOfAppend, FirstOfAppend

(* Either the event is about the booking and its transaction writes the       *)
(* tables, or no table changes.                                               *)
LEMMA ArrivalWrites ==
  ASSUME NEW e \in Events, Ingest(e)
  PROVE  /\ UNCHANGED <<published, dead, sees>>
         /\ OnBooking(e) =>
              /\ ~Raises(e)
              /\ \E found \in {booking.exists, FALSE} :
                   /\ missed' = IF TooEarly(e, found) THEN missed \union {e} ELSE missed
                   /\ WriteBooking(e, found) /\ ExecuteProjections(e, found)
         /\ ~OnBooking(e) => UNCHANGED missed /\ UNCHANGED tables
BY DEF Ingest

LEMMA ArrivedIsFinite == TypeOK => IsFiniteSet(Arrived)
<1>. SUFFICES ASSUME TypeOK PROVE IsFiniteSet(Arrived)
  OBVIOUS
<1>1. Len(log) \in Nat /\ DOMAIN log = 1..Len(log)
  BY DEF TypeOK
<1>2. log \in Surjection(1..Len(log), Arrived)
  <2>1. log \in [1..Len(log) -> Arrived]
    <3>1. log \in [1..Len(log) -> Events]
      BY DEF TypeOK
    <3>. QED BY <1>1, <3>1 DEF Arrived
  <2>2. \A e \in Arrived : \E i \in 1..Len(log) : log[i] = e
    BY <1>1 DEF Arrived
  <2>. QED BY <2>1, <2>2 DEF Surjection
<1>3. IsFiniteSet(1..Len(log))
  BY <1>1, FS_Interval
<1>. QED BY <1>2, <1>3, FS_Surjection

-----------------------------------------------------------------------------
(* TypeOK. *)

LEMMA InitTyped == Init => TypeOK
<1>. SUFFICES ASSUME Init PROVE TypeOK
  OBVIOUS
<1>1. NoEmail \in EmailRows
  BY DEF NoEmail, EmailRows, Users, Column, EventOrNull
<1>2. /\ Arrived = {} /\ Len(log) = 0 /\ log \in Seq(Events)
      /\ sees \in [Events -> SUBSET Arrived] /\ missed = {}
  BY DEF Init, Arrived
<1>3. ~booking.exists /\ history \in Seq(Entries)
  BY DEF Init, NoRow
<1>4. email \in [Jobs -> EmailRows]
  BY <1>1 DEF Init
<1>. QED BY <1>2, <1>3, <1>4, FS_EmptySet DEF Init, TypeOK

LEMMA BookingTyped ==
  ASSUME TypeOK, NEW e \in Events, NEW found \in {booking.exists, FALSE},
         WriteBooking(e, found)
  PROVE  /\ booking' \in BookingRows /\ booking'.exists
         /\ booking'.firstSeen <= booking'.lastSeen
         /\ history' \in Seq(Entries)
<1>. DEFINE t == [booking |-> booking, history |-> history]
            up == Upserted(booking, e)
<1>1. t \in Tables /\ t.booking = booking /\ t.history = history
  BY DEF TypeOK, Tables
<1>2. Ingested(t, e, found) \in Tables /\ Ingested(t, e, found).booking \in BookingRows
  BY <1>1, IngestedTyped
<1>3. booking' \in BookingRows /\ history' \in Seq(Entries)
  BY <1>2 DEF WriteBooking, Tables
<1>4. CASE Upserts(e, found)
  <2>1. booking' = ClientUpdated(up, e)
    BY <1>4 DEF WriteBooking, Ingested
  <2>2. up \in BookingRows /\ Ev[e].at \in Nat
    BY UpsertedTyped, EventsAssumption DEF TypeOK
  <2>3. up.firstSeen <= up.lastSeen
    <3>1. CASE ~booking.exists
      BY <2>2, <3>1 DEF Upserted
    <3>2. CASE booking.exists
      <4>1. booking \in BookingRows /\ booking.firstSeen <= booking.lastSeen
        BY <3>2 DEF TypeOK, NoRow
      <4>2. up.firstSeen = booking.firstSeen /\ up.lastSeen = Later(booking.lastSeen, Ev[e].at)
        BY <3>2, <4>1 DEF Upserted, BookingRows
      <4>. QED BY <2>2, <4>1, <4>2 DEF Later, BookingRows
    <3>. QED BY <3>1, <3>2
  <2>4. booking'.firstSeen = up.firstSeen /\ booking'.lastSeen = up.lastSeen
    BY <2>1, <2>2, ClientUpdatedTyped
  <2>. QED BY <1>3, <2>3, <2>4 DEF BookingRows
<1>5. CASE ~Upserts(e, found)
  <2>1. booking' = booking /\ booking.exists
    BY <1>5 DEF WriteBooking, Ingested, Upserts
  <2>. QED BY <1>3, <2>1 DEF TypeOK
<1>. QED BY <1>4, <1>5

LEMMA TypeStep ==
  ASSUME TypeOK, [Next]_vars
  PROVE  TypeOK'
<1>1. ASSUME NEW e \in Events, Ingest(e) PROVE TypeOK'
  <2>1. /\ log' \in Seq(Events) /\ Arrived' \subseteq published'
        /\ published' \in Lives /\ dead' \subseteq published' \ Arrived'
        /\ sees' \in [Events -> SUBSET Arrived']
    <3>1. sees' = sees /\ Arrived' = Arrived \union {e}
      BY <1>1, Arrival DEF Ingest
    <3>2. sees' \in [Events -> SUBSET Arrived']
      BY <3>1 DEF TypeOK
    <3>3. /\ published' = published /\ dead' = dead /\ e \notin dead /\ e \in published
          /\ log' = Append(log, e)
      BY <1>1 DEF Ingest, Pending
    <3>. QED BY <3>1, <3>2, <3>3 DEF TypeOK
  <2>2. Len(log') = Cardinality(Arrived')
    <3>1. Cardinality(Arrived \union {e}) = Cardinality(Arrived) + 1
      BY <1>1, Arrival, ArrivedIsFinite, FS_AddElement
    <3>. QED BY <1>1, <3>1, Arrival DEF TypeOK
  <2>3. CASE ~OnBooking(e)
    <3>1. UNCHANGED tables /\ UNCHANGED missed
      BY <1>1, <2>3, ArrivalWrites
    <3>. QED BY <1>1, <2>1, <2>2, <3>1, Arrival DEF TypeOK, tables
  <2>4. CASE OnBooking(e)
    <3>. PICK found \in {booking.exists, FALSE} :
           /\ missed' = IF TooEarly(e, found) THEN missed \union {e} ELSE missed
           /\ WriteBooking(e, found) /\ ExecuteProjections(e, found)
      BY <1>1, <2>4, ArrivalWrites
    <3>1. missed' \subseteq Arrived'
      BY <1>1, Arrival DEF TypeOK
    <3>2. links' \subseteq LinkRows
      BY LinksTyped DEF ExecuteProjections, TypeOK
    <3>3. email' \in [Jobs -> EmailRows]
      BY EmailTyped DEF ExecuteProjections, TypeOK
    <3>4. chat' \subseteq ChatRows
      <4>1. ChatAfter(chat, e, found) \in SUBSET ChatRows
        BY ChatTyped DEF TypeOK
      <4>. QED BY <4>1, ChatTyped DEF ExecuteProjections
    <3>5. /\ lifecycle' \subseteq [event : Events, org : Column("org"), cli : Users]
          /\ telegram' \subseteq [event : Events, user : Users]
          /\ video' \subseteq [event : Events, user : Users]
      BY AppendOnlyTyped
         DEF ExecuteProjections, TypeOK, LifecycleAfter, TelegramAfter, VideoAfter
    <3>6. statusHistory' \subseteq Events
      BY DEF ExecuteProjections, TypeOK, StatusHistoryAfter
    <3>. QED BY <2>1, <2>2, <3>1, <3>2, <3>3, <3>4, <3>5, <3>6, BookingTyped DEF TypeOK
  <2>. QED BY <2>3, <2>4
<1>2. ASSUME NEW e \in Events, Look(e) PROVE TypeOK'
  BY <1>2 DEF Look, TypeOK, tables, Arrived
<1>3. ASSUME NEW e \in Events, Fail(e) PROVE TypeOK'
  BY <1>3 DEF Fail, Pending, TypeOK, tables, Arrived
<1>4. CASE UNCHANGED vars
  BY <1>4 DEF vars, tables, TypeOK, Arrived
<1>. QED BY <1>1, <1>2, <1>3, <1>4 DEF Next, Quiescent

-----------------------------------------------------------------------------
(* AppendOnlyTablesComplete. *)

LEMMA InitComplete == Init => AppendOnlyTablesComplete
<1>. SUFFICES ASSUME Init PROVE AppendOnlyTablesComplete
  OBVIOUS
<1>1. Arrived = {}
  BY DEF Init, Arrived
<1>. QED BY <1>1 DEF Init, AppendOnlyTablesComplete

(* Read receipts leave the set of chat rows' events as it is. *)
LEMMA ReadKeepsRows ==
  ASSUME NEW C \in SUBSET ChatRows, NEW e \in Events, NEW found, NEW seen
  PROVE  {r.event : r \in ChatReadAfter(C, e, found, seen)} = {r.event : r \in C}
<1>1. \A r \in C : [r EXCEPT !.read = TRUE].event = r.event
  BY DEF ChatRows
<1>2. CASE IsReceipt(e, found)
  <2>. DEFINE new(r) == IF r.event \in seen /\ Covers(e, UserFor(e, found), r)
                        THEN [r EXCEPT !.read = TRUE] ELSE r
  <2>1. ChatReadAfter(C, e, found, seen) = {new(r) : r \in C}
    BY <1>2 DEF ChatReadAfter
  <2>2. \A r \in C : new(r).event = r.event
    BY <1>1
  <2>. HIDE DEF new
  <2>. QED BY <2>1, <2>2
<1>3. CASE ~IsReceipt(e, found)
  BY <1>3 DEF ChatReadAfter
<1>. QED BY <1>2, <1>3

(* A row more. *)
LEMMA RowAdded ==
  ASSUME NEW T, NEW row
  PROVE  {r.event : r \in T \union {row}} = {r.event : r \in T} \union {row.event}
OBVIOUS

LEMMA CompleteStep ==
  ASSUME TypeOK, AppendOnlyTablesComplete, NEW e \in Events, Ingest(e)
  PROVE  AppendOnlyTablesComplete'
<1>. DEFINE Stored == Arrived \intersect Booked
<1>1. Arrived' = Arrived \union {e}
  BY Arrival
<1>2. CASE ~OnBooking(e)
  <2>1. Stored' = Stored /\ UNCHANGED tables
    BY <1>1, <1>2, ArrivalWrites DEF Booked
  <2>. QED BY <2>1 DEF AppendOnlyTablesComplete, tables
<1>3. CASE OnBooking(e)
  <2>1. Stored' = Stored \union {e}
    BY <1>1, <1>3 DEF Booked
  <2>2. PICK found \in {booking.exists, FALSE} : ExecuteProjections(e, found)
    BY <1>3, ArrivalWrites
  <2>. HIDE DEF Stored
  <2>3. {r.event : r \in lifecycle'} = {f \in Stored' : Ev[f].type \in LifecycleTypes}
    <3>. DEFINE row == [event |-> e, org |-> Ev[e].org, cli |-> ClientOf(e, found)]
    <3>1. {r.event : r \in lifecycle} = {f \in Stored : Ev[f].type \in LifecycleTypes}
      BY DEF AppendOnlyTablesComplete, Stored
    <3>2. lifecycle' = IF Ev[e].type \in LifecycleTypes THEN lifecycle \union {row} ELSE lifecycle
      BY <2>2 DEF ExecuteProjections, LifecycleAfter
    <3>3. row.event = e
      OBVIOUS
    <3>. HIDE DEF row
    <3>. QED BY <2>1, <3>1, <3>2, <3>3, RowAdded
  <2>4. {r.event : r \in telegram'} = {f \in Stored' : Ev[f].type = "notification.telegram.message_sent"}
    <3>. DEFINE row == [event |-> e, user |-> UserFor(e, found)]
    <3>1. {r.event : r \in telegram} = {f \in Stored : Ev[f].type = "notification.telegram.message_sent"}
      BY DEF AppendOnlyTablesComplete, Stored
    <3>2. telegram' = IF Ev[e].type = "notification.telegram.message_sent" THEN telegram \union {row} ELSE telegram
      BY <2>2 DEF ExecuteProjections, TelegramAfter
    <3>3. row.event = e
      OBVIOUS
    <3>. HIDE DEF row
    <3>. QED BY <2>1, <3>1, <3>2, <3>3, RowAdded
  <2>5. {r.event : r \in video'} = {f \in Stored' : Ev[f].type \in JitsiTypes}
    <3>. DEFINE row == [event |-> e, user |-> UserFor(e, found)]
    <3>1. {r.event : r \in video} = {f \in Stored : Ev[f].type \in JitsiTypes}
      BY DEF AppendOnlyTablesComplete, Stored
    <3>2. video' = IF Ev[e].type \in JitsiTypes THEN video \union {row} ELSE video
      BY <2>2 DEF ExecuteProjections, VideoAfter
    <3>3. row.event = e
      OBVIOUS
    <3>. HIDE DEF row
    <3>. QED BY <2>1, <3>1, <3>2, <3>3, RowAdded
  <2>6. {r.event : r \in chat'} = {f \in Stored' : IsChat(f)}
    <3>1. ChatAfter(chat, e, found) \in SUBSET ChatRows
      BY ChatTyped DEF TypeOK
    <3>2. {r.event : r \in chat'} = {r.event : r \in ChatAfter(chat, e, found)}
      BY <2>2, <3>1, ReadKeepsRows DEF ExecuteProjections
    <3>3. {r.event : r \in ChatAfter(chat, e, found)} = {f \in Stored' : IsChat(f)}
      <4>. DEFINE row == [event |-> e, type |-> ChatEventType(e), msg |-> Ev[e].msg,
                          user |-> UserFor(e, found), at |-> Ev[e].at, read |-> FALSE]
      <4>1. {r.event : r \in chat} = {f \in Stored : IsChat(f)}
        BY DEF AppendOnlyTablesComplete, Stored
      <4>2. ChatAfter(chat, e, found) = IF IsChat(e) THEN chat \union {row} ELSE chat
        BY DEF ChatAfter
      <4>3. row.event = e
        OBVIOUS
      <4>. HIDE DEF row
      <4>. QED BY <2>1, <4>1, <4>2, <4>3, RowAdded
    <3>. QED BY <3>2, <3>3
  <2>7. statusHistory' = {f \in Stored' : IsStatus(f) /\ Ev[f].status # Null}
    <3>1. IsStatus(e) => email'[Ev[e].job].exists
      <4>1. IsStatus(e) => Ev[e].job \in Jobs /\ ~IsSent(e)
        BY DEF IsStatus, IsSent, Jobs
      <4>2. IsStatus(e) => email'[Ev[e].job] = StatusRow(email[Ev[e].job], e)
        BY <2>2, <4>1, EmailTyped DEF ExecuteProjections, TypeOK
      <4>. QED BY <4>1, <4>2 DEF StatusRow, TypeOK, EmailRows
    <3>2. statusHistory = {f \in Stored : IsStatus(f) /\ Ev[f].status # Null}
      BY DEF AppendOnlyTablesComplete, Stored
    <3>3. statusHistory' = IF IsStatus(e) /\ Ev[e].status # Null
                           THEN statusHistory \union {e} ELSE statusHistory
      BY <2>2, <3>1 DEF ExecuteProjections, StatusHistoryAfter
    <3>. QED BY <2>1, <3>2, <3>3
  <2>. QED BY <2>3, <2>4, <2>5, <2>6, <2>7 DEF AppendOnlyTablesComplete, Stored
<1>. QED BY <1>2, <1>3

-----------------------------------------------------------------------------
(* EmailKeepsBothHalves. *)

LEMMA InitHalves == Init => EmailKeepsBothHalves
<1>. SUFFICES ASSUME Init PROVE EmailKeepsBothHalves
  OBVIOUS
<1>1. \A S : LastOf(S) = Null
  BY DEF Init, LastOf, LastIn, Places
<1>2. \A j \in Jobs : email[j] = NoEmail
  BY DEF Init
<1>. QED BY <1>1, <1>2 DEF EmailKeepsBothHalves, NoEmail

LEMMA HalvesStep ==
  ASSUME TypeOK, EmailKeepsBothHalves, NEW e \in Events, Ingest(e)
  PROVE  EmailKeepsBothHalves'
<1>0. OnBooking(e) => \E found \in {booking.exists, FALSE} : email' = EmailAfter(email, e, found)
  BY ArrivalWrites DEF ExecuteProjections
<1>1. \A S : LastOf(S)' = IF e \in S THEN e ELSE LastOf(S)
  BY Arrival DEF LastOf
<1>2. e # Null
  BY EventsAssumption
<1>. SUFFICES ASSUME NEW j \in Jobs
     PROVE LET About == SentOf(j) \union StatusesOf(j)
               Clicked == {f \in StatusesOf(j) : Ev[f].clicked # Null}
               Known == {f \in About : Ev[f].email # Null}
               row == email'[j]
           IN  /\ row.exists <=> LastOf(About)' # Null
               /\ row.sentBy = LastOf(SentOf(j))' /\ row.statusBy = LastOf(StatusesOf(j))'
               /\ row.statusBy # Null => row.status = Ev[row.statusBy].status
               /\ (row.clicked = Null) <=> (LastOf(Clicked)' = Null)
               /\ LastOf(Known)' # Null => row.recipient = Ev[LastOf(Known)'].email
  BY DEF EmailKeepsBothHalves
<1>. DEFINE About == SentOf(j) \union StatusesOf(j)
            Clicked == {f \in StatusesOf(j) : Ev[f].clicked # Null}
            Known == {f \in About : Ev[f].email # Null}
<1>3. /\ email[j].exists <=> LastOf(About) # Null
      /\ email[j].sentBy = LastOf(SentOf(j)) /\ email[j].statusBy = LastOf(StatusesOf(j))
      /\ email[j].statusBy # Null => email[j].status = Ev[email[j].statusBy].status
      /\ (email[j].clicked = Null) <=> (LastOf(Clicked) = Null)
      /\ LastOf(Known) # Null => email[j].recipient = Ev[LastOf(Known)].email
  BY DEF EmailKeepsBothHalves
<1>4. email[j] \in EmailRows
  BY DEF TypeOK
<1>5. CASE e \notin About
  <2>1. e \notin SentOf(j) /\ e \notin StatusesOf(j) /\ e \notin Clicked /\ e \notin Known
    BY <1>5
  <2>2. email'[j] = email[j]
    <3>1. CASE OnBooking(e)
      <4>1. ~ (IsSent(e) /\ Ev[e].job = j) /\ ~ (IsStatus(e) /\ Ev[e].job = j)
        BY <3>1, <2>1 DEF SentOf, StatusesOf, Booked
      <4>2. PICK found : email' = EmailAfter(email, e, found)
        BY <1>0, <3>1
      <4>. QED BY <4>1, <4>2, EmailTyped DEF TypeOK
    <3>2. CASE ~OnBooking(e)
      BY <3>2, ArrivalWrites DEF tables
    <3>. QED BY <3>1, <3>2
  <2>. HIDE DEF About, Clicked, Known
  <2>. QED BY <1>1, <1>3, <1>5, <2>1, <2>2 DEF About, Clicked, Known
<1>6. CASE e \in About
  <2>1. PICK found : email' = EmailAfter(email, e, found)
    BY <1>0, <1>6 DEF SentOf, StatusesOf, Booked
  <2>2. CASE e \in SentOf(j)
    <3>1. IsSent(e) /\ Ev[e].job = j /\ e \notin StatusesOf(j) /\ e \notin Clicked
      BY <2>2 DEF SentOf, StatusesOf, IsSent, IsStatus
    <3>2. email'[j] = SentRow(email[j], e, found)
      BY <2>1, <3>1, EmailTyped DEF TypeOK
    <3>3. /\ email'[j].exists /\ email'[j].sentBy = e
          /\ email'[j].recipient = Coalesce(Ev[e].email, email[j].recipient)
          /\ email'[j].statusBy = email[j].statusBy /\ email'[j].status = email[j].status
          /\ email'[j].clicked = email[j].clicked
      BY <1>4, <3>2 DEF SentRow, EmailRows
    <3>4. e \in Known <=> Ev[e].email # Null
      BY <1>6
    <3>5. /\ LastOf(About)' = e /\ LastOf(SentOf(j))' = e
          /\ LastOf(StatusesOf(j))' = LastOf(StatusesOf(j))
          /\ LastOf(Clicked)' = LastOf(Clicked)
          /\ LastOf(Known)' = IF Ev[e].email # Null THEN e ELSE LastOf(Known)
      BY <1>1, <1>6, <2>2, <3>1, <3>4
    <3>. HIDE DEF About, Clicked, Known
    <3>. QED BY <1>2, <1>3, <3>3, <3>5 DEF Coalesce, About, Clicked, Known
  <2>3. CASE e \in StatusesOf(j)
    <3>1. IsStatus(e) /\ Ev[e].job = j /\ e \notin SentOf(j) /\ ~IsSent(e)
      BY <2>3 DEF SentOf, StatusesOf, IsSent, IsStatus
    <3>2. email'[j] = StatusRow(email[j], e)
      BY <2>1, <3>1, EmailTyped DEF TypeOK
    <3>3. /\ email'[j].exists /\ email'[j].statusBy = e /\ email'[j].status = Ev[e].status
          /\ email'[j].recipient = Coalesce(Ev[e].email, email[j].recipient)
          /\ email'[j].clicked = Coalesce(Ev[e].clicked, email[j].clicked)
          /\ email'[j].sentBy = email[j].sentBy
      BY <1>4, <3>2 DEF StatusRow, EmailRows
    <3>4. /\ e \in Known <=> Ev[e].email # Null
          /\ e \in Clicked <=> Ev[e].clicked # Null
      BY <1>6, <2>3
    <3>5. /\ LastOf(About)' = e /\ LastOf(StatusesOf(j))' = e
          /\ LastOf(SentOf(j))' = LastOf(SentOf(j))
          /\ LastOf(Clicked)' = IF Ev[e].clicked # Null THEN e ELSE LastOf(Clicked)
          /\ LastOf(Known)' = IF Ev[e].email # Null THEN e ELSE LastOf(Known)
      BY <1>1, <1>6, <2>3, <3>1, <3>4
    <3>. HIDE DEF About, Clicked, Known
    <3>. QED BY <1>2, <1>3, <3>3, <3>5 DEF Coalesce, About, Clicked, Known
  <2>. QED BY <1>6, <2>2, <2>3
<1>. QED BY <1>5, <1>6

-----------------------------------------------------------------------------
(* OneLinkPerUser. *)

LEMMA InitLinks == Init => OneLinkPerUser /\ RowsOutliveUpdates
<1>. SUFFICES ASSUME Init PROVE OneLinkPerUser /\ RowsOutliveUpdates
  OBVIOUS
<1>1. Arrived = {} /\ links = {} /\ \A S : LastOf(S) = Null
  BY DEF Init, Arrived, LastOf, LastIn, Places
<1>2. \A u \in LinkUsers : Null \notin Creating(u)
  BY EventsAssumption DEF Creating, Booked
<1>. QED BY <1>1, <1>2 DEF OneLinkPerUser, RowsOutliveUpdates

(* What an event does to the links: it creates one, deletes one or neither.   *)
LEMMA LinksWritten ==
  ASSUME NEW e \in Events, Ingest(e)
  PROVE  LET creates == OnBooking(e) /\ Ev[e].type = "meeting.url_created" /\ LinkUser(e) # Null
             deletes == OnBooking(e) /\ IsUnlink(e)
         IN  /\ creates => links' = Linked(links, e)
             /\ deletes => links' = Unlinked(links, e, sees[e])
             /\ ~creates /\ ~deletes => links' = links
<1>1. CASE OnBooking(e)
  <2>1. links' = LinksAfter(links, e, sees[e])
    BY <1>1, ArrivalWrites DEF ExecuteProjections
  <2>2. Ev[e].type = "meeting.url_created" => ~IsUnlink(e)
    BY DEF IsUnlink
  <2>. QED BY <1>1, <2>1, <2>2 DEF LinksAfter
<1>2. CASE ~OnBooking(e)
  BY <1>2, ArrivalWrites DEF tables
<1>. QED BY <1>1, <1>2

LEMMA LinksStep ==
  ASSUME TypeOK, OneLinkPerUser, RowsOutliveUpdates, NEW e \in Events, Ingest(e)
  PROVE  OneLinkPerUser' /\ RowsOutliveUpdates'
<1>. DEFINE me == LinkUser(e)
            creates == OnBooking(e) /\ Ev[e].type = "meeting.url_created" /\ me # Null
            deletes == OnBooking(e) /\ IsUnlink(e)
            mine == {l \in links : l.user = me}
            updated(l) == [l EXCEPT !.url = Ev[e].url, !.source = e]
            Has(L, u) == \E l \in L : l.user = u
            Deleted(u) == \E f \in Arrived \intersect Deleting(u) : LastOf(Creating(u)) \in sees[f]
<1>1. /\ e \notin Arrived /\ Arrived' = Arrived \union {e} /\ e # Null
      /\ \A S : LastOf(S)' = IF e \in S THEN e ELSE LastOf(S)
      /\ sees' = sees /\ \A f \in Events : sees[f] \subseteq Arrived
  BY Arrival, ArrivalWrites, EventsAssumption DEF LastOf, TypeOK
<1>2. /\ \A l, k \in links : l.user = k.user => l = k
      /\ \A l \in links : l.source = LastOf(Creating(l.user))
      /\ \A u \in LinkUsers :
           /\ LastOf(Creating(u) \union Deleting(u)) \in Creating(u) => Has(links, u)
           /\ Deleted(u) => ~Has(links, u)
  BY DEF OneLinkPerUser
<1>3. /\ \A l \in links : /\ l \in LinkRows /\ l.user \in LinkUsers
                          /\ l.born \in Arrived /\ l.source \in Arrived
                          /\ \A f \in Events : l.source \in sees[f] => l.born \in sees[f]
  BY DEF RowsOutliveUpdates, TypeOK, LinkRows
<1>4. \A u \in LinkUsers : /\ u # Null
                           /\ e \in Creating(u) <=> creates /\ u = me
                           /\ e \in Deleting(u) <=> deletes /\ u = me
  BY DEF LinkUsers, Creating, Deleting, Booked, IsUnlink
<1>5. ~ (creates /\ deletes)
  BY DEF IsUnlink
<1>6. SUFFICES /\ \A l, k \in links' : l.user = k.user => l = k
               /\ \A l \in links' : l.source = LastOf(Creating(l.user))'
               /\ \A u \in LinkUsers :
                    /\ LastOf(Creating(u) \union Deleting(u))' \in Creating(u) => Has(links', u)
                    /\ Deleted(u)' => ~Has(links', u)
               /\ \A l \in links' : /\ l.born \in Arrived' /\ l.source \in Arrived'
                                    /\ \A f \in Events : l.source \in sees[f] => l.born \in sees[f]
  BY <1>1 DEF OneLinkPerUser, RowsOutliveUpdates
<1>7. \A u \in LinkUsers :
        Deleted(u)' <=> \/ (Deleted(u) /\ ~(creates /\ u = me))
                       \/ (deletes /\ u = me /\ LastOf(Creating(u)) \in sees[e])
  <2>. SUFFICES ASSUME NEW u \in LinkUsers
       PROVE  (\E f \in Arrived' \intersect Deleting(u) : LastOf(Creating(u))' \in sees'[f]) <=>
                \/ (Deleted(u) /\ ~(creates /\ u = me))
                \/ (deletes /\ u = me /\ LastOf(Creating(u)) \in sees[e])
    OBVIOUS
  <2>1. LastOf(Creating(u))' = IF creates /\ u = me THEN e ELSE LastOf(Creating(u))
    BY <1>1, <1>4
  <2>2. \A f \in Events : e \notin sees[f]
    BY <1>1
  <2>3. Arrived' \intersect Deleting(u) = IF deletes /\ u = me
                                         THEN (Arrived \intersect Deleting(u)) \union {e}
                                         ELSE Arrived \intersect Deleting(u)
    BY <1>1, <1>4
  <2>4. Deleting(u) \subseteq Events
    BY DEF Deleting, Booked
  <2>. HIDE DEF creates, deletes, me
  <2>. QED BY <1>1, <1>5, <2>1, <2>2, <2>3, <2>4
<1>. HIDE DEF Deleted
<1>8. CASE ~creates /\ ~deletes
  <2>1. links' = links
    BY <1>8, LinksWritten
  <2>2. \A u \in LinkUsers : /\ LastOf(Creating(u))' = LastOf(Creating(u))
                             /\ LastOf(Creating(u) \union Deleting(u))' =
                                  LastOf(Creating(u) \union Deleting(u))
    BY <1>1, <1>4, <1>8
  <2>. HIDE DEF creates, deletes, me
  <2>. QED BY <1>1, <1>2, <1>3, <1>7, <1>8, <2>1, <2>2
<1>9. CASE creates
  <2>1. links' = IF mine = {} THEN links \union {LinkOf(e)}
                 ELSE (links \ mine) \union {updated(l) : l \in mine}
    BY <1>9, LinksWritten DEF Linked
  <2>2. /\ LinkOf(e).user = me /\ LinkOf(e).source = e /\ LinkOf(e).born = e
        /\ \A l \in links : updated(l).user = l.user /\ updated(l).source = e
                           /\ updated(l).born = l.born
    BY <1>3 DEF LinkOf, LinkRows
  <2>3. me \in LinkUsers
    BY <1>9 DEF LinkUsers
  <2>4. /\ \A l \in links' :
             (l \in links /\ l.user # me)
               \/ (/\ l.user = me /\ l.source = e
                   /\ l.born \in Arrived \union {e})
        /\ \A l \in links : l.user # me => l \in links'
        /\ Has(links', me)
    <3>. HIDE DEF updated
    <3>. QED BY <1>3, <2>1, <2>2
  <2>5. \A l, k \in links' : l.user = k.user => l = k
    <3>1. \A l, k \in links' : l.user = me /\ k.user = me => l = k
      <4>1. CASE mine = {}
        BY <2>1, <4>1
      <4>2. CASE mine # {}
        <5>1. PICK m \in links : m.user = me /\ mine = {m}
          BY <1>2, <4>2
        <5>2. links' = (links \ {m}) \union {updated(m)}
          BY <2>1, <5>1
        <5>3. \A l \in links' : l.user = me => l = updated(m)
          <6>. HIDE DEF updated
          <6>. QED BY <1>2, <5>1, <5>2
        <5>. QED BY <5>3
      <4>. QED BY <4>1, <4>2
    <3>. QED BY <1>2, <2>4, <3>1
  <2>6. \A u \in LinkUsers : /\ LastOf(Creating(u))' = IF u = me THEN e ELSE LastOf(Creating(u))
                             /\ u # me => LastOf(Creating(u) \union Deleting(u))' =
                                          LastOf(Creating(u) \union Deleting(u))
    BY <1>1, <1>4, <1>5, <1>9
  <2>. HIDE DEF creates, deletes, me, mine, updated
  <2>7. \A l \in links' : l.source = LastOf(Creating(l.user))'
    <3>1. ASSUME NEW l \in links' PROVE l.source = LastOf(Creating(l.user))'
      <4>1. CASE l.user = me
        <5>1. l.source = e
          BY <2>4, <4>1
        <5>2. LastOf(Creating(me))' = e
          BY <2>3, <2>6
        <5>. QED BY <4>1, <5>1, <5>2
      <4>2. CASE l.user # me
        <5>1. l \in links /\ l.user \in LinkUsers
          BY <1>3, <2>4, <4>2
        <5>2. l.source = LastOf(Creating(l.user))
          BY <1>2, <5>1
        <5>3. LastOf(Creating(l.user))' = LastOf(Creating(l.user))
          BY <2>6, <4>2, <5>1
        <5>. QED BY <5>2, <5>3
      <4>. QED BY <4>1, <4>2
    <3>. QED BY <3>1
  <2>8. \A u \in LinkUsers :
          /\ LastOf(Creating(u) \union Deleting(u))' \in Creating(u) => Has(links', u)
          /\ Deleted(u)' => ~Has(links', u)
    BY <1>2, <1>5, <1>7, <1>9, <2>4, <2>6
  <2>9. \A l \in links' : /\ l.born \in Arrived' /\ l.source \in Arrived'
                         /\ \A f \in Events : l.source \in sees[f] => l.born \in sees[f]
    BY <1>1, <1>3, <2>4
  <2>. QED BY <2>5, <2>7, <2>8, <2>9
<1>10. CASE deletes
  <2>1. links' = {l \in links : l.user # me \/ l.born \notin sees[e]}
    BY <1>10, LinksWritten DEF Unlinked
  <2>2. me \in LinkUsers
    BY <1>10 DEF LinkUsers, IsUnlink
  <2>3. \A u \in LinkUsers : /\ LastOf(Creating(u))' = LastOf(Creating(u))
                             /\ LastOf(Creating(u) \union Deleting(u))' =
                                  IF u = me THEN e ELSE LastOf(Creating(u) \union Deleting(u))
    BY <1>1, <1>4, <1>5, <1>10
  <2>4. e \notin Creating(me)
    BY <1>4, <1>5, <1>10, <2>2
  <2>. HIDE DEF creates, deletes, me
  <2>5. LastOf(Creating(me)) \in sees[e] => ~Has(links', me)
    BY <1>2, <1>3, <2>1
  <2>6. \A u \in LinkUsers :
          /\ LastOf(Creating(u) \union Deleting(u))' \in Creating(u) => Has(links', u)
          /\ Deleted(u)' => ~Has(links', u)
    BY <1>2, <1>7, <2>1, <2>3, <2>4, <2>5
  <2>7. \A l \in links' : l \in links
    BY <2>1
  <2>8. \A l \in links' : l.source = LastOf(Creating(l.user))'
    BY <1>2, <1>3, <2>3, <2>7
  <2>. QED BY <1>1, <1>2, <1>3, <2>6, <2>7, <2>8
<1>. QED BY <1>8, <1>9, <1>10

-----------------------------------------------------------------------------
(* ReadExactlyWhenCovered. *)

(* Whom a receipt is of does not depend on the booking having been found. *)
LEMMA ReceiptEitherWay ==
  ASSUME NEW e \in Events, NEW found
  PROVE  /\ IsReceipt(e, found) <=> IsReceipt(e, TRUE)
         /\ IsReceipt(e, TRUE) => UserFor(e, found) = UserFor(e, TRUE)
<1>1. Ev[e].type = "getstream.message.read" => UserFor(e, found) = UserFor(e, TRUE)
  BY DEF UserFor, ClientOf, ReassignsClient
<1>. QED BY <1>1 DEF IsReceipt

LEMMA InitRead == Init => ReadExactlyWhenCovered
BY DEF Init, ReadExactlyWhenCovered

LEMMA ReadStep ==
  ASSUME TypeOK, AppendOnlyTablesComplete, ReadExactlyWhenCovered,
         NEW e \in Events, Ingest(e)
  PROVE  ReadExactlyWhenCovered'
<1>. DEFINE Reads(g, r) == /\ IsReceipt(g, TRUE) /\ r.event \in sees[g]
                           /\ Covers(g, UserFor(g, TRUE), r)
<1>1. /\ e \notin Arrived /\ Arrived' = Arrived \union {e} /\ sees' = sees
      /\ \A g \in Events : sees[g] \subseteq Arrived
  BY Arrival, ArrivalWrites DEF TypeOK
<1>2. \A r \in chat : r.read <=> \E g \in Arrived \intersect Booked : Reads(g, r)
  BY DEF ReadExactlyWhenCovered
<1>3. Booked \subseteq Events
  BY DEF Booked
<1>. HIDE DEF Reads
<1>4. ASSUME NEW r \in chat'
      PROVE  r.read <=> \E g \in Arrived' \intersect Booked : Reads(g, r)
  <2>1. CASE ~OnBooking(e)
    <3>1. r \in chat /\ Arrived' \intersect Booked = Arrived \intersect Booked
      BY <1>1, <2>1, ArrivalWrites DEF tables, Booked
    <3>. QED BY <1>2, <3>1
  <2>2. CASE OnBooking(e)
    <3>. PICK found \in {booking.exists, FALSE} : ExecuteProjections(e, found)
      BY <2>2, ArrivalWrites
    <3>. DEFINE C == ChatAfter(chat, e, found)
                new == [event |-> e, type |-> ChatEventType(e), msg |-> Ev[e].msg,
                        user |-> UserFor(e, found), at |-> Ev[e].at, read |-> FALSE]
                hit(q) == IsReceipt(e, found) /\ q.event \in sees[e]
                                             /\ Covers(e, UserFor(e, found), q)
    <3>1. chat' = ChatReadAfter(C, e, found, sees[e]) /\ C \in SUBSET ChatRows
      BY ChatTyped DEF ExecuteProjections, TypeOK
    <3>2. e \in Booked
      BY <2>2 DEF Booked
    <3>3. PICK q \in C : r = IF hit(q) THEN [q EXCEPT !.read = TRUE] ELSE q
      <4>. HIDE DEF C
      <4>1. CASE IsReceipt(e, found)
        BY <3>1, <4>1 DEF ChatReadAfter
      <4>2. CASE ~IsReceipt(e, found)
        BY <3>1, <4>2 DEF ChatReadAfter
      <4>. QED BY <4>1, <4>2
    <3>4. /\ r.event = q.event /\ r.type = q.type /\ r.user = q.user /\ r.msg = q.msg
          /\ r.at = q.at
          /\ r.read <=> (q.read \/ hit(q))
      <4>1. q \in ChatRows
        BY <3>1
      <4>. HIDE DEF C, hit
      <4>2. CASE hit(q)
        <5>1. r = [q EXCEPT !.read = TRUE]
          BY <3>3, <4>2
        <5>. QED BY <4>1, <4>2, <5>1 DEF ChatRows
      <4>3. CASE ~hit(q)
        <5>1. r = q
          BY <3>3, <4>3
        <5>. QED BY <4>3, <5>1
      <4>. QED BY <4>2, <4>3
    <3>5. \A g : Reads(g, r) <=> Reads(g, q)
      BY <3>4 DEF Reads, Covers
    <3>6. r.read <=> (q.read \/ Reads(e, r))
      BY <3>4, <3>5, ReceiptEitherWay DEF Reads
    <3>7. CASE q \in chat
      BY <1>1, <1>2, <3>2, <3>5, <3>6, <3>7
    <3>8. CASE q \notin chat
      <4>1. q = new
        BY <3>8 DEF ChatAfter
      <4>2. q.event = e /\ q.read = FALSE
        BY <4>1
      <4>3. \A g \in Events : ~Reads(g, q)
        BY <1>1, <4>2 DEF Reads
      <4>. QED BY <1>3, <3>2, <3>5, <3>6, <4>2, <4>3
    <3>. QED BY <3>7, <3>8
  <2>. QED BY <2>1, <2>2
<1>. QED BY <1>1, <1>4 DEF ReadExactlyWhenCovered, Reads

-----------------------------------------------------------------------------
(* BookingIsLastWriter. *)

(* The upsert and update_client leave in each column what the event says of   *)
(* it, or else what was there.                                                *)
LEMMA RowSays ==
  ASSUME NEW row \in {NoRow} \union BookingRows, NEW e \in Events,
         NEW c \in {"status", "start", "org", "cli"}
  PROVE  ClientUpdated(Upserted(row, e), e)[c] =
           IF Says(e, c) # Null \/ ~row.exists THEN Says(e, c) ELSE row[c]
<1>. DEFINE up == Upserted(row, e)
            new == ClientUpdated(up, e)
<1>1. up \in BookingRows
  BY UpsertedTyped
<1>2. /\ new.status = up.status /\ new.start = up.start /\ new.org = up.org
      /\ new.cli = IF ReassignsClient(e) THEN Ev[e].newCli ELSE up.cli
  BY <1>1 DEF ClientUpdated, BookingRows
<1>3. /\ Says(e, "status") = StatusOf(Ev[e].type)
      /\ Says(e, "start") = Ev[e].start /\ Says(e, "org") = Ev[e].org
      /\ Says(e, "cli") = IF ReassignsClient(e) THEN Ev[e].newCli ELSE Ev[e].cli
  BY DEF Says
<1>4. ReassignsClient(e) => Ev[e].newCli # Null
  BY DEF ReassignsClient
<1>5. CASE ~row.exists
  <2>1. /\ up.status = StatusOf(Ev[e].type) /\ up.start = Ev[e].start
        /\ up.org = Ev[e].org /\ up.cli = Ev[e].cli
    BY <1>5 DEF Upserted
  <2>. HIDE DEF up, new
  <2>. QED BY <1>2, <1>3, <1>5, <2>1 DEF new, up
<1>6. CASE row.exists
  <2>1. row \in BookingRows
    BY <1>6 DEF NoRow
  <2>2. /\ up.status = Coalesce(StatusOf(Ev[e].type), row.status)
        /\ up.start = Coalesce(Ev[e].start, row.start)
        /\ up.org = Coalesce(Ev[e].org, row.org) /\ up.cli = Coalesce(Ev[e].cli, row.cli)
    BY <1>6, <2>1 DEF Upserted, BookingRows
  <2>. HIDE DEF up, new
  <2>. QED BY <1>2, <1>3, <1>4, <1>6, <2>2 DEF Coalesce, new, up
<1>. QED BY <1>5, <1>6

LEMMA InitWriter == Init => BookingIsLastWriter
<1>. SUFFICES ASSUME Init PROVE BookingIsLastWriter
  OBVIOUS
<1>1. \A S : LastOf(S) = Null
  BY DEF Init, LastOf, LastIn, Places
<1>2. ~booking.exists
  BY DEF Init, NoRow
<1>. QED BY <1>1, <1>2 DEF BookingIsLastWriter

LEMMA WriterStep ==
  ASSUME TypeOK, BookingIsLastWriter, NEW e \in Events, Ingest(e)
  PROVE  BookingIsLastWriter'
<1>. DEFINE Columns == {"status", "start", "org", "cli"}
            Sayers(c) == {f \in Writers : Says(f, c) # Null}
            new == ClientUpdated(Upserted(booking, e), e)
<1>1. /\ \A S : LastIn(log', S) = IF e \in S THEN e ELSE LastIn(log, S)
      /\ \A S : FirstIn(log', S) = IF FirstIn(log, S) = Null /\ e \in S
                                   THEN e ELSE FirstIn(log, S)
      /\ e \notin Arrived /\ Arrived' = Arrived \union {e}
  BY Arrival
<1>2. log \in Seq(Events) /\ e # Null /\ Ev[e].at \in Nat
  BY EventsAssumption DEF TypeOK
<1>3. booking.exists <=> Places(log, Booked) # {}
  BY <1>2, NoLast DEF BookingIsLastWriter, LastOf
<1>4. missed \subseteq Arrived /\ Writers \subseteq Events
  BY DEF TypeOK, Writers, Booked
<1>5. CASE ~OnBooking(e)
  <2>1. e \notin Booked /\ booking' = booking /\ missed' = missed
    BY <1>5, ArrivalWrites DEF Booked, tables
  <2>2. FirstOf(Booked)' = FirstOf(Booked) /\ LastOf(Booked)' = LastOf(Booked)
    BY <1>1, <2>1 DEF FirstOf, LastOf
  <2>3. Writers' = Writers /\ e \notin Writers
    BY <2>1, <2>2 DEF Writers
  <2>4. \A c : LastToSay(c)' = LastToSay(c)
    BY <1>1, <2>3 DEF LastToSay, LastOf
  <2>5. Arrived' \intersect Writers' = Arrived \intersect Writers
    BY <1>1, <2>3
  <2>. QED BY <2>1, <2>2, <2>4, <2>5 DEF BookingIsLastWriter
<1>6. ASSUME NEW found \in {booking.exists, FALSE}, WriteBooking(e, found), OnBooking(e),
             missed' = IF TooEarly(e, found) THEN missed \union {e} ELSE missed
      PROVE  BookingIsLastWriter'
  <2>1. e \in Booked /\ LastOf(Booked)' # Null
    BY <1>1, <1>2, <1>6 DEF Booked, LastOf
  <2>2. CASE ~Upserts(e, found)
    <3>1. booking' = booking /\ booking.exists /\ Ev[e].queue # "lifecycle" /\ missed' = missed
      BY <1>6, <2>2 DEF WriteBooking, Ingested, Upserts, TooEarly
    <3>2. FirstOf(Booked) # Null /\ FirstOf(Booked) \in Arrived
      BY <1>2, <1>3, <3>1, NoLast DEF FirstOf, Arrived
    <3>3. FirstOf(Booked)' = FirstOf(Booked)
      BY <1>1, <3>2 DEF FirstOf
    <3>4. Writers' = Writers /\ e \notin Writers
      BY <1>1, <1>4, <3>1, <3>2, <3>3 DEF Writers
    <3>5. \A c : LastToSay(c)' = LastToSay(c)
      BY <1>1, <3>4 DEF LastToSay, LastOf
    <3>6. Arrived' \intersect Writers' = Arrived \intersect Writers
      BY <1>1, <3>4
    <3>. QED BY <2>1, <3>1, <3>3, <3>5, <3>6 DEF BookingIsLastWriter
  <2>3. CASE Upserts(e, found)
    <3>1. booking' = new
      BY <1>6, <2>3 DEF WriteBooking, Ingested
    <3>2. booking'.exists /\ booking' \in BookingRows
      BY <1>6, BookingTyped
    <3>3. /\ booking'.lastSeen = IF booking.exists THEN Later(booking.lastSeen, Ev[e].at)
                                 ELSE Ev[e].at
          /\ booking'.firstSeen = IF booking.exists THEN booking.firstSeen ELSE Ev[e].at
      <4>1. Upserted(booking, e) \in BookingRows
        BY UpsertedTyped DEF TypeOK
      <4>2. /\ booking'.lastSeen = Upserted(booking, e).lastSeen
            /\ booking'.firstSeen = Upserted(booking, e).firstSeen
        BY <3>1, <4>1, ClientUpdatedTyped
      <4>3. booking.exists => booking \in BookingRows
        BY DEF TypeOK, NoRow
      <4>. QED BY <4>2, <4>3 DEF Upserted, BookingRows
    <3>4. CASE ~booking.exists
      <4>1. Places(log, Booked) = {} /\ FirstOf(Booked) = Null
        BY <1>2, <1>3, <3>4, NoLast DEF FirstOf
      <4>2. \A S \in SUBSET Booked : LastIn(log, S) = Null
        BY <4>1 DEF LastIn, Places
      <4>3. FirstOf(Booked)' = e
        BY <1>1, <2>1, <4>1 DEF FirstOf
      <4>4. e \in Writers' /\ Writers' \in SUBSET Booked
        BY <2>1, <4>3 DEF Writers
      <4>5. ASSUME NEW c \in Columns
            PROVE  booking'[c] = IF LastToSay(c)' = Null THEN Null ELSE Says(LastToSay(c)', c)
        <5>1. booking'[c] = Says(e, c)
          BY <3>1, <3>4, RowSays DEF TypeOK
        <5>. DEFINE S == {f \in Writers' : Says(f, c) # Null}
        <5>2. LastToSay(c)' = LastIn(log', S)
          BY DEF LastToSay, LastOf
        <5>3. S \in SUBSET Booked /\ (e \in S <=> Says(e, c) # Null)
          BY <4>4
        <5>. HIDE DEF S
        <5>. QED BY <1>1, <1>2, <4>2, <5>1, <5>2, <5>3
      <4>6. Arrived \intersect Booked = {}
        BY <4>1 DEF Places, Arrived
      <4>7. Arrived' \intersect Writers' = {e}
        BY <1>1, <4>4, <4>6
      <4>8. booking'.lastSeen = Ev[e].at /\ booking'.firstSeen = Ev[e].at
        BY <3>3, <3>4
      <4>. QED BY <1>2, <2>1, <3>2, <4>3, <4>5, <4>7, <4>8 DEF BookingIsLastWriter
    <3>5. CASE booking.exists
      <4>1. booking \in BookingRows
        BY <3>5 DEF TypeOK, NoRow
      <4>2. FirstOf(Booked) # Null
        BY <1>2, <1>3, <3>5, NoLast DEF FirstOf
      <4>3. FirstOf(Booked)' = FirstOf(Booked)
        BY <1>1, <4>2 DEF FirstOf
      <4>4. Writers' = Writers \union {e}
        <5>1. Ev[e].queue = "lifecycle" \/ TooEarly(e, found)
          BY <2>3, <3>5 DEF Upserts, TooEarly
        <5>. QED BY <1>6, <2>1, <4>3, <5>1 DEF Writers, TooEarly
      <4>5. ASSUME NEW c \in Columns
            PROVE  booking'[c] = IF LastToSay(c)' = Null THEN Null ELSE Says(LastToSay(c)', c)
        <5>1. booking'[c] = IF Says(e, c) # Null THEN Says(e, c) ELSE booking[c]
          BY <3>1, <3>5, RowSays DEF TypeOK
        <5>2. booking[c] = IF LastToSay(c) = Null THEN Null ELSE Says(LastToSay(c), c)
          BY <3>5 DEF BookingIsLastWriter
        <5>3. LastToSay(c)' = IF Says(e, c) # Null THEN e ELSE LastToSay(c)
          <6>. DEFINE S == {f \in Writers' : Says(f, c) # Null}
          <6>1. LastToSay(c)' = LastIn(log', S)
            BY DEF LastToSay, LastOf
          <6>2. e \in S <=> Says(e, c) # Null
            BY <4>4
          <6>3. Says(e, c) = Null => S = Sayers(c)
            <7>1. ASSUME Says(e, c) = Null, NEW f PROVE f \in S <=> f \in Sayers(c)
              <8>1. f = e => f \notin S /\ f \notin Sayers(c)
                BY <7>1
              <8>2. f # e => (f \in Writers' <=> f \in Writers)
                BY <4>4
              <8>. QED BY <8>1, <8>2
            <7>. HIDE DEF S, Sayers
            <7>. QED BY <7>1
          <6>4. LastToSay(c) = LastIn(log, Sayers(c))
            BY DEF LastToSay, LastOf
          <6>. HIDE DEF S, Sayers
          <6>. QED BY <1>1, <6>1, <6>2, <6>3, <6>4
        <5>. QED BY <1>2, <5>1, <5>2, <5>3
      <4>6. /\ \A f \in Arrived \intersect Writers : booking.lastSeen >= Ev[f].at
            /\ booking.firstSeen = Ev[FirstOf(Booked)].at
        BY <3>5 DEF BookingIsLastWriter
      <4>7. PICK g \in Arrived \intersect Writers : booking.lastSeen = Ev[g].at
        BY <3>5 DEF BookingIsLastWriter
      <4>8. booking.lastSeen \in Nat /\ \A f \in Events : Ev[f].at \in Nat
        BY <4>1, EventsAssumption DEF BookingRows
      <4>9. \A f \in Arrived' \intersect Writers' : f \in Arrived \intersect Writers \/ f = e
        BY <1>1, <4>4
      <4>10. \A f \in Arrived' \intersect Writers' : booking'.lastSeen >= Ev[f].at
        BY <1>2, <1>4, <3>3, <3>5, <4>6, <4>8, <4>9 DEF Later
      <4>11. \E f \in Arrived' \intersect Writers' : booking'.lastSeen = Ev[f].at
        <5>1. g \in Arrived' \intersect Writers' /\ e \in Arrived' \intersect Writers'
          BY <1>1, <4>4, <4>7
        <5>2. booking'.lastSeen = Ev[g].at \/ booking'.lastSeen = Ev[e].at
          BY <3>3, <3>5, <4>7 DEF Later
        <5>. QED BY <5>1, <5>2
      <4>12. booking'.firstSeen = Ev[FirstOf(Booked)'].at
        BY <3>3, <3>5, <4>3, <4>6
      <4>. QED BY <2>1, <3>2, <4>5, <4>10, <4>11, <4>12 DEF BookingIsLastWriter
    <3>. QED BY <3>4, <3>5
  <2>. QED BY <2>2, <2>3
<1>. QED BY <1>5, <1>6, ArrivalWrites

-----------------------------------------------------------------------------
(* HistoryInOrder. *)

(* In a history sorted by effective_from the most recent entry is the last,   *)
(* and only an entry and the next one are adjacent.                           *)
LEMMA SortedHistory ==
  ASSUME NEW h \in Seq(Entries), \A k, l \in DOMAIN h : k < l => h[k].from <= h[l].from
  PROVE  /\ h # <<>> => MostRecent(h) = Len(h)
         /\ \A i, j \in DOMAIN h : Adjacent(h, i, j) => j = i + 1
<1>1. DOMAIN h = 1..Len(h) /\ Len(h) \in Nat /\ \A k \in DOMAIN h : h[k].from \in Nat
  <2>1. \A k \in DOMAIN h : h[k] \in Entries
    OBVIOUS
  <2>. QED BY <2>1 DEF Entries
<1>2. ASSUME h # <<>> PROVE MostRecent(h) = Len(h)
  <2>. DEFINE Recent(i) == \A j \in DOMAIN h \ {i} :
                             \/ h[j].from < h[i].from
                             \/ h[j].from = h[i].from /\ j < i
  <2>1. Len(h) \in DOMAIN h
    BY <1>1, <1>2
  <2>2. Recent(Len(h))
    <3>1. ASSUME NEW j \in DOMAIN h \ {Len(h)}
          PROVE  j < Len(h) /\ h[j].from <= h[Len(h)].from
      <4>1. j < Len(h)
        BY <1>1
      <4>. QED BY <2>1, <4>1
    <3>. QED BY <1>1, <2>1, <3>1
  <2>3. ASSUME NEW i \in DOMAIN h, Recent(i) PROVE i = Len(h)
    <3>. SUFFICES ASSUME i # Len(h) PROVE FALSE
      OBVIOUS
    <3>1. i < Len(h) /\ h[i].from <= h[Len(h)].from
      <4>1. i < Len(h)
        BY <1>1
      <4>. QED BY <2>1, <4>1
    <3>2. \/ h[Len(h)].from < h[i].from
          \/ h[Len(h)].from = h[i].from /\ Len(h) < i
      BY <2>1, <2>3
    <3>. QED BY <1>1, <2>1, <3>1, <3>2
  <2>4. MostRecent(h) = CHOOSE i \in DOMAIN h : Recent(i)
    BY DEF MostRecent
  <2>. HIDE DEF Recent
  <2>. QED BY <2>1, <2>2, <2>3, <2>4
<1>3. ASSUME NEW i \in DOMAIN h, NEW j \in DOMAIN h, i < j PROVE Ordered(h, i, j)
  <2>1. h[i].from <= h[j].from
    BY <1>3
  <2>. QED BY <1>1, <1>3, <2>1 DEF Ordered
<1>4. ASSUME NEW i \in DOMAIN h, NEW j \in DOMAIN h, Adjacent(h, i, j) PROVE j = i + 1
  <2>1. i < j
    <3>1. Ordered(h, i, j)
      BY <1>4 DEF Adjacent
    <3>2. j < i => h[j].from <= h[i].from
      OBVIOUS
    <3>3. i # j
      BY <1>1, <3>1 DEF Ordered
    <3>. QED BY <1>1, <3>1, <3>2, <3>3 DEF Ordered
  <2>2. CASE i + 1 < j
    <3>1. i + 1 \in DOMAIN h /\ i < i + 1
      BY <1>1, <2>2
    <3>2. Ordered(h, i, i + 1) /\ Ordered(h, i + 1, j)
      BY <1>3, <2>2, <3>1
    <3>. QED BY <1>4, <3>1, <3>2 DEF Adjacent
  <2>. QED BY <1>1, <2>1, <2>2
<1>. QED BY <1>2, <1>4

(* save_organizer_history runs for every assignment, for it comes through the *)
(* lifecycle queue, and for no other event.                                   *)
LEMMA HistoryWritten ==
  ASSUME NEW e \in Events, Ingest(e)
  PROVE  history' = IF e \in Assigning THEN HistoryAfter(history, e) ELSE history
<1>1. CASE OnBooking(e)
  <2>. PICK found \in {booking.exists, FALSE} : WriteBooking(e, found)
    BY <1>1, ArrivalWrites
  <2>1. RecordsOrganizer(e) => Upserts(e, found)
    BY RoutingAssumption DEF Upserts
  <2>2. e \in Assigning <=> RecordsOrganizer(e)
    BY <1>1 DEF Assigning, Booked
  <2>. QED BY <2>1, <2>2 DEF WriteBooking, Ingested
<1>2. CASE ~OnBooking(e)
  BY <1>2, ArrivalWrites DEF tables, Assigning, Booked
<1>. QED BY <1>1, <1>2

LEMMA InitHistory == Init => EntriesAreAssignments /\ HistoryIsSorted /\ HistoryInOrder
<1>. SUFFICES ASSUME Init PROVE EntriesAreAssignments /\ HistoryIsSorted /\ HistoryInOrder
  OBVIOUS
<1>1. history = <<>> /\ Assignments = {}
  BY DEF Init, Assignments, Places
<1>. QED BY <1>1 DEF EntriesAreAssignments, HistoryIsSorted, HistoryInOrder,
                      NoConsecutiveDuplicates

(* What an append does to the history. *)
LEMMA Appended ==
  ASSUME NEW h \in Seq(Entries), NEW e \in Events
  PROVE  LET entry == [org |-> Ev[e].org, from |-> Ev[e].at, source |-> e]
             g == Append(h, entry)
         IN  /\ g \in Seq(Entries) /\ g # <<>>
             /\ Len(h) \in Nat /\ Len(g) = Len(h) + 1
             /\ DOMAIN h = 1..Len(h) /\ DOMAIN g = 1..(Len(h) + 1)
             /\ \A k \in DOMAIN h : g[k] = h[k]
             /\ g[Len(h) + 1].org = Ev[e].org /\ g[Len(h) + 1].from = Ev[e].at
             /\ g[Len(h) + 1].source = e
<1>. DEFINE entry == [org |-> Ev[e].org, from |-> Ev[e].at, source |-> e]
<1>1. entry \in Entries
  BY EventsAssumption DEF Entries, Column
<1>2. entry.org = Ev[e].org /\ entry.from = Ev[e].at /\ entry.source = e
  OBVIOUS
<1>. HIDE DEF entry
<1>3. /\ Append(h, entry) \in Seq(Entries) /\ Append(h, entry) # <<>>
      /\ Len(h) \in Nat /\ Len(Append(h, entry)) = Len(h) + 1
      /\ DOMAIN h = 1..Len(h) /\ DOMAIN Append(h, entry) = 1..(Len(h) + 1)
      /\ \A k \in DOMAIN h : Append(h, entry)[k] = h[k]
      /\ Append(h, entry)[Len(h) + 1] = entry
  BY <1>1
<1>. QED BY <1>2, <1>3 DEF entry

LEMMA EntriesStep ==
  ASSUME TypeOK, EntriesAreAssignments, NEW e \in Events, Ingest(e)
  PROVE  EntriesAreAssignments'
<1>. DEFINE entry == [org |-> Ev[e].org, from |-> Ev[e].at, source |-> e]
<1>1. Arrived' = Arrived \union {e} /\ history \in Seq(Entries)
  BY Arrival DEF TypeOK
<1>2. \/ history' = history
      \/ e \in Assigning /\ history' = Append(history, entry)
  BY HistoryWritten DEF HistoryAfter
<1>. SUFFICES ASSUME NEW k \in DOMAIN history'
     PROVE  /\ history'[k].source \in Arrived' \intersect Assigning
            /\ history'[k].org = Ev[history'[k].source].org
            /\ history'[k].from = Ev[history'[k].source].at
  BY DEF EntriesAreAssignments
<1>3. CASE k \in DOMAIN history /\ history'[k] = history[k]
  BY <1>1, <1>3 DEF EntriesAreAssignments
<1>4. CASE ~ (k \in DOMAIN history /\ history'[k] = history[k])
  <2>1. e \in Assigning /\ history' = Append(history, entry)
    BY <1>2, <1>4
  <2>2. k = Len(history) + 1
    BY <1>1, <1>4, <2>1, Appended
  <2>3. /\ history'[k].source = e /\ history'[k].org = Ev[e].org
        /\ history'[k].from = Ev[e].at
    BY <1>1, <2>1, <2>2, Appended
  <2>. QED BY <1>1, <2>1, <2>3
<1>. QED BY <1>3, <1>4

LEMMA HistoryStep ==
  ASSUME TypeOK, EntriesAreAssignments, HistoryIsSorted, HistoryInOrder,
         NEW e \in Events, Ingest(e), EntriesAreAssignments'
  PROVE  HistoryIsSorted' /\ HistoryInOrder'
<1>. SUFFICES ASSUME ArrivedInOrder'
     PROVE  /\ \A k, l \in DOMAIN history' : k < l => history'[k].from <= history'[l].from
            /\ \A k \in DOMAIN history' : k # Len(history') => history'[k].org # history'[k+1].org
            /\ (history' = <<>>) <=> (Assignments' = {})
            /\ history' # <<>> => history'[Len(history')].org = Ev[LastOf(Assigning)'].org
            /\ \A j \in Assignments' :
                 ~Repeats(j)' => \E k \in DOMAIN history' : history'[k].source = log'[j]
  <2>1. HistoryIsSorted' => (ArrivedInOrder' => NoConsecutiveDuplicates')
    <3>. SUFFICES ASSUME HistoryIsSorted', ArrivedInOrder' PROVE NoConsecutiveDuplicates'
      OBVIOUS
    <3>1. history' \in Seq(Entries)
      BY TypeStep DEF Next, TypeOK
    <3>2. /\ \A k, l \in DOMAIN history' : k < l => history'[k].from <= history'[l].from
          /\ \A k \in DOMAIN history' : k # Len(history') => history'[k].org # history'[k+1].org
      BY DEF HistoryIsSorted
    <3>3. \A i, j \in DOMAIN history' : Adjacent(history', i, j) => j = i + 1
      BY <3>1, <3>2, SortedHistory
    <3>4. \A j \in DOMAIN history' : j <= Len(history') /\ Len(history') \in Nat /\ j \in Nat
      BY <3>1
    <3>5. ASSUME NEW i \in DOMAIN history', NEW j \in DOMAIN history', Adjacent(history', i, j)
          PROVE  history'[i].org # history'[j].org
      <4>1. j = i + 1
        BY <3>3, <3>5
      <4>2. i # Len(history')
        BY <3>4, <4>1
      <4>. QED BY <3>2, <4>1, <4>2
    <3>. QED BY <3>5 DEF NoConsecutiveDuplicates
  <2>. QED BY <2>1 DEF HistoryIsSorted, HistoryInOrder
<1>. DEFINE entry == [org |-> Ev[e].org, from |-> Ev[e].at, source |-> e]
<1>0. PICK n \in Nat : n = Len(log) + 1
  BY Arrival
<1>1. /\ DOMAIN log = 1..Len(log) /\ Len(log) \in Nat /\ n \notin DOMAIN log
      /\ \A i \in DOMAIN log : log'[i] = log[i] /\ i < n
      /\ log'[n] = e /\ log' = Append(log, e) /\ log \in Seq(Events)
  BY <1>0, Arrival DEF TypeOK
<1>2. Assignments' = IF e \in Assigning THEN Assignments \union {n} ELSE Assignments
  BY <1>0, <1>1, PlacesOfAppend DEF Assignments
<1>3. Assignments \subseteq DOMAIN log
  BY DEF Assignments, Places
<1>4. ArrivedInOrder
  BY <1>1, <1>2, <1>3 DEF ArrivedInOrder
<1>5. ASSUME NEW j \in Assignments PROVE Repeats(j)' <=> Repeats(j)
  <2>1. \A i \in Assignments' : i < j => i \in Assignments
    BY <1>1, <1>2, <1>3
  <2>2. \A i \in Assignments : i \in Assignments' /\ log'[i] = log[i]
    BY <1>1, <1>2, <1>3
  <2>3. Repeats(j) => Repeats(j)'
    <3>1. ASSUME NEW i \in Assignments, i < j, ~ \E k \in Assignments : i < k /\ k < j,
                 Ev[log[i]].org = Ev[log[j]].org
          PROVE  Repeats(j)'
      <4>1. ~ \E k \in Assignments' : i < k /\ k < j
        BY <2>1, <3>1
      <4>. QED BY <2>2, <3>1, <4>1 DEF Repeats
    <3>. QED BY <3>1 DEF Repeats
  <2>4. Repeats(j)' => Repeats(j)
    <3>1. ASSUME NEW i \in Assignments', i < j, ~ \E k \in Assignments' : i < k /\ k < j,
                 Ev[log'[i]].org = Ev[log'[j]].org
          PROVE  Repeats(j)
      <4>1. i \in Assignments
        BY <2>1, <3>1
      <4>2. ~ \E k \in Assignments : i < k /\ k < j
        BY <2>2, <3>1
      <4>. QED BY <2>2, <3>1, <4>1, <4>2 DEF Repeats
    <3>. QED BY <3>1 DEF Repeats
  <2>. QED BY <2>3, <2>4
<1>6. /\ \A k, l \in DOMAIN history : k < l => history[k].from <= history[l].from
      /\ \A k \in DOMAIN history : k # Len(history) => history[k].org # history[k+1].org
      /\ (history = <<>>) <=> (Assignments = {})
      /\ history # <<>> => history[Len(history)].org = Ev[LastOf(Assigning)].org
      /\ \A j \in Assignments :
           ~Repeats(j) => \E k \in DOMAIN history : history[k].source = log[j]
  BY <1>4 DEF HistoryIsSorted, HistoryInOrder
<1>7. LastOf(Assigning)' = IF e \in Assigning THEN e ELSE LastOf(Assigning)
  BY Arrival DEF LastOf
<1>8. CASE e \notin Assigning
  <2>1. history' = history /\ Assignments' = Assignments
    BY <1>2, <1>8, HistoryWritten
  <2>2. ASSUME NEW j \in Assignments', ~Repeats(j)'
        PROVE  \E k \in DOMAIN history' : history'[k].source = log'[j]
    BY <1>1, <1>3, <1>5, <1>6, <2>1, <2>2
  <2>. QED BY <1>6, <1>7, <1>8, <2>1, <2>2
<1>9. CASE e \in Assigning
  <2>1. history \in Seq(Entries) /\ n \in Assignments'
    BY <1>2, <1>9 DEF TypeOK
  <2>2. history # <<>> => MostRecent(history) = Len(history)
    BY <1>6, <2>1, SortedHistory
  <2>3. \A k \in DOMAIN history : history[k].from <= Ev[e].at
    <3>. SUFFICES ASSUME NEW k \in DOMAIN history PROVE history[k].from <= Ev[e].at
      OBVIOUS
    <3>1. /\ history[k].source \in Arrived \intersect Assigning
          /\ history[k].from = Ev[history[k].source].at
      BY DEF EntriesAreAssignments
    <3>2. PICK i \in DOMAIN log : log[i] = history[k].source
      BY <3>1 DEF Arrived
    <3>3. i \in Assignments /\ i < n
      BY <1>1, <3>1, <3>2 DEF Assignments, Places
    <3>4. i \in Assignments' /\ log'[i] = log[i]
      BY <1>1, <1>2, <3>2, <3>3
    <3>5. Ev[log'[i]].at <= Ev[log'[n]].at
      BY <2>1, <3>3, <3>4 DEF ArrivedInOrder
    <3>. QED BY <1>1, <3>1, <3>2, <3>4, <3>5
  <2>4. CASE history # <<>> /\ history[Len(history)].org = Ev[e].org
    <3>1. history' = history
      BY <1>9, <2>2, <2>4, HistoryWritten DEF HistoryAfter
    <3>2. Repeats(n)'
      <4>. DEFINE i == Max(Assignments)
      <4>1. Assignments # {}
        BY <1>6, <2>4
      <4>2. i \in Assignments /\ \A k \in Assignments : k <= i
        BY <1>1, <4>1, PlacesBounds DEF Assignments
      <4>3. LastOf(Assigning) = log[i]
        BY <4>1 DEF LastOf, LastIn, Assignments
      <4>. HIDE DEF i
      <4>4. Ev[log[i]].org = Ev[e].org
        BY <1>6, <2>4, <4>3
      <4>5. i \in Assignments' /\ i < n /\ log'[i] = log[i]
        BY <1>1, <1>2, <1>3, <4>2
      <4>6. ~ \E k \in Assignments' : i < k /\ k < n
        <5>1. ASSUME NEW k \in Assignments', i < k, k < n PROVE FALSE
          <6>1. k \in Assignments /\ k \in Nat /\ i \in Nat
            BY <1>1, <1>2, <1>3, <4>2, <5>1
          <6>. QED BY <4>2, <5>1, <6>1
        <5>. QED BY <5>1
      <4>. QED BY <1>1, <4>4, <4>5, <4>6 DEF Repeats
    <3>3. ASSUME NEW j \in Assignments', ~Repeats(j)'
          PROVE  \E k \in DOMAIN history' : history'[k].source = log'[j]
      <4>1. j \in Assignments
        BY <1>2, <3>2, <3>3
      <4>. QED BY <1>1, <1>3, <1>5, <1>6, <3>1, <3>3, <4>1
    <3>. QED BY <1>6, <1>7, <1>9, <2>1, <2>4, <3>1, <3>3
  <2>5. CASE ~ (history # <<>> /\ history[Len(history)].org = Ev[e].org)
    <3>. DEFINE m == Len(history) + 1
    <3>1. history' = Append(history, entry)
      BY <1>9, <2>2, <2>5, HistoryWritten DEF HistoryAfter
    <3>2. /\ history' \in Seq(Entries) /\ history' # <<>> /\ Len(history) \in Nat
          /\ Len(history') = m
          /\ DOMAIN history = 1..Len(history) /\ DOMAIN history' = 1..m
          /\ \A k \in DOMAIN history : history'[k] = history[k]
          /\ history'[m].org = Ev[e].org /\ history'[m].from = Ev[e].at
          /\ history'[m].source = e
      BY <2>1, <3>1, Appended
    <3>3. \A k \in DOMAIN history' : k # m => k \in DOMAIN history
      BY <3>2
    <3>4. ASSUME NEW k \in DOMAIN history', NEW l \in DOMAIN history', k < l
          PROVE  history'[k].from <= history'[l].from
      <4>1. k \in DOMAIN history
        BY <3>2, <3>4
      <4>2. CASE l = m
        BY <2>3, <3>2, <4>1, <4>2
      <4>3. CASE l # m
        BY <1>6, <3>2, <3>3, <3>4, <4>1, <4>3
      <4>. QED BY <4>2, <4>3
    <3>5. ASSUME NEW k \in DOMAIN history', k # Len(history')
          PROVE  history'[k].org # history'[k+1].org
      <4>1. k \in DOMAIN history
        BY <3>2, <3>3, <3>5
      <4>2. CASE k = Len(history)
        <5>1. history # <<>>
          BY <3>2, <4>1
        <5>. QED BY <2>5, <3>2, <4>1, <4>2, <5>1
      <4>3. CASE k # Len(history)
        <5>1. k + 1 \in DOMAIN history
          BY <3>2, <4>1, <4>3
        <5>. QED BY <1>6, <3>2, <4>1, <4>3, <5>1
      <4>. QED BY <4>2, <4>3
    <3>6. ASSUME NEW j \in Assignments', ~Repeats(j)'
          PROVE  \E k \in DOMAIN history' : history'[k].source = log'[j]
      <4>1. CASE j = n
        <5>1. m \in DOMAIN history'
          BY <3>2
        <5>2. history'[m].source = e
          BY <3>2
        <5>3. log'[j] = e
          BY <1>1, <4>1
        <5>. QED BY <5>1, <5>2, <5>3
      <4>2. CASE j # n
        <5>1. j \in Assignments /\ log'[j] = log[j]
          BY <1>1, <1>2, <1>3, <4>2
        <5>2. PICK k \in DOMAIN history : history[k].source = log[j]
          BY <1>5, <1>6, <3>6, <5>1
        <5>3. k \in DOMAIN history' /\ history'[k] = history[k]
          BY <3>2
        <5>. QED BY <5>1, <5>2, <5>3
      <4>. QED BY <4>1, <4>2
    <3>7. /\ (history' = <<>>) <=> (Assignments' = {})
          /\ history'[Len(history')].org = Ev[LastOf(Assigning)'].org
      BY <1>7, <1>9, <2>1, <3>2
    <3>. HIDE DEF m
    <3>. QED BY <3>4, <3>5, <3>6, <3>7
  <2>. QED BY <2>4, <2>5
<1>. QED BY <1>8, <1>9

-----------------------------------------------------------------------------
(* The theorems. *)

(* All of it is about the log, the snapshots and the tables. *)
LEMMA TablesUnchanged ==
  ASSUME IInv, UNCHANGED <<log, sees, missed, tables>>, TypeOK'
  PROVE  IInv'
<1>1. UNCHANGED <<log, sees, missed, tables>>
  OBVIOUS
<1>2. Arrived' = Arrived /\ Assignments' = Assignments
  BY <1>1 DEF Arrived, Assignments
<1>3. \A S : LastOf(S)' = LastOf(S) /\ FirstOf(S)' = FirstOf(S)
  BY <1>1 DEF LastOf, FirstOf
<1>4. Writers' = Writers /\ \A c : LastToSay(c)' = LastToSay(c)
  BY <1>1, <1>3 DEF Writers, LastToSay
<1>5. AppendOnlyTablesComplete' /\ EmailKeepsBothHalves' /\ OneLinkPerUser'
  BY <1>1, <1>2, <1>3 DEF IInv, AppendOnlyTablesComplete, EmailKeepsBothHalves,
                          OneLinkPerUser, tables
<1>6. ReadExactlyWhenCovered' /\ BookingIsLastWriter'
  BY <1>1, <1>2, <1>3, <1>4 DEF IInv, ReadExactlyWhenCovered, BookingIsLastWriter, tables
<1>7. EntriesAreAssignments' /\ HistoryIsSorted' /\ HistoryInOrder' /\ RowsOutliveUpdates'
  BY <1>1, <1>2, <1>3 DEF IInv, WellFormed, EntriesAreAssignments, HistoryIsSorted,
       HistoryInOrder, NoConsecutiveDuplicates, ArrivedInOrder, Repeats, RowsOutliveUpdates,
       tables
<1>. QED BY <1>5, <1>6, <1>7 DEF IInv, WellFormed

(* A statement that begins changes nothing said of the events that have       *)
(* arrived: it is of one that has not.                                        *)
LEMMA LookKeeps ==
  ASSUME IInv, NEW e \in Events, Look(e), TypeOK'
  PROVE  IInv'
<1>1. /\ UNCHANGED <<log, missed, tables>> /\ sees' = [sees EXCEPT ![e] = Arrived]
      /\ e \notin Arrived /\ TypeOK
  BY DEF Look, Pending, IInv, WellFormed
<1>2. Arrived' = Arrived /\ Assignments' = Assignments
  BY <1>1 DEF Arrived, Assignments
<1>3. \A S : LastOf(S)' = LastOf(S) /\ FirstOf(S)' = FirstOf(S)
  BY <1>1 DEF LastOf, FirstOf
<1>4. Writers' = Writers /\ \A c : LastToSay(c)' = LastToSay(c)
  BY <1>1, <1>3 DEF Writers, LastToSay
<1>5. sees \in [Events -> SUBSET Arrived] /\ \A f \in Arrived : sees'[f] = sees[f]
  BY <1>1 DEF TypeOK
<1>6. AppendOnlyTablesComplete' /\ EmailKeepsBothHalves' /\ BookingIsLastWriter'
  BY <1>1, <1>2, <1>3, <1>4 DEF IInv, AppendOnlyTablesComplete, EmailKeepsBothHalves,
                                BookingIsLastWriter, tables
<1>7. ReadExactlyWhenCovered' /\ OneLinkPerUser'
  BY <1>1, <1>2, <1>3, <1>5 DEF IInv, ReadExactlyWhenCovered, OneLinkPerUser, tables
<1>8. RowsOutliveUpdates'
  <2>1. \A l \in links : /\ l.born \in Arrived /\ l.source \in Arrived
                        /\ \A f \in Events : l.source \in sees[f] => l.born \in sees[f]
    BY DEF IInv, WellFormed, RowsOutliveUpdates
  <2>2. \A f \in Events : sees'[f] = IF f = e THEN Arrived ELSE sees[f]
    BY <1>1, <1>5
  <2>. QED BY <1>1, <1>2, <2>1, <2>2 DEF RowsOutliveUpdates, tables
<1>9. EntriesAreAssignments' /\ HistoryIsSorted' /\ HistoryInOrder'
  BY <1>1, <1>2, <1>3 DEF IInv, WellFormed, EntriesAreAssignments, HistoryIsSorted,
       HistoryInOrder, NoConsecutiveDuplicates, ArrivedInOrder, Repeats, tables
<1>. QED BY <1>6, <1>7, <1>8, <1>9 DEF IInv, WellFormed

THEOREM InductiveInvariant == Spec => []IInv
<1>1. Init => IInv
  BY InitTyped, InitComplete, InitHalves, InitLinks, InitRead, InitWriter, InitHistory
     DEF IInv, WellFormed
<1>2. IInv /\ [Next]_vars => IInv'
  <2>. SUFFICES ASSUME IInv, [Next]_vars PROVE IInv'
    OBVIOUS
  <2>1. TypeOK /\ TypeOK'
    BY TypeStep DEF IInv, WellFormed
  <2>2. ASSUME NEW e \in Events, Ingest(e) PROVE IInv'
    <3>1. /\ AppendOnlyTablesComplete' /\ EmailKeepsBothHalves'
          /\ OneLinkPerUser' /\ RowsOutliveUpdates'
      BY <2>1, <2>2, CompleteStep, HalvesStep, LinksStep DEF IInv, WellFormed
    <3>2. ReadExactlyWhenCovered' /\ BookingIsLastWriter'
      BY <2>1, <2>2, ReadStep, WriterStep DEF IInv
    <3>3. EntriesAreAssignments'
      BY <2>1, <2>2, EntriesStep DEF IInv, WellFormed
    <3>4. HistoryIsSorted' /\ HistoryInOrder'
      BY <2>1, <2>2, <3>3, HistoryStep DEF IInv, WellFormed
    <3>. QED BY <2>1, <3>1, <3>2, <3>3, <3>4 DEF IInv, WellFormed
  <2>3. ASSUME NEW e \in Events, Look(e) PROVE IInv'
    BY <2>1, <2>3, LookKeeps
  <2>4. ASSUME NEW e \in Events, Fail(e) PROVE IInv'
    BY <2>1, <2>4, TablesUnchanged DEF Fail
  <2>5. CASE UNCHANGED vars
    BY <2>1, <2>5, TablesUnchanged DEF vars
  <2>. QED BY <2>2, <2>3, <2>4, <2>5 DEF Next, Quiescent
<1>. QED BY <1>1, <1>2, PTL DEF Spec

(* The read model's tables keep their types; no event is stored twice or both *)
(* stored and dead-lettered; assignments that arrive in order leave the       *)
(* history in the order of its ids; and whoever sees the last update of a     *)
(* link sees its row.                                                         *)
THEOREM TablesWellFormed == Spec => []WellFormed
<1>1. IInv => WellFormed
  BY DEF IInv
<1>. QED BY <1>1, InductiveInvariant, PTL

(* Whatever the arrival order, the append-only tables have a row for every    *)
(* stored event they are about, and no other.                                 *)
THEOREM CompleteTables == Spec => []AppendOnlyTablesComplete
<1>1. IInv => AppendOnlyTablesComplete
  BY DEF IInv
<1>. QED BY <1>1, InductiveInvariant, PTL

(* The upserts of sent reports and of statuses never undo each other.         *)
THEOREM HalvesKept == Spec => []EmailKeepsBothHalves
<1>1. IInv => EmailKeepsBothHalves
  BY DEF IInv
<1>. QED BY <1>1, InductiveInvariant, PTL

(* is_read is what the receipts say whose update began when the message was   *)
(* stored, whatever runs beside them.                                         *)
THEOREM ReadByReceipt == Spec => []ReadExactlyWhenCovered
<1>1. IInv => ReadExactlyWhenCovered
  BY DEF IInv
<1>. QED BY <1>1, InductiveInvariant, PTL

(* Links are unique by user and the last created wins; a deletion deletes     *)
(* what was created before it began and spares what is created after it ends. *)
THEOREM LinksUnique == Spec => []OneLinkPerUser
<1>1. IInv => OneLinkPerUser
  BY DEF IInv
<1>. QED BY <1>1, InductiveInvariant, PTL

(* Every column of the booking has its last writer among the events that      *)
(* upsert it, and first_seen_at and last_seen_at are of their times.          *)
THEOREM LastWriterWins == Spec => []BookingIsLastWriter
<1>1. IInv => BookingIsLastWriter
  BY DEF IInv
<1>. QED BY <1>1, InductiveInvariant, PTL

(* Assignments that arrive in the order they occurred in give the history of  *)
(* the changes, none lost and none repeated.                                  *)
THEOREM HistoryListsChanges == Spec => []HistoryInOrder
<1>1. IInv => HistoryInOrder
  BY DEF IInv
<1>. QED BY <1>1, InductiveInvariant, PTL

-----------------------------------------------------------------------------
(* Each transaction of this module is a step of AtomicIngest.                 *)
THEOREM ImplementsAtomicIngest == Spec => Atomic
<1>. DEFINE table == [booking |-> booking, history |-> history]
<1>1. Init => Abs!Init
  <2>. SUFFICES ASSUME Init PROVE Abs!Init
    OBVIOUS
  <2>1. Arrived = {} /\ dead = {}
    BY DEF Init, Arrived
  <2>. QED BY <2>1 DEF Init, Abs!Init, Empty, Ended
<1>2. TypeOK /\ [Next]_vars => [Abs!Next]_(Abs!vars)
  <2>. SUFFICES ASSUME TypeOK, [Next]_vars PROVE Abs!Next \/ UNCHANGED Abs!vars
    OBVIOUS
  <2>1. table.booking = booking /\ table \in Tables
    BY DEF TypeOK, Tables
  <2>2. ASSUME NEW e \in Events, Ingest(e) PROVE Abs!Ingest(e)
    <3>1. Ended[e] = "open" /\ Ended' = [Ended EXCEPT ![e] = "done"]
      <4>1. e \notin Arrived /\ e \notin dead /\ Arrived' = Arrived \union {e} /\ dead' = dead
        BY <2>2, Arrival DEF Ingest, Pending
      <4>. QED BY <4>1 DEF Ended
    <3>2. CASE OnBooking(e)
      <4>1. PICK found \in {booking.exists, FALSE} : WriteBooking(e, found)
        BY <2>2, <3>2, ArrivalWrites
      <4>2. ~ProjectionRaises(e, found)
        <5>1. booking.exists \in BOOLEAN
          BY <2>1, ExistsTyped
        <5>2. ~ProjectionRaises(e, booking.exists)
          BY <2>2, <3>2, ArrivalWrites DEF Raises
        <5>. QED BY <5>1, <5>2, RaisesEitherWay
      <4>3. table' = Ingested(table, e, found)
        <5>1. Ingested(table, e, found) \in Tables
          BY <2>1, IngestedTyped
        <5>2. /\ booking' = Ingested(table, e, found).booking
              /\ history' = Ingested(table, e, found).history
          BY <4>1 DEF WriteBooking
        <5>. QED BY <5>1, <5>2 DEF Tables
      <4>. QED BY <2>1, <3>1, <3>2, <4>2, <4>3 DEF Abs!Ingest, Abs!Answers
    <3>3. CASE ~OnBooking(e)
      <4>1. UNCHANGED table
        BY <2>2, <3>3, ArrivalWrites DEF tables
      <4>. QED BY <3>1, <3>3, <4>1 DEF Abs!Ingest
    <3>. QED BY <3>2, <3>3
  <2>3. ASSUME NEW e \in Events, Fail(e) PROVE Abs!Reject(e)
    <3>1. Ended[e] = "open" /\ Ended' = [Ended EXCEPT ![e] = "rejected"]
      <4>1. e \notin Arrived /\ e \notin dead /\ Arrived' = Arrived /\ dead' = dead \union {e}
        BY <2>3 DEF Fail, Pending, Arrived
      <4>. QED BY <4>1 DEF Ended
    <3>2. UNCHANGED table
      BY <2>3 DEF Fail, tables
    <3>. QED BY <3>1, <3>2 DEF Abs!Reject
  <2>4. ASSUME NEW e \in Events, Look(e) PROVE UNCHANGED Abs!vars
    BY <2>4 DEF Look, tables, Ended, Arrived, Abs!vars
  <2>5. CASE UNCHANGED vars
    BY <2>5 DEF vars, tables, Ended, Arrived, Abs!vars
  <2>. QED BY <2>2, <2>3, <2>4, <2>5 DEF Next, Quiescent, Abs!Next
<1>3. IInv => TypeOK
  BY DEF IInv, WellFormed
<1>. QED BY <1>1, <1>2, <1>3, InductiveInvariant, PTL DEF Spec, Atomic, Abs!Spec
=============================================================================
