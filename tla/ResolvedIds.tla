---------------------------- MODULE ResolvedIds ----------------------------
(***************************************************************************)
(* What a reader of the bookings' participant ids is promised, with no      *)
(* lock, candidate list, cached answer or open transaction in sight: ids    *)
(* appear in whole steps, each of which is the ingestion of an event, what  *)
(* one user.synced event resolves, or what one cycle of the backfill        *)
(* resolves.  The latter two only ever fill what is NULL.                   *)
(*                                                                          *)
(* UserIdBackfill implements this specification (UserIdBackfill!Resolves).  *)
(***************************************************************************)
EXTENDS Naturals, FiniteSets

CONSTANTS Bookings, Roles,
          Identities,     \* of the participants that the events name
          Events,         \* the events that arrive
          BookingOf(_),   \* the booking an event is about
          Shows(_, _),    \* event, role -> whom it lists in that role, by e-mail
          Gives(_, _),    \* event, role -> all whom it names in that role
          Null,           \* no id
          Batch           \* how many bookings a cycle may resolve

VARIABLES stored,         \* the events ingested
          ids,            \* the id in each role of each booking
          directory       \* the identities event-users knows

vars == <<stored, ids, directory>>

Slots == Bookings \X Roles

Init == /\ stored = {}
        /\ ids = [s \in Slots |-> Null]
        /\ directory = {}

(* Some slots get another id, of a user event-users knows. *)
Changed == {s \in Slots : ids'[s] # ids[s]}
Update == ids' \in [Slots -> directory \union {Null}]

(* The ids that resolving may give a slot: event-users is asked by e-mail. *)
Shown(s) == {Shows(e, s[2]) : e \in {f \in stored : BookingOf(f) = s[1]}}

(* Ingestion writes participants of the event over what was known.            *)
Ingest(e) == /\ e \notin stored
             /\ stored' = stored \union {e}
             /\ Update
             /\ \A s \in Changed : s[1] = BookingOf(e) /\ ids'[s] \in Gives(e, s[2])
             /\ UNCHANGED directory

Learn(i) == /\ i \notin directory
            /\ directory' = directory \union {i}
            /\ UNCHANGED <<stored, ids>>

(* Resolving fills NULLs with the ids of named participants. *)
Resolve == /\ Update
           /\ \A s \in Changed : ids[s] = Null /\ ids'[s] \in Shown(s)
           /\ UNCHANGED <<stored, directory>>

(* user.synced brings the id of its own user, to as many bookings as name it. *)
Sync(i) == Resolve /\ \A s \in Changed : ids'[s] = i

(* A cycle resolves whom it can in a batch of bookings. *)
Backfill == Resolve /\ Cardinality({s[1] : s \in Changed}) <= Batch

Next == \/ \E e \in Events : Ingest(e)
        \/ \E i \in Identities : Learn(i) \/ Sync(i)
        \/ Backfill

Spec == Init /\ [][Next]_vars
=============================================================================
