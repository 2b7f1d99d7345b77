-------------------------- MODULE MigrationsProofs --------------------------
(***************************************************************************)
(* Whatever the revisions are, as long as each comes after its parents, and*)
(* in whatever order they go up and down: no constraint stands over rows   *)
(* that contradict it, and what is applied is closed under "after".        *)
(***************************************************************************)
EXTENDS Migrations, WellFoundedInduction, TLAPS

LEMMA HasLeast ==
  ASSUME NEW T \in SUBSET Nat, T # {}
  PROVE  \E x \in T : \A y \in T : x <= y
<1>1. PICK x \in T : \A y \in T : ~ (<<y, x>> \in OpToRel(<, Nat))
  BY WFMin, NatLessThanWellFounded, Zenon
<1>2. ASSUME NEW y \in T PROVE x <= y
  <2>1. ~ (y < x)
    BY <1>1 DEF OpToRel
  <2>. QED BY <2>1
<1>. QED BY <1>2

-----------------------------------------------------------------------------
(* One operation. *)

(* The rows can be there with the schema.  (A row of a table with a NOT NULL  *)
(* column to come is no contradiction once the column is there.)              *)
Consistent(schema1, rows1) ==
  /\ rows1 \subseteq Facts
  /\ \A f \in rows1 \ {"links"} :
       Describable(f, schema1) /\ Fact[f].against \notin schema1

LEMMA DescribableGrows ==
  ASSUME NEW f, NEW S, NEW T, S \subseteq T, Describable(f, S)
  PROVE  Describable(f, T)
BY DEF Describable, HasCol, Has

IsDatabase(db) == db = [fate |-> db.fate, schema |-> db.schema, rows |-> db.rows]

LEMMA ApplyKeeps ==
  ASSUME NEW db, NEW op, IsDatabase(db), Consistent(db.schema, db.rows)
  PROVE  /\ IsDatabase(Apply(db, op))
         /\ Consistent(Apply(db, op).schema, Apply(db, op).rows)
<1>. DEFINE new == Apply(db, op)
            rest == {i \in db.schema : ~GoesWith(op.id, i)}
<1>1. CASE new = [db EXCEPT !.fate = "broken"] \/ new = [db EXCEPT !.fate = "blocked"] \/ new = db
  <2>1. IsDatabase(new) /\ new.schema = db.schema /\ new.rows = db.rows
    BY <1>1 DEF IsDatabase
  <2>. QED BY <2>1
<1>2. CASE new = [db EXCEPT !.rows = @ \ {op.fact}]
  <2>1. IsDatabase(new) /\ new.schema = db.schema /\ new.rows = db.rows \ {op.fact}
    BY <1>2 DEF IsDatabase
  <2>. QED BY <2>1 DEF Consistent
<1>3. CASE /\ new = [db EXCEPT !.schema = @ \union op.items]
           /\ ~ \E f \in db.rows : Fact[f].against \in op.items
  <2>1. IsDatabase(new) /\ new.schema = db.schema \union op.items /\ new.rows = db.rows
    BY <1>3 DEF IsDatabase
  <2>. QED BY <1>3, <2>1, DescribableGrows DEF Consistent
<1>4. CASE new = [db EXCEPT !.schema = rest, !.rows = {f \in @ : Describable(f, rest)}]
  <2>1. /\ IsDatabase(new) /\ new.schema = rest
        /\ new.rows = {f \in db.rows : Describable(f, rest)}
    BY <1>4 DEF IsDatabase
  <2>. QED BY <2>1 DEF Consistent
<1>. QED BY <1>1, <1>2, <1>3, <1>4 DEF Apply

-----------------------------------------------------------------------------
(* All of them.  The least operation after which something is wrong is        *)
(* preceded by one after which nothing is.                                    *)

Start(schema1, rows1) == [fate |-> "fine", schema |-> schema1, rows |-> rows1]

IsAfter(db, n, ops, schema1, rows1) ==
  db = [i \in 0..n |-> IF i = 0 THEN Start(schema1, rows1) ELSE Apply(db[i - 1], ops[i])]

LEMMA AfterExists ==
  ASSUME NEW ops, NEW schema1, NEW rows1, NEW n \in Nat
  PROVE  \E db : IsAfter(db, n, ops, schema1, rows1)
<1>. DEFINE T == {m \in Nat : ~ \E db : IsAfter(db, m, ops, schema1, rows1)}
<1>1. SUFFICES ASSUME T # {} PROVE FALSE
  OBVIOUS
<1>2. PICK m \in T : \A k \in T : m <= k
  BY <1>1, HasLeast
<1>3. CASE m = 0
  <2>1. IsAfter([i \in 0..0 |-> Start(schema1, rows1)], 0, ops, schema1, rows1)
    BY DEF IsAfter
  <2>. QED BY <1>2, <1>3, <2>1
<1>4. CASE m # 0
  <2>1. m - 1 \in Nat /\ m - 1 \notin T
    BY <1>2, <1>4
  <2>2. PICK db : IsAfter(db, m - 1, ops, schema1, rows1)
    BY <2>1
  <2>. DEFINE next == [i \in 0..m |-> IF i = m THEN Apply(db[m - 1], ops[m]) ELSE db[i]]
  <2>3. ASSUME NEW i \in 0..m
        PROVE  next[i] = IF i = 0 THEN Start(schema1, rows1) ELSE Apply(next[i - 1], ops[i])
    <3>1. CASE i = m
      BY <1>4, <2>1, <3>1
    <3>2. CASE i # m /\ i # 0
      <4>1. i \in 0..(m - 1) /\ i - 1 \in 0..m /\ i - 1 # m
        BY <2>1, <3>2
      <4>2. db[i] = Apply(db[i - 1], ops[i])
        BY <2>2, <3>2, <4>1 DEF IsAfter
      <4>. QED BY <3>2, <4>1, <4>2
    <3>3. CASE i # m /\ i = 0
      <4>1. 0 \in 0..(m - 1)
        BY <2>1
      <4>2. db[0] = Start(schema1, rows1)
        BY <2>2, <4>1 DEF IsAfter
      <4>. QED BY <3>3, <4>2
    <3>. QED BY <3>1, <3>2, <3>3
  <2>4. IsAfter(next, m, ops, schema1, rows1)
    <3>. DEFINE other == [i \in 0..m |-> IF i = 0 THEN Start(schema1, rows1)
                                         ELSE Apply(next[i - 1], ops[i])]
    <3>1. \A i \in 0..m : next[i] = other[i]
      BY <2>3
    <3>2. DOMAIN next = 0..m /\ DOMAIN other = 0..m
      OBVIOUS
    <3>3. next = other
      BY <3>1, <3>2
    <3>. QED BY <3>3 DEF IsAfter
  <2>. QED BY <1>2, <2>4
<1>. QED BY <1>3, <1>4

LEMMA RunKeeps ==
  ASSUME NEW ops, Len(ops) \in Nat, NEW schema1, NEW rows1, Consistent(schema1, rows1)
  PROVE  Consistent(Run(ops, schema1, rows1).schema, Run(ops, schema1, rows1).rows)
<1>. DEFINE db == CHOOSE f : IsAfter(f, Len(ops), ops, schema1, rows1)
            T == {k \in 0..Len(ops) : ~ (IsDatabase(db[k]) /\ Consistent(db[k].schema, db[k].rows))}
<1>1. IsAfter(db, Len(ops), ops, schema1, rows1)
  BY AfterExists
<1>2. Run(ops, schema1, rows1) = db[Len(ops)]
  BY DEF Run, IsAfter, Start
<1>. HIDE DEF db
<1>3. ASSUME T # {} PROVE FALSE
  <2>0. T \in SUBSET Nat
    OBVIOUS
  <2>1. PICK k \in T : \A j \in T : k <= j
    BY <1>3, <2>0, HasLeast
  <2>2. CASE k = 0
    <3>1. db[0] = Start(schema1, rows1)
      BY <1>1 DEF IsAfter
    <3>. QED BY <2>1, <2>2, <3>1 DEF Start, IsDatabase
  <2>3. CASE k # 0
    <3>1. k - 1 \in 0..Len(ops) /\ k - 1 \notin T
      BY <2>1, <2>3
    <3>2. db[k] = Apply(db[k - 1], ops[k])
      BY <1>1, <2>1, <2>3 DEF IsAfter
    <3>. QED BY <2>1, <3>1, <3>2, ApplyKeeps
  <2>. QED BY <2>2, <2>3
<1>4. Len(ops) \in 0..Len(ops)
  OBVIOUS
<1>. QED BY <1>2, <1>3, <1>4

(* The operations of several revisions, end to end. *)
IsFlat(f, n, seqs) == f = [i \in 1..n |-> IF i = 1 THEN seqs[i] ELSE f[i - 1] \o seqs[i]]

LEMMA FlatExists ==
  ASSUME NEW seqs, NEW n \in Nat
  PROVE  \E f : IsFlat(f, n, seqs)
<1>. DEFINE T == {m \in Nat : ~ \E f : IsFlat(f, m, seqs)}
<1>1. SUFFICES ASSUME T # {} PROVE FALSE
  OBVIOUS
<1>2. PICK m \in T : \A k \in T : m <= k
  BY <1>1, HasLeast
<1>3. CASE m = 0
  <2>. DEFINE f == [i \in 1..0 |-> seqs]
  <2>1. 1..0 = {}
    OBVIOUS
  <2>2. IsFlat(f, 0, seqs)
    BY <2>1 DEF IsFlat
  <2>. QED BY <1>2, <1>3, <2>2
<1>4. CASE m # 0
  <2>1. m - 1 \in Nat /\ m - 1 \notin T
    BY <1>2, <1>4
  <2>2. PICK f : IsFlat(f, m - 1, seqs)
    BY <2>1
  <2>. DEFINE last == IF m = 1 THEN seqs[1] ELSE f[m - 1] \o seqs[m]
              next == [i \in 1..m |-> IF i = m THEN last ELSE f[i]]
              other == [i \in 1..m |-> IF i = 1 THEN seqs[i] ELSE next[i - 1] \o seqs[i]]
  <2>3. ASSUME NEW i \in 1..m PROVE next[i] = other[i]
    <3>1. CASE i = m
      <4>1. m # 1 => m - 1 \in 1..m /\ m - 1 # m
        BY <2>1
      <4>. QED BY <3>1, <4>1
    <3>2. CASE i # m
      <4>1. i \in 1..(m - 1) /\ (i # 1 => i - 1 \in 1..m /\ i - 1 # m)
        BY <2>1, <3>2
      <4>2. f[i] = IF i = 1 THEN seqs[i] ELSE f[i - 1] \o seqs[i]
        BY <2>2, <4>1 DEF IsFlat
      <4>. QED BY <3>2, <4>1, <4>2
    <3>. QED BY <3>1, <3>2
  <2>4. next = other
    BY <2>3
  <2>5. IsFlat(next, m, seqs)
    BY <2>4 DEF IsFlat
  <2>. QED BY <1>2, <2>5
<1>. QED BY <1>3, <1>4

LEMMA FlattenTyped ==
  ASSUME NEW S, NEW seqs \in Seq(Seq(S))
  PROVE  FlattenSeq(seqs) \in Seq(S)
<1>. DEFINE f == CHOOSE g : IsFlat(g, Len(seqs), seqs)
            T == {k \in 1..Len(seqs) : f[k] \notin Seq(S)}
<1>1. Len(seqs) \in Nat /\ \A i \in 1..Len(seqs) : seqs[i] \in Seq(S)
  OBVIOUS
<1>2. IsFlat(f, Len(seqs), seqs)
  BY <1>1, FlatExists
<1>3. Len(seqs) # 0 => FlattenSeq(seqs) = f[Len(seqs)]
  BY DEF FlattenSeq, IsFlat
<1>. HIDE DEF f
<1>4. ASSUME T # {} PROVE FALSE
  <2>1. T \in SUBSET Nat
    OBVIOUS
  <2>2. PICK k \in T : \A j \in T : k <= j
    BY <1>4, <2>1, HasLeast
  <2>3. f[k] = IF k = 1 THEN seqs[k] ELSE f[k - 1] \o seqs[k]
    BY <1>2, <2>2 DEF IsFlat
  <2>4. CASE k = 1
    BY <1>1, <2>2, <2>3, <2>4
  <2>5. CASE k # 1
    <3>1. k - 1 \in 1..Len(seqs) /\ k - 1 \notin T
      BY <1>1, <2>2, <2>5
    <3>2. f[k - 1] \in Seq(S) /\ seqs[k] \in Seq(S)
      BY <1>1, <2>2, <3>1
    <3>3. f[k - 1] \o seqs[k] \in Seq(S)
      BY <3>2
    <3>4. f[k] \in Seq(S)
      BY <2>3, <2>5, <3>3
    <3>. QED BY <2>2, <3>4
  <2>. QED BY <2>4, <2>5
<1>5. CASE Len(seqs) = 0
  <2>1. seqs = <<>>
    BY <1>5
  <2>. QED BY <2>1 DEF FlattenSeq
<1>6. CASE Len(seqs) # 0
  <2>1. Len(seqs) \in 1..Len(seqs)
    BY <1>1, <1>6
  <2>. QED BY <1>3, <1>4, <1>6, <2>1
<1>. QED BY <1>5, <1>6

LEMMA UpToTyped == ASSUME NEW revisions PROVE UpTo(revisions) \in Seq(Operations)
<1>. DEFINE ups == [i \in DOMAIN History |->
                      IF History[i] \in revisions THEN Rev[History[i]].up ELSE <<>>]
<1>1. DOMAIN History = 1..Len(History) /\ Len(History) \in Nat
  BY DEF History
<1>2. ASSUME NEW i \in DOMAIN History PROVE ups[i] \in Seq(Operations)
  <2>1. History[i] \in Revisions
    BY HistoryAssumption
  <2>2. Rev[History[i]].up \in Seq(Operations)
    BY <2>1, HistoryAssumption
  <2>3. <<>> \in Seq(Operations)
    OBVIOUS
  <2>. QED BY <2>2, <2>3
<1>3. ups \in Seq(Seq(Operations))
  BY <1>1, <1>2
<1>. QED BY <1>3, FlattenTyped DEF UpTo

-----------------------------------------------------------------------------
(* The steps of the database. *)

LEMMA MigrateKeeps ==
  ASSUME Consistent(schema, rows), NEW ops \in Seq(Operations), NEW revisions,
         Migrate(ops, revisions)
  PROVE  Consistent(schema', rows') /\ applied' = revisions
<1>1. Len(ops) \in Nat
  OBVIOUS
<1>2. Consistent(Run(ops, schema, rows).schema, Run(ops, schema, rows).rows)
  BY <1>1, RunKeeps
<1>. QED BY <1>2 DEF Migrate

Closed(revisions) ==
  revisions \subseteq Revisions /\ \A r \in revisions : Rev[r].after \subseteq revisions

LEMMA ParentsAreRevisions == \A r \in Revisions : Rev[r].after \subseteq Revisions
<1>. SUFFICES ASSUME NEW r \in Revisions PROVE Rev[r].after \subseteq Revisions
  OBVIOUS
<1>1. PICK i \in DOMAIN History : r = History[i]
  BY HistoryAssumption
<1>2. DOMAIN History = 1..Len(History) /\ Len(History) \in Nat
  BY DEF History
<1>3. {History[j] : j \in 1..(i - 1)} \subseteq {History[j] : j \in DOMAIN History}
  BY <1>2
<1>4. Rev[History[i]].after \subseteq {History[j] : j \in 1..(i - 1)}
  BY HistoryAssumption
<1>. QED BY <1>1, <1>3, <1>4, HistoryAssumption

LEMMA TypeIs == TypeOK <=> Closed(applied) /\ Consistent(schema, rows)
BY DEF TypeOK, Closed, Consistent

(* No step leaves rows that a constraint contradicts, nor a revision applied  *)
(* whose parents are not, whichever the order of upgrades and downgrades, and *)
(* whatever the service writes in between.                                    *)
THEOREM TypeCorrect == Spec => []TypeOK
<1>1. Init => TypeOK
  BY DEF Init, TypeOK
<1>2. TypeOK /\ [Next]_vars => TypeOK'
  <2>. SUFFICES ASSUME Closed(applied), Consistent(schema, rows), [Next]_vars
                PROVE  Closed(applied)' /\ Consistent(schema, rows)'
    BY TypeIs DEF TypeOK, Closed, Consistent
  <2>1. ASSUME NEW r \in Revisions, Upgrade(r)
        PROVE  Closed(applied)' /\ Consistent(schema, rows)'
    <3>1. Rev[r].up \in Seq(Operations)
      BY HistoryAssumption
    <3>2. Consistent(schema', rows') /\ applied' = applied \union {r} /\ Rev[r].after \subseteq applied
      BY <2>1, <3>1, MigrateKeeps DEF Upgrade, Upgradable
    <3>. QED BY <3>2 DEF Closed
  <2>2. ASSUME NEW r \in Revisions, Downgrade(r)
        PROVE  Closed(applied)' /\ Consistent(schema, rows)'
    <3>1. Rev[r].down \in Seq(Operations)
      BY HistoryAssumption
    <3>2. /\ Consistent(schema', rows') /\ applied' = applied \ {r}
          /\ \A s \in applied : r \notin Rev[s].after
      BY <2>2, <3>1, MigrateKeeps DEF Downgrade, Downgradable
    <3>. QED BY <3>2 DEF Closed
  <2>3. CASE UpgradeHead
    <3>1. Consistent(schema', rows') /\ applied' = Revisions
      BY <2>3, UpToTyped, MigrateKeeps DEF UpgradeHead
    <3>. QED BY <3>1, ParentsAreRevisions DEF Closed
  <2>4. ASSUME NEW f \in Facts, Write(f)
        PROVE  Closed(applied)' /\ Consistent(schema, rows)'
    <3>1. /\ Describable(f, schema)
          /\ f # "links" => Fact[f].against \notin schema
          /\ rows' = rows \union {f} /\ UNCHANGED <<applied, schema>>
      BY <2>4 DEF Write
    <3>2. Consistent(schema, rows \union {f})
      BY <3>1 DEF Consistent
    <3>3. schema' = schema /\ rows' = rows \union {f} /\ applied' = applied
      BY <3>1
    <3>. QED BY <3>2, <3>3 DEF Closed
  <2>5. CASE UNCHANGED vars
    BY <2>5 DEF vars, Closed, Consistent
  <2>. QED BY <2>1, <2>2, <2>3, <2>4, <2>5 DEF Next
<1>. QED BY <1>1, <1>2, PTL DEF Spec
=============================================================================
