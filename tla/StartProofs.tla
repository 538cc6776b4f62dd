------------------------------ MODULE StartProofs ------------------------------
(***************************************************************************)
(* Proofs about SchemaMigration and ProcessStart, for any deliveries,      *)
(* releases, bots, secrets and configurations.                             *)
(*                                                                         *)
(* The database.  Within the transaction, the position in the migrations   *)
(* determines what exists, so every statement finds what it needs and      *)
(* nothing it makes (TxInv); only a whole transaction reaches the disk     *)
(* (DiskInv).                                                              *)
(*                                                                         *)
(* From the files to serving.  Reachable is not inductive: a process may   *)
(* only take its registration for done because the one call it makes is    *)
(* the only one that is not late (CallInv), and that is so because a       *)
(* process that opens its database has made none yet (StageInv).           *)
(***************************************************************************)
EXTENDS ProcessStart, TLAPS

-----------------------------------------------------------------------------
(* The database.                                                           *)


V0 == {"schema_migrations"}
V1 == V0 \cup {"telegram_updates", "deliveries"}
V2 == V1 \cup {"delivery_idempotency", "delivery_aliases",
               "delivery_aliases_delivery_id_idx"}
V3 == V2 \cup {"retry_not_before_ms", "provider_cooldowns"}

\* The statement at next is the first of the current migration not yet done.
Position(objects, version, n) ==
  \/ version = 0 /\ n = 1 /\ objects = V0
  \/ version = 0 /\ n = 2 /\ objects = V0 \cup {"telegram_updates"}
  \/ version = 0 /\ n = 3 /\ objects = V1
  \/ version = 1 /\ n = 1 /\ objects = V1
  \/ version = 1 /\ n = 2 /\ objects = V1 \cup {"delivery_idempotency"}
  \/ version = 1 /\ n = 3 /\ objects = V1 \cup {"delivery_idempotency", "delivery_aliases"}
  \/ version = 1 /\ n \in {4, 5} /\ objects = V2
  \/ version = 2 /\ n = 1 /\ objects = V2
  \/ version = 2 /\ n = 2 /\ objects = V2 \cup {"retry_not_before_ms"}
  \/ version = 2 /\ n = 3 /\ objects = V3
  \/ version = 3 /\ n = 1 /\ objects = V3

Whole(db) ==
  \/ db.version = 0 /\ db.objects = {}
  \/ db.version = 1 /\ db.objects = V1
  \/ db.version = 2 /\ db.objects = V2
  \/ db.version = 3 /\ db.objects = V3

\* Aliases begin with version 2; its last statement copies them.
Aliased(db, n) ==
  /\ db.version = 0 \/ (db.version = 1 /\ n # 5) => db.aliases = {}
  /\ db.version >= 2 \/ (db.version = 1 /\ n = 5) => db.rows \subseteq db.aliases

Databases == [objects : SUBSET (V3 \cup {"no transaction"}), version : 0..3,
              rows : SUBSET IDs, aliases : SUBSET IDs]

TypeOK ==
  /\ disk \in Databases /\ tx \in Databases
  /\ release \in Releases
  /\ phase \in {"down", "open", "run", "refused"}
  /\ next \in 1..5

TxInv ==
  /\ tx # NoTransaction =>
       /\ phase = "open" /\ disk.version <= release /\ tx.version <= release
       /\ Position(tx.objects, tx.version, next)
       /\ Aliased(tx, next)
       /\ tx.version = release => next = 1
  /\ phase = "open" /\ tx = NoTransaction => next = 1

DiskInv ==
  /\ Whole(disk) /\ Aliased(disk, 1)
  /\ phase = "run" => disk.version = release

Inv == TypeOK /\ TxInv /\ DiskInv

\* The fields of a database.
LEMMA DatabaseIs ==
  ASSUME NEW db \in Databases
  PROVE  /\ db.version \in 0..3 /\ db.version \in Nat /\ db.rows \in SUBSET IDs
         /\ db.aliases \in SUBSET IDs /\ db.objects \in SUBSET (V3 \cup {"no transaction"})
<1> DEFINE O == V3 \cup {"no transaction"}
<1>1. db \in [objects : SUBSET O, version : 0..3, rows : SUBSET IDs, aliases : SUBSET IDs]
  BY DEF Databases
<1> HIDE DEF O
<1>2. /\ db.objects \in SUBSET O /\ db.version \in 0..3 /\ db.rows \in SUBSET IDs
      /\ db.aliases \in SUBSET IDs
  BY <1>1
<1>3. db.version \in Nat
  BY <1>2
<1>4. db.objects \in SUBSET (V3 \cup {"no transaction"})
  BY <1>2 DEF O
<1> QED BY <1>2, <1>3, <1>4

LEMMA Constants ==
  /\ Fresh \in Databases /\ NoTransaction \in Databases
  /\ Fresh.version = 0 /\ Fresh.objects = {} /\ Fresh.aliases = {}
<1>1. 0 \in 0..3 /\ {} \in SUBSET IDs
  OBVIOUS
<1>2. {} \in SUBSET (V3 \cup {"no transaction"})
  OBVIOUS
<1>3. {"no transaction"} \in SUBSET (V3 \cup {"no transaction"})
  OBVIOUS
<1>4. Fresh \in Databases /\ Fresh.version = 0 /\ Fresh.objects = {} /\ Fresh.aliases = {}
  BY <1>1, <1>2 DEF Fresh, Database, Databases
<1>5. NoTransaction \in Databases
  BY <1>1, <1>3 DEF NoTransaction, Database, Databases
<1> QED BY <1>4, <1>5

LEMMA Range ==
  ASSUME Inv
  PROVE  release \in 1..3 /\ disk.version \in 0..3 /\ tx.version \in 0..3 /\ next \in 1..5
<1>1. disk \in Databases /\ tx \in Databases /\ release \in Releases /\ next \in 1..5
  BY DEF Inv, TypeOK
<1> QED BY <1>1, DatabaseIs, ReleasesAssumption

LEMMA Statements ==
  /\ Len(migrations[1]) = 2 /\ Len(migrations[2]) = 4 /\ Len(migrations[3]) = 2
  /\ migrations[1][1] = Makes("telegram_updates", {})
  /\ migrations[1][2] = Makes("deliveries", {})
  /\ migrations[2][1] = Makes("delivery_idempotency", {"deliveries"})
  /\ migrations[2][2] = Makes("delivery_aliases", {"deliveries"})
  /\ migrations[2][3] = Makes("delivery_aliases_delivery_id_idx", {"delivery_aliases"})
  /\ migrations[2][4] = CopyAliases
  /\ migrations[3][1] = Makes("retry_not_before_ms", {"deliveries"})
  /\ migrations[3][2] = Makes("provider_cooldowns", {})
BY DEF migrations

\* What one statement does, at each position.
LEMMA StatementWorks ==
  ASSUME NEW s
  PROVE  Inv /\ InMigration /\ s = migrations[tx.version + 1][next]
           /\ next <= Len(migrations[tx.version + 1]) =>
         /\ Applicable(tx, s)
         /\ Apply(tx, s) \in Databases
         /\ Apply(tx, s).version = tx.version
         /\ Apply(tx, s).rows = tx.rows
         /\ Position(Apply(tx, s).objects, tx.version, next + 1)
         /\ Aliased(Apply(tx, s), next + 1)
         /\ next + 1 \in 1..5
<1>0. SUFFICES ASSUME Inv, InMigration, s = migrations[tx.version + 1][next],
                      next <= Len(migrations[tx.version + 1])
               PROVE  /\ Applicable(tx, s)
                      /\ Apply(tx, s) \in Databases
                      /\ Apply(tx, s).version = tx.version
                      /\ Apply(tx, s).rows = tx.rows
                      /\ Position(Apply(tx, s).objects, tx.version, next + 1)
                      /\ Aliased(Apply(tx, s), next + 1)
                      /\ next + 1 \in 1..5
  OBVIOUS
<1>1. /\ Position(tx.objects, tx.version, next) /\ Aliased(tx, next) /\ tx \in Databases
  BY <1>0 DEF Inv, TxInv, TypeOK, InMigration
<1>9. tx.version \in 0..2 /\ next \in 1..5
  BY <1>0, Range DEF InMigration
<1>10. ASSUME NEW p, p.rows = tx.rows, NEW n, n # 5, next # 5,
              p.version = tx.version, p.aliases = tx.aliases
       PROVE  Aliased(p, n)
  <2>1. Aliased(tx, next)
    BY <1>1
  <2> QED BY <1>9, <1>10, <2>1 DEF Aliased
<1>4. /\ tx.objects \in SUBSET (V3 \cup {"no transaction"}) /\ tx.version \in 0..3
      /\ tx.rows \in SUBSET IDs /\ tx.aliases \in SUBSET IDs
  BY <1>1, DatabaseIs
<1>2. /\ Apply(tx, s).version = tx.version /\ Apply(tx, s).rows = tx.rows
      /\ Apply(tx, s).objects = tx.objects \cup ({s.makes} \ {"nothing"})
      /\ Apply(tx, s).aliases = tx.aliases \cup (IF s = CopyAliases THEN tx.rows ELSE {})
      /\ Apply(tx, s).objects \in SUBSET (V3 \cup {"no transaction"}) =>
           Apply(tx, s) \in Databases
  <2> DEFINE a == tx.aliases \cup (IF s = CopyAliases THEN tx.rows ELSE {})
             o == tx.objects \cup ({s.makes} \ {"nothing"})
  <2>1. a \in SUBSET IDs
    BY <1>4
  <2>2. Apply(tx, s) = Database(o, tx.version, tx.rows, a)
    BY DEF Apply
  <2>3. ASSUME NEW p, p = Database(o, tx.version, tx.rows, a)
        PROVE  /\ p.version = tx.version /\ p.rows = tx.rows
               /\ p.objects = o /\ p.aliases = a
               /\ o \in SUBSET (V3 \cup {"no transaction"}) => p \in Databases
    <3> HIDE DEF a, o
    <3> QED BY <1>4, <2>1, <2>3 DEF Database, Databases
  <2> QED BY <2>2, <2>3
<1>3. CopyAliases.makes = "nothing" /\ CopyAliases.needs = {"deliveries", "delivery_aliases"}
  BY DEF CopyAliases, Makes
<1>5. ASSUME s.makes \in V3, s.makes # "nothing",
             s.needs \subseteq tx.objects, s.makes \notin tx.objects,
             Position(tx.objects \cup {s.makes}, tx.version, next + 1),
             next \in 1..3
      PROVE  /\ Applicable(tx, s) /\ Apply(tx, s) \in Databases
             /\ Position(Apply(tx, s).objects, tx.version, next + 1)
             /\ Aliased(Apply(tx, s), next + 1) /\ next + 1 \in 1..5
  <2>1. s # CopyAliases
    BY <1>3, <1>5
  <2>2. /\ Apply(tx, s).objects = tx.objects \cup {s.makes}
        /\ Apply(tx, s).aliases = tx.aliases
    BY <1>2, <1>5, <2>1
  <2>3. Apply(tx, s) \in Databases
    BY <1>2, <1>4, <1>5, <2>2
  <2>4. next + 1 # 5 /\ next # 5 /\ next + 1 \in 1..5
    BY <1>5
  <2>5. Aliased(Apply(tx, s), next + 1)
    BY <1>2, <1>10, <2>2, <2>4
  <2>6. Applicable(tx, s)
    BY <1>5, <2>1 DEF Applicable
  <2> QED BY <1>5, <2>2, <2>3, <2>4, <2>5, <2>6
<1>6. CASE tx.version = 0
  <2>1. CASE next = 1
    <3>1. s.makes = "telegram_updates" /\ s.needs = {}
      BY <1>0, <1>6, <2>1, Statements DEF Makes
    <3>2. tx.objects = V0
      BY <1>1, <1>6, <2>1 DEF Position
    <3>3. /\ "telegram_updates" \in V3 /\ "telegram_updates" \notin tx.objects
          /\ s.needs \subseteq tx.objects
      BY <3>1, <3>2 DEF V0, V1, V2, V3
    <3>4. Position(tx.objects \cup {"telegram_updates"}, tx.version, next + 1)
      BY <1>6, <2>1, <3>2 DEF Position, V1, V2, V3
    <3>5. s.makes \in V3 /\ s.makes # "nothing" /\ s.makes \notin tx.objects
      BY <3>1, <3>3
    <3>6. Position(tx.objects \cup {s.makes}, tx.version, next + 1) /\ next \in 1..3
      BY <2>1, <3>1, <3>4
    <3> QED BY <1>2, <1>5, <3>3, <3>5, <3>6
  <2>2. CASE next = 2
    <3>1. s.makes = "deliveries" /\ s.needs = {}
      BY <1>0, <1>6, <2>2, Statements DEF Makes
    <3>2. tx.objects = V0 \cup {"telegram_updates"}
      BY <1>1, <1>6, <2>2 DEF Position
    <3>3. /\ "deliveries" \in V3 /\ "deliveries" \notin tx.objects
          /\ s.needs \subseteq tx.objects
      BY <3>1, <3>2 DEF V0, V1, V2, V3
    <3>4. Position(tx.objects \cup {"deliveries"}, tx.version, next + 1)
      BY <1>6, <2>2, <3>2 DEF Position, V1, V2, V3
    <3>5. s.makes \in V3 /\ s.makes # "nothing" /\ s.makes \notin tx.objects
      BY <3>1, <3>3
    <3>6. Position(tx.objects \cup {s.makes}, tx.version, next + 1) /\ next \in 1..3
      BY <2>2, <3>1, <3>4
    <3> QED BY <1>2, <1>5, <3>3, <3>5, <3>6
  <2>0. next \in 1..2
    BY <1>0, <1>9, <1>6, Statements
  <2> QED BY <2>0, <2>1, <2>2
<1>7. CASE tx.version = 1
  <2>1. CASE next = 1
    <3>1. s.makes = "delivery_idempotency" /\ s.needs = {"deliveries"}
      BY <1>0, <1>7, <2>1, Statements DEF Makes
    <3>2. tx.objects = V1
      BY <1>1, <1>7, <2>1 DEF Position
    <3>3. /\ "delivery_idempotency" \in V3 /\ "delivery_idempotency" \notin tx.objects
          /\ s.needs \subseteq tx.objects
      BY <3>1, <3>2 DEF V0, V1, V2, V3
    <3>4. Position(tx.objects \cup {"delivery_idempotency"}, tx.version, next + 1)
      BY <1>7, <2>1, <3>2 DEF Position, V1, V2, V3
    <3>5. s.makes \in V3 /\ s.makes # "nothing" /\ s.makes \notin tx.objects
      BY <3>1, <3>3
    <3>6. Position(tx.objects \cup {s.makes}, tx.version, next + 1) /\ next \in 1..3
      BY <2>1, <3>1, <3>4
    <3> QED BY <1>2, <1>5, <3>3, <3>5, <3>6
  <2>2. CASE next = 2
    <3>1. s.makes = "delivery_aliases" /\ s.needs = {"deliveries"}
      BY <1>0, <1>7, <2>2, Statements DEF Makes
    <3>2. tx.objects = V1 \cup {"delivery_idempotency"}
      BY <1>1, <1>7, <2>2 DEF Position
    <3>3. /\ "delivery_aliases" \in V3 /\ "delivery_aliases" \notin tx.objects
          /\ s.needs \subseteq tx.objects
      BY <3>1, <3>2 DEF V0, V1, V2, V3
    <3>4. Position(tx.objects \cup {"delivery_aliases"}, tx.version, next + 1)
      BY <1>7, <2>2, <3>2 DEF Position, V1, V2, V3
    <3>5. s.makes \in V3 /\ s.makes # "nothing" /\ s.makes \notin tx.objects
      BY <3>1, <3>3
    <3>6. Position(tx.objects \cup {s.makes}, tx.version, next + 1) /\ next \in 1..3
      BY <2>2, <3>1, <3>4
    <3> QED BY <1>2, <1>5, <3>3, <3>5, <3>6
  <2>3. CASE next = 3
    <3>1. s.makes = "delivery_aliases_delivery_id_idx" /\ s.needs = {"delivery_aliases"}
      BY <1>0, <1>7, <2>3, Statements DEF Makes
    <3>2. tx.objects = V1 \cup {"delivery_idempotency", "delivery_aliases"}
      BY <1>1, <1>7, <2>3 DEF Position
    <3>3. /\ "delivery_aliases_delivery_id_idx" \in V3 /\ "delivery_aliases_delivery_id_idx" \notin tx.objects
          /\ s.needs \subseteq tx.objects
      BY <3>1, <3>2 DEF V0, V1, V2, V3
    <3>4. Position(tx.objects \cup {"delivery_aliases_delivery_id_idx"}, tx.version, next + 1)
      BY <1>7, <2>3, <3>2 DEF Position, V1, V2, V3
    <3>5. s.makes \in V3 /\ s.makes # "nothing" /\ s.makes \notin tx.objects
      BY <3>1, <3>3
    <3>6. Position(tx.objects \cup {s.makes}, tx.version, next + 1) /\ next \in 1..3
      BY <2>3, <3>1, <3>4
    <3> QED BY <1>2, <1>5, <3>3, <3>5, <3>6
  <2>4. CASE next = 4
    <3>1. s = CopyAliases /\ tx.aliases = {} /\ tx.objects = V2
      BY <1>0, <1>1, <1>7, <2>4, Statements DEF Position, Aliased
    <3>2. Apply(tx, s).objects = V2 /\ Apply(tx, s).aliases = tx.rows
      BY <1>2, <1>3, <3>1
    <3>3. Applicable(tx, s)
      BY <1>3, <3>1 DEF Applicable, V2, V1, V0
    <3>4. Apply(tx, s) \in Databases
      BY <1>2, <1>4, <3>1, <3>2
    <3>5. Position(Apply(tx, s).objects, tx.version, next + 1)
      BY <1>7, <2>4, <3>2 DEF Position
    <3>6. ASSUME NEW p, p.version = 1, p.rows = tx.rows, p.aliases = tx.rows
          PROVE  Aliased(p, 5)
      BY <3>6 DEF Aliased
    <3>7. next + 1 = 5
      BY <2>4
    <3>8. Aliased(Apply(tx, s), next + 1)
      BY <1>2, <1>7, <3>2, <3>6, <3>7
    <3>9. next + 1 \in 1..5
      BY <2>4
    <3> QED BY <1>2, <3>3, <3>4, <3>5, <3>8, <3>9
  <2>0. next \in 1..4
    BY <1>0, <1>9, <1>7, Statements
  <2> QED BY <2>0, <2>1, <2>2, <2>3, <2>4
<1>8. CASE tx.version = 2
  <2>1. CASE next = 1
    <3>1. s.makes = "retry_not_before_ms" /\ s.needs = {"deliveries"}
      BY <1>0, <1>8, <2>1, Statements DEF Makes
    <3>2. tx.objects = V2
      BY <1>1, <1>8, <2>1 DEF Position
    <3>3. /\ "retry_not_before_ms" \in V3 /\ "retry_not_before_ms" \notin tx.objects
          /\ s.needs \subseteq tx.objects
      BY <3>1, <3>2 DEF V0, V1, V2, V3
    <3>4. Position(tx.objects \cup {"retry_not_before_ms"}, tx.version, next + 1)
      BY <1>8, <2>1, <3>2 DEF Position, V1, V2, V3
    <3>5. s.makes \in V3 /\ s.makes # "nothing" /\ s.makes \notin tx.objects
      BY <3>1, <3>3
    <3>6. Position(tx.objects \cup {s.makes}, tx.version, next + 1) /\ next \in 1..3
      BY <2>1, <3>1, <3>4
    <3> QED BY <1>2, <1>5, <3>3, <3>5, <3>6
  <2>2. CASE next = 2
    <3>1. s.makes = "provider_cooldowns" /\ s.needs = {}
      BY <1>0, <1>8, <2>2, Statements DEF Makes
    <3>2. tx.objects = V2 \cup {"retry_not_before_ms"}
      BY <1>1, <1>8, <2>2 DEF Position
    <3>3. /\ "provider_cooldowns" \in V3 /\ "provider_cooldowns" \notin tx.objects
          /\ s.needs \subseteq tx.objects
      BY <3>1, <3>2 DEF V0, V1, V2, V3
    <3>4. Position(tx.objects \cup {"provider_cooldowns"}, tx.version, next + 1)
      BY <1>8, <2>2, <3>2 DEF Position, V1, V2, V3
    <3>5. s.makes \in V3 /\ s.makes # "nothing" /\ s.makes \notin tx.objects
      BY <3>1, <3>3
    <3>6. Position(tx.objects \cup {s.makes}, tx.version, next + 1) /\ next \in 1..3
      BY <2>2, <3>1, <3>4
    <3> QED BY <1>2, <1>5, <3>3, <3>5, <3>6
  <2>0. next \in 1..2
    BY <1>0, <1>9, <1>8, Statements
  <2> QED BY <2>0, <2>1, <2>2
<1>11. tx.version = 0 \/ tx.version = 1 \/ tx.version = 2
  BY <1>9
<1> QED BY <1>6, <1>7, <1>8, <1>11

LEMMA InitInv == Init => Inv
<1>1. Fresh \in Databases /\ NoTransaction \in Databases
  BY Constants
<1>2. Fresh.version = 0 /\ Fresh.objects = {} /\ Fresh.aliases = {}
  BY Constants
<1> QED BY <1>1, <1>2 DEF Init, Inv, TypeOK, TxInv, DiskInv, Whole, Aliased

\* A transaction is not no transaction.
LEMMA Tx == \A db : (\E v, n : Position(db.objects, v, n)) => db # NoTransaction
<1>1. NoTransaction.objects = {"no transaction"}
  BY DEF NoTransaction, Database
<1> QED BY <1>1 DEF Position, V0, V1, V2, V3

LEMMA Step == Inv /\ [Next]_vars => Inv'
<1> SUFFICES ASSUME Inv, [Next]_vars PROVE Inv'
  OBVIOUS
<1> USE DEF Inv, TypeOK, TxInv, DiskInv
<1>0. NoTransaction \in Databases /\ release \in 1..3
  BY Range, Constants
<1>1. CASE Begin
  <2>1. CASE Newer(disk)
    BY <1>1, <2>1 DEF Begin
  <2>2. CASE ~Newer(disk)
    <3>1. /\ tx' = WithVersions(disk) /\ UNCHANGED <<disk, phase, release, next>> /\ next = 1
      BY <1>1, <2>2 DEF Begin, Execute
    <3>2. /\ tx'.version = disk.version /\ tx'.rows = disk.rows /\ tx'.aliases = disk.aliases
          /\ tx'.objects = disk.objects \cup {"schema_migrations"}
          /\ tx' \in Databases
      <4> DEFINE o == disk.objects \cup {"schema_migrations"}
      <4>1. /\ disk.objects \in SUBSET (V3 \cup {"no transaction"})
            /\ disk.version \in 0..3 /\ disk.rows \in SUBSET IDs /\ disk.aliases \in SUBSET IDs
        BY DatabaseIs
      <4>2. "schema_migrations" \in V3
        BY DEF V3, V2, V1, V0
      <4>3. o \in SUBSET (V3 \cup {"no transaction"})
        BY <4>1, <4>2
      <4>4. tx' = Database(o, disk.version, disk.rows, disk.aliases)
        BY <3>1 DEF WithVersions
      <4> HIDE DEF o
      <4>5. /\ tx'.version = disk.version /\ tx'.rows = disk.rows
            /\ tx'.aliases = disk.aliases /\ tx'.objects = o /\ tx' \in Databases
        BY <4>1, <4>3, <4>4 DEF Database, Databases
      <4> QED BY <4>5 DEF o
    <3>3. Position(tx'.objects, tx'.version, 1) /\ Aliased(tx', 1)
      BY <3>2 DEF Whole, Position, Aliased, V0, V1, V2, V3
    <3>4. disk.version <= release
      BY <2>2, Range DEF Newer
    <3> QED BY <1>0, <1>1, <3>1, <3>2, <3>3, <3>4 DEF Begin
  <2> QED BY <2>1, <2>2
<1>2. CASE ExecStatement
  <2> SUFFICES ASSUME NEW s, s = migrations[tx.version + 1][next]
      PROVE  Inv'
    OBVIOUS
  <2>1. Applicable(tx, s) /\ InMigration /\ next <= Len(migrations[tx.version + 1])
    BY <1>2, StatementWorks DEF ExecStatement
  <2>2. /\ tx' = Apply(tx, s) /\ next' = next + 1 /\ UNCHANGED <<disk, phase, release>>
    BY <1>2, <2>1 DEF ExecStatement, Execute
  <2>3. /\ tx' \in Databases /\ tx'.version = tx.version
        /\ Position(tx'.objects, tx'.version, next') /\ Aliased(tx', next')
        /\ next' \in 1..5
    BY <2>1, <2>2, StatementWorks
  <2>4. tx.version < release /\ tx # NoTransaction
    BY <2>1 DEF InMigration
  <2>5. phase = "open" /\ disk.version <= release
    BY <2>4
  <2>6. tx' # NoTransaction
    BY <2>3, Tx
  <2>7. TypeOK'
    BY <2>2, <2>3
  <2>8. TxInv'
    BY <1>0, <2>2, <2>3, <2>4, <2>5, <2>6, Range
  <2>9. DiskInv'
    BY <2>2
  <2> QED BY <2>7, <2>8, <2>9
<1>3. CASE RecordVersion
  <2>1. /\ tx' = Database(tx.objects, tx.version + 1, tx.rows, tx.aliases) /\ next' = 1
        /\ UNCHANGED <<disk, phase, release>> /\ InMigration
        /\ next > Len(migrations[tx.version + 1])
    BY <1>3 DEF RecordVersion, Execute
  <2>2. /\ tx'.version = tx.version + 1 /\ tx'.objects = tx.objects
        /\ tx'.rows = tx.rows /\ tx'.aliases = tx.aliases
        /\ tx.version \in 0..2 /\ tx'.version <= release /\ tx' \in Databases
    <3>1. tx.version \in 0..2 /\ tx.version + 1 \in 0..3 /\ tx.version + 1 <= release
      BY <1>0, <2>1, Range DEF InMigration
    <3>2. /\ tx.objects \in SUBSET (V3 \cup {"no transaction"})
          /\ tx.rows \in SUBSET IDs /\ tx.aliases \in SUBSET IDs
      BY DatabaseIs
    <3>3. /\ tx'.version = tx.version + 1 /\ tx'.objects = tx.objects
          /\ tx'.rows = tx.rows /\ tx'.aliases = tx.aliases /\ tx' \in Databases
      BY <2>1, <3>1, <3>2 DEF Database, Databases
    <3> QED BY <3>1, <3>3
  <2>4. Position(tx.objects, tx.version, next) /\ Aliased(tx, next)
    BY <2>1 DEF InMigration
  <2>5. \/ tx.version = 0 /\ next = 3 /\ tx.objects = V1
        \/ tx.version = 1 /\ next = 5 /\ tx.objects = V2
        \/ tx.version = 2 /\ next = 3 /\ tx.objects = V3
    BY <2>1, <2>2, <2>4, Statements DEF Position
  <2>6. Position(tx'.objects, tx'.version, 1) /\ Aliased(tx', 1)
    BY <2>2, <2>4, <2>5 DEF Position, Aliased
  <2> QED BY <2>1, <2>2, <2>6 DEF InMigration
<1>4. CASE Commit
  <2>1. /\ disk' = tx /\ tx' = NoTransaction /\ phase' = "run" /\ UNCHANGED <<release, next>>
        /\ Position(tx.objects, tx.version, next) /\ Aliased(tx, next)
        /\ tx.version = release /\ tx \in Databases
    BY <1>0, <1>4, Range DEF Commit
  <2>2. next = 1 /\ release \in 1..3 /\ tx # NoTransaction
    BY <1>0, <1>4, <2>1 DEF Commit
  <2>3. Whole(tx) /\ Aliased(tx, 1)
    BY <2>1, <2>2 DEF Position, Whole
  <2> QED BY <1>0, <2>1, <2>2, <2>3
<1>5. CASE Crash
  BY <1>0, <1>5 DEF Crash
<1>6. CASE Exit
  BY <1>0, <1>6 DEF Exit
<1>7. ASSUME NEW r \in Releases, Start(r)
      PROVE  Inv'
  BY <1>0, <1>7 DEF Start
<1>8. ASSUME NEW d \in IDs, AddDelivery(d)
      PROVE  Inv'
  <2>1. /\ disk' = Database(disk.objects, disk.version, disk.rows \cup {d},
                            disk.aliases \cup (IF release >= 2 THEN {d} ELSE {}))
        /\ UNCHANGED <<tx, release, phase, next>> /\ phase = "run"
    BY <1>8 DEF AddDelivery
  <2>2. /\ disk'.objects = disk.objects /\ disk'.version = disk.version
        /\ disk'.rows = disk.rows \cup {d}
        /\ disk'.aliases = disk.aliases \cup (IF release >= 2 THEN {d} ELSE {})
        /\ disk' \in Databases /\ disk.version = release
    <3> DEFINE a == disk.aliases \cup (IF release >= 2 THEN {d} ELSE {})
               r == disk.rows \cup {d}
    <3>1. /\ disk.objects \in SUBSET (V3 \cup {"no transaction"}) /\ disk.version \in 0..3
          /\ disk.rows \in SUBSET IDs /\ disk.aliases \in SUBSET IDs
      BY DatabaseIs
    <3>2. a \in SUBSET IDs /\ r \in SUBSET IDs
      BY <1>8, <3>1
    <3>3. disk' = Database(disk.objects, disk.version, r, a) /\ disk.version = release
      BY <2>1
    <3> HIDE DEF a, r
    <3>4. /\ disk'.objects = disk.objects /\ disk'.version = disk.version
          /\ disk'.rows = r /\ disk'.aliases = a /\ disk' \in Databases
      BY <3>1, <3>2, <3>3 DEF Database, Databases
    <3> QED BY <3>3, <3>4 DEF a, r
  <2>3. Whole(disk') /\ Aliased(disk', 1)
    BY <1>0, <2>2 DEF Whole, Aliased
  <2> QED BY <2>1, <2>2, <2>3
<1>9. CASE UNCHANGED vars
  BY <1>9 DEF vars
<1> QED BY <1>1, <1>2, <1>3, <1>4, <1>5, <1>6, <1>7, <1>8, <1>9 DEF Next, Migrate

THEOREM Invariance == Spec => []Inv
BY InitInv, Step, PTL DEF Spec

\* The versions of the schema, as sets.
LEMMA ObjectsOf ==
  /\ Objects(0) \ {"nothing"} = {} /\ Objects(1) \ {"nothing"} = V1
  /\ Objects(2) \ {"nothing"} = V2 /\ Objects(3) \ {"nothing"} = V3
<1> DEFINE Made(v) == {migrations[v][i].makes : i \in DOMAIN migrations[v]}
<1>1. /\ DOMAIN migrations[1] = {1, 2} /\ DOMAIN migrations[2] = {1, 2, 3, 4}
      /\ DOMAIN migrations[3] = {1, 2}
  BY DEF migrations
<1>2. /\ Made(1) = {"telegram_updates", "deliveries"}
      /\ Made(2) = {"delivery_idempotency", "delivery_aliases",
                    "delivery_aliases_delivery_id_idx", "nothing"}
      /\ Made(3) = {"retry_not_before_ms", "provider_cooldowns"}
  BY <1>1, Statements DEF Makes, CopyAliases
<1> HIDE DEF Made
<1>3. \A v : Objects(v) = IF v = 0 THEN {} ELSE {"schema_migrations"} \cup
                                            UNION {Made(u) : u \in 1..v}
  BY DEF Objects, Made
<1>4. /\ UNION {Made(u) : u \in 1..1} = Made(1)
      /\ UNION {Made(u) : u \in 1..2} = Made(1) \cup Made(2)
      /\ UNION {Made(u) : u \in 1..3} = Made(1) \cup Made(2) \cup Made(3)
  <2>1. 1..1 = {1} /\ 1..2 = {1, 2} /\ 1..3 = {1, 2, 3}
    OBVIOUS
  <2> QED BY <2>1
<1>5. Objects(0) \ {"nothing"} = {}
  BY <1>3
<1>6. Objects(1) \ {"nothing"} = V1
  BY <1>2, <1>3, <1>4 DEF V0, V1
<1>7. Objects(2) \ {"nothing"} = V2
  BY <1>2, <1>3, <1>4 DEF V0, V1, V2
<1>8. Objects(3) \ {"nothing"} = V3
  BY <1>2, <1>3, <1>4 DEF V0, V1, V2, V3
<1> QED BY <1>5, <1>6, <1>7, <1>8

\* No crash leaves half a migration on disk.
THEOREM SchemaIsWhole == Spec => []VersionIsTrue
<1>1. Inv => VersionIsTrue
  BY ObjectsOf DEF Inv, DiskInv, Whole, VersionIsTrue
<1> QED BY <1>1, Invariance, PTL

\* No earlier start makes migrate fail.
THEOREM NeverLockedOut == Spec => []AlwaysOpens
<1>1. Inv => AlwaysOpens
  BY DEF Inv, TypeOK, AlwaysOpens
<1> QED BY <1>1, Invariance, PTL

\* Every delivery can be found by alias.
THEOREM NoneUnaliased == Spec => []AllAliased
<1>1. Inv => AllAliased
  BY ReleasesAssumption DEF Inv, DiskInv, Aliased, AllAliased, TypeOK
<1> QED BY <1>1, Invariance, PTL

-----------------------------------------------------------------------------
(* From the files to serving.                                              *)


Calls == [bot : Bots, secret : Secrets, drop : BOOLEAN, own : BOOLEAN]
Opened == {"getMe", "register", "waiting", "serving"}

StartTypeOK ==
  /\ files \in Configs /\ config \in Configs
  /\ stage \in {"off", "token"} \cup Opened
  /\ calls \in SUBSET Calls
  /\ hook \in [Bots -> [secret : Secrets, connections : Nat, by : {"other", "own", "late"}]]

StageInv ==
  /\ stage \in Opened => phase = "run"
  /\ stage = "token" => phase = "down"

\* A call that is not late is the one that the process waits for.
CallInv == \A call \in calls : call.own => stage = "waiting" /\ call = SetWebhook(TRUE)

Mine == \/ hook[config.bot] = Registration(config.secret, 1, "own")
        \/ hook[config.bot].by = "late"

HookInv ==
  /\ stage = "waiting" /\ SetWebhook(TRUE) \notin calls => Mine
  /\ stage = "serving" /\ config.url => Mine

StartInv == StartTypeOK /\ StageInv /\ CallInv /\ HookInv

\* Every step of a start is one of SchemaMigration, or leaves the database alone.
LEMMA StartRefines == [NextStart]_allVars => [Next]_vars
<1>1. SUFFICES ASSUME [NextStart]_allVars PROVE [Next]_vars
  OBVIOUS
<1>2. CASE UNCHANGED allVars
  BY <1>2 DEF allVars, vars
<1>3. CASE Starting \/ \E call \in calls : TelegramApplies(call)
  BY <1>3 DEF Starting, ReadToken, ReadSecret, OpenStore, GetMe, Register, Registered,
              TelegramApplies, Next
<1>4. CASE Die \/ GiveUp
  BY <1>4 DEF Die, GiveUp, Next
<1>5. CASE \E f \in Files : Configure(f)
  BY <1>5 DEF Configure
<1>6. CASE \E d \in IDs : Store(d)
  BY <1>6 DEF Store, Next
<1>7. CASE \E b \in Bots : Write(b) \/ Accept(b)
  BY <1>7 DEF Write, Accept
<1> QED BY <1>1, <1>2, <1>3, <1>4, <1>5, <1>6, <1>7 DEF NextStart

\* What is proved of migrations holds of them as parts of a start: the schema is
\* that of its version, no start is locked out, and every delivery has its alias.
THEOREM StartMigrates == StartSpec => [](VersionIsTrue /\ AlwaysOpens /\ AllAliased)
<1>1. InitStart => Init
  BY DEF InitStart
<1>2. StartSpec => Spec
  BY <1>1, StartRefines, PTL DEF StartSpec, Spec
<1> QED BY <1>2, SchemaIsWhole, NeverLockedOut, NoneUnaliased, PTL

-----------------------------------------------------------------------------
LEMMA StartInit == InitStart => StartInv
<1> SUFFICES ASSUME InitStart PROVE StartInv
  OBVIOUS
<1>1. files \in Configs /\ config \in Configs
  BY FilesAssumption DEF InitStart
<1>2. hook \in [Bots -> [secret : Secrets, connections : Nat, by : {"other", "own", "late"}]]
  BY ConnectionsAssumption DEF InitStart, Registration
<1> QED
  BY <1>1, <1>2 DEF InitStart, StartInv, StartTypeOK, StageInv, CallInv, HookInv, Opened

\* The call of the process is one of Calls; late, it still is.
LEMMA CallIs ==
  ASSUME config \in Configs
  PROVE  /\ config.bot \in Bots /\ config.secret \in Secrets /\ config.url \in BOOLEAN
         /\ SetWebhook(TRUE) \in Calls /\ SetWebhook(TRUE).own
<1> QED BY DEF Configs, Calls, SetWebhook

LEMMA LateIs ==
  ASSUME NEW call \in Calls
  PROVE  Late(call) \in Calls /\ ~Late(call).own
<1> QED BY DEF Late, Calls

LEMMA StartTypeStep == StartInv /\ [NextStart]_allVars => StartTypeOK'
<1> SUFFICES ASSUME StartInv, [NextStart]_allVars PROVE StartTypeOK'
  OBVIOUS
<1> USE DEF StartInv, StartTypeOK
<1>1. ASSUME NEW f \in Files, Configure(f)
      PROVE  StartTypeOK'
  BY <1>1, FilesAssumption DEF Configure, startVars
<1>2. CASE ReadToken
  BY <1>2 DEF ReadToken, Configs
<1>3. ASSUME NEW r \in Releases, ReadSecret(r)
      PROVE  StartTypeOK'
  BY <1>3 DEF ReadSecret, Configs
<1>4. CASE OpenStore
  BY <1>4 DEF OpenStore, Opened
<1>5. CASE GetMe
  BY <1>5 DEF GetMe, Opened
<1>6. CASE Register
  BY <1>6, CallIs DEF Register, Opened
<1>7. ASSUME NEW call \in calls, TelegramApplies(call)
      PROVE  StartTypeOK'
  <2>1. call.bot \in Bots /\ call.secret \in Secrets
    BY DEF Calls
  <2>2. Registration(call.secret, 1, IF call.own THEN "own" ELSE "late") \in
          [secret : Secrets, connections : Nat, by : {"other", "own", "late"}]
    BY <2>1 DEF Registration
  <2>3. calls' \in SUBSET Calls
    BY <1>7 DEF TelegramApplies
  <2> QED BY <1>7, <2>2, <2>3 DEF TelegramApplies
<1>8. CASE Registered
  BY <1>8 DEF Registered, Opened
<1>9. CASE Die \/ GiveUp
  <2>1. calls' \in SUBSET Calls
    BY <1>9, LateIs DEF Die, GiveUp, Gone
  <2>2. \A b \in Bots :
          (IF hook[b].by = "own" THEN [hook[b] EXCEPT !.by = "other"] ELSE hook[b]) \in
            [secret : Secrets, connections : Nat, by : {"other", "own", "late"}]
    OBVIOUS
  <2> QED BY <1>9, <2>1, <2>2 DEF Die, GiveUp, Gone
<1>10. ASSUME NEW d \in IDs, Store(d)
       PROVE  StartTypeOK'
  BY <1>10 DEF Store, startVars
<1>11. ASSUME NEW b \in Bots, Write(b) \/ Accept(b)
       PROVE  StartTypeOK'
  BY <1>11 DEF Write, Accept, startVars
<1>12. CASE UNCHANGED allVars
  BY <1>12 DEF allVars, startVars
<1> QED BY <1>1, <1>2, <1>3, <1>4, <1>5, <1>6, <1>7, <1>8, <1>9, <1>10, <1>11, <1>12
        DEF NextStart, Starting

LEMMA StartStep == StartInv /\ [NextStart]_allVars => StartInv'
<1> SUFFICES ASSUME StartInv, [NextStart]_allVars PROVE StartInv'
  OBVIOUS
<1>0. StartTypeOK'
  BY StartTypeStep
<1>p. StartTypeOK /\ StageInv /\ CallInv /\ HookInv
  BY DEF StartInv
<1> DEFINE Rest == StageInv /\ CallInv /\ HookInv
<1>r. SUFFICES Rest'
  BY <1>0 DEF StartInv
<1>q. /\ config.bot \in Bots /\ SetWebhook(TRUE).own
      /\ SetWebhook(TRUE).bot = config.bot /\ SetWebhook(TRUE).secret = config.secret
  BY <1>p, CallIs DEF StartTypeOK, SetWebhook
<1>1. ASSUME NEW f \in Files, Configure(f)
      PROVE  Rest'
  BY <1>1, <1>p DEF Configure, startVars, vars, StageInv, CallInv, HookInv, Mine, SetWebhook
<1>2. CASE ReadToken
  BY <1>2, <1>p DEF ReadToken, vars, StageInv, CallInv, HookInv, Opened
<1>3. ASSUME NEW r \in Releases, ReadSecret(r)
      PROVE  Rest'
  BY <1>3, <1>p DEF ReadSecret, StageInv, CallInv, HookInv, Opened
<1>4. CASE OpenStore
  <2>1. phase = "open" /\ stage \notin Opened
    BY <1>4, <1>p DEF OpenStore, Migrate, Begin, ExecStatement, InMigration, RecordVersion,
                      Commit, StageInv
  <2> QED BY <1>4, <1>p, <2>1 DEF OpenStore, StageInv, CallInv, HookInv, Opened
<1>5. CASE GetMe
  BY <1>5, <1>p DEF GetMe, vars, StageInv, CallInv, HookInv, Opened
<1>6. CASE Register
  <2>1. SetWebhook(TRUE)' = SetWebhook(TRUE)
    BY <1>6 DEF Register, SetWebhook
  <2> QED BY <1>6, <1>p, <2>1 DEF Register, vars, StageInv, CallInv, HookInv, Opened
<1>7. ASSUME NEW call \in calls, TelegramApplies(call)
      PROVE  Rest'
  <2>1. SetWebhook(TRUE)' = SetWebhook(TRUE) /\ calls' \subseteq calls
    BY <1>7 DEF TelegramApplies, SetWebhook
  <2>2. StageInv' /\ CallInv'
    BY <1>7, <1>p, <2>1 DEF TelegramApplies, vars, StageInv, CallInv
  <2>3. call.own => call = SetWebhook(TRUE)
    BY <1>p DEF CallInv
  <2>4. hook' = [hook EXCEPT ![call.bot] =
                   Registration(call.secret, 1, IF call.own THEN "own" ELSE "late")]
    BY <1>7 DEF TelegramApplies
  <2>5. config.bot \in DOMAIN hook
    BY <1>p, <1>q DEF StartTypeOK
  <2>6. CASE call.bot = config.bot
    <3>1. hook'[config.bot] = Registration(call.secret, 1, IF call.own THEN "own" ELSE "late")
      BY <2>4, <2>5, <2>6
    <3>2. CASE call.own
      <4>1. hook'[config.bot] = Registration(config.secret, 1, "own")
        BY <3>1, <3>2, <2>3, <1>q
      <4> QED BY <4>1, <2>2, <1>7 DEF Mine, HookInv, TelegramApplies
    <3>3. CASE ~call.own
      <4>1. hook'[config.bot].by = "late"
        BY <3>1, <3>3 DEF Registration
      <4> QED BY <4>1, <2>2, <1>7 DEF Mine, HookInv, TelegramApplies
    <3> QED BY <3>2, <3>3
  <2>7. CASE call.bot # config.bot
    <3>1. hook'[config.bot] = hook[config.bot]
      BY <2>4, <2>5, <2>7
    <3>2. call # SetWebhook(TRUE)
      BY <2>7, <1>q
    <3>3. SetWebhook(TRUE) \in calls => SetWebhook(TRUE) \in calls'
      BY <1>7, <3>2 DEF TelegramApplies
    <3> QED BY <1>7, <1>p, <2>1, <2>2, <3>1, <3>3 DEF Mine, HookInv, TelegramApplies
  <2> QED BY <2>6, <2>7
<1>8. CASE Registered
  <2>1. \A call \in calls : ~call.own
    BY <1>8, <1>p DEF Registered, CallInv
  <2>2. Mine
    BY <1>8, <1>p DEF Registered, HookInv
  <2> QED BY <1>8, <1>p, <2>1, <2>2 DEF Registered, vars, StageInv, CallInv, HookInv, Mine,
                                        Opened
<1>9. CASE Die \/ GiveUp
  <2>1. stage' = "off" /\ calls' = {Late(call) : call \in calls}
    BY <1>9 DEF Die, GiveUp, Gone
  <2>2. \A call \in calls' : ~call.own
    BY <1>p, <2>1, LateIs DEF StartTypeOK
  <2> QED BY <2>1, <2>2 DEF StageInv, CallInv, HookInv, Opened
<1>10. ASSUME NEW d \in IDs, Store(d)
       PROVE  Rest'
  BY <1>10, <1>p DEF Store, AddDelivery, startVars, StageInv, CallInv, HookInv, Mine, SetWebhook
<1>11. ASSUME NEW b \in Bots, Write(b) \/ Accept(b)
       PROVE  Rest'
  BY <1>11, <1>p DEF Write, Accept, startVars, vars, StageInv, CallInv, HookInv, Mine, SetWebhook
<1>12. CASE UNCHANGED allVars
  BY <1>12, <1>p DEF allVars, startVars, vars, StageInv, CallInv, HookInv, Mine, SetWebhook
<1> QED BY <1>1, <1>2, <1>3, <1>4, <1>5, <1>6, <1>7, <1>8, <1>9, <1>10, <1>11, <1>12
        DEF NextStart, Starting

\* A serving process has its own registration, or one that came late.
THEOREM ServesRegistered == StartSpec => []Reachable
<1>1. StartInv => Reachable
  BY DEF StartInv, HookInv, Reachable, Mine
<1> QED BY <1>1, StartInit, StartStep, PTL DEF StartSpec

=============================================================================
