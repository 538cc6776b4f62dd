--------------------------- MODULE SchemaMigration ---------------------------
(***************************************************************************)
(* Opening the database: migrate (internal/store/store.go) statement by    *)
(* statement, in its one transaction, with crashes and failures anywhere,  *)
(* under adapters of several releases on one file.                         *)
(*                                                                         *)
(* A release is the number of migrations it knows.  Of the schema, what    *)
(* exists; of the data, the deliveries and which of them have an alias:    *)
(* release 1 has no aliases, later ones write one with every delivery.     *)
(***************************************************************************)
EXTENDS Naturals, Sequences

CONSTANTS
  IDs,       \* delivery IDs
  Releases   \* of the adapters that may run on the database

ASSUME ReleasesAssumption == Releases \subseteq 1..3

VARIABLES
  disk,     \* the committed database
  tx,       \* what the transaction of migrate sees, or no transaction
  release,  \* of the process
  phase,    \* down, open (in migrate), run, refused, failed
  next      \* statement of the current migration

vars == <<disk, tx, release, phase, next>>

Database(objects, version, rows, aliases) ==
  [objects |-> objects, version |-> version, rows |-> rows, aliases |-> aliases]
Fresh == Database({}, 0, {}, {})
NoTransaction == Database({"no transaction"}, 0, {}, {})

-----------------------------------------------------------------------------
(* The statements.                                                         *)

Makes(object, needs) == [makes |-> object, needs |-> needs]
CopyAliases == Makes("nothing", {"deliveries", "delivery_aliases"})

\* Fault: rows of release 1 get no alias.
migrationsNoCopy ==
  <<<<Makes("telegram_updates", {}), Makes("deliveries", {})>>,
    <<Makes("delivery_idempotency", {"deliveries"}),
      Makes("delivery_aliases", {"deliveries"}),
      Makes("delivery_aliases_delivery_id_idx", {"delivery_aliases"})>>,
    <<Makes("retry_not_before_ms", {"deliveries"}), Makes("provider_cooldowns", {})>>>>

migrations ==
  <<<<Makes("telegram_updates", {}), Makes("deliveries", {})>>,
    <<Makes("delivery_idempotency", {"deliveries"}),
      Makes("delivery_aliases", {"deliveries"}),
      Makes("delivery_aliases_delivery_id_idx", {"delivery_aliases"}),
      CopyAliases>>,
    <<Makes("retry_not_before_ms", {"deliveries"}), Makes("provider_cooldowns", {})>>>>

\* Nothing is made twice, and a primary key is not inserted twice.
Applicable(db, statement) ==
  /\ statement.needs \subseteq db.objects
  /\ statement.makes \notin db.objects
  /\ statement = CopyAliases => db.aliases \cap db.rows = {}

Apply(db, statement) ==
  Database(db.objects \cup ({statement.makes} \ {"nothing"}), db.version, db.rows,
           db.aliases \cup (IF statement = CopyAliases THEN db.rows ELSE {}))

\* schema_migrations, made if it is missing.
WithVersions(db) ==
  Database(db.objects \cup {"schema_migrations"}, db.version, db.rows, db.aliases)

\* "store schema is newer than this adapter"
Newer(db) == db.version > release

\* Fault: every statement is a transaction of its own.
ExecuteThrough(db) == tx' = db /\ disk' = db

\* A statement writes to the transaction.
Execute(db) == tx' = db /\ UNCHANGED disk

-----------------------------------------------------------------------------
Init ==
  /\ disk = Fresh /\ tx = NoTransaction
  /\ release \in Releases /\ phase = "down" /\ next = 1

\* A process starts: any release the operator deploys.
Start(r) ==
  /\ phase = "down"
  /\ release' = r /\ phase' = "open" /\ next' = 1
  /\ UNCHANGED <<disk, tx>>

\* BEGIN IMMEDIATE, the version table, and the version.
Begin ==
  /\ phase = "open" /\ tx = NoTransaction
  /\ IF Newer(disk)
     THEN phase' = "refused" /\ UNCHANGED <<disk, tx>>
     ELSE Execute(WithVersions(disk)) /\ UNCHANGED phase
  /\ UNCHANGED <<release, next>>

InMigration == phase = "open" /\ tx # NoTransaction /\ tx.version < release

\* One statement, or its error and the rollback.
ExecStatement ==
  /\ InMigration /\ next <= Len(migrations[tx.version + 1])
  /\ LET statement == migrations[tx.version + 1][next]
     IN  IF Applicable(tx, statement)
         THEN Execute(Apply(tx, statement)) /\ next' = next + 1 /\ UNCHANGED phase
         ELSE phase' = "failed" /\ tx' = NoTransaction /\ UNCHANGED <<disk, next>>
  /\ UNCHANGED release

RecordVersion ==
  /\ InMigration /\ next > Len(migrations[tx.version + 1])
  /\ Execute(Database(tx.objects, tx.version + 1, tx.rows, tx.aliases)) /\ next' = 1
  /\ UNCHANGED <<release, phase>>

Commit ==
  /\ phase = "open" /\ tx # NoTransaction /\ tx.version >= release
  /\ disk' = tx /\ tx' = NoTransaction /\ phase' = "run"
  /\ UNCHANGED <<release, next>>

\* The process ends: killed, or an error of the disk; SQLite rolls back.
Crash ==
  /\ phase \in {"open", "run"}
  /\ phase' = "down" /\ tx' = NoTransaction /\ next' = 1
  /\ UNCHANGED <<disk, release>>

\* run returns the error of Open, and the process is started again.
Exit ==
  /\ phase \in {"refused", "failed"}
  /\ phase' = "down" /\ next' = 1
  /\ UNCHANGED <<disk, tx, release>>

\* A new delivery, as the running release stores it.
AddDelivery(d) ==
  /\ phase = "run" /\ d \notin disk.rows
  /\ disk' = Database(disk.objects, disk.version, disk.rows \cup {d},
                      disk.aliases \cup (IF release >= 2 THEN {d} ELSE {}))
  /\ UNCHANGED <<tx, release, phase, next>>

Migrate == Begin \/ ExecStatement \/ RecordVersion \/ Commit

Next ==
  \/ Migrate \/ Crash \/ Exit
  \/ \E r \in Releases : Start(r)
  \/ \E d \in IDs : AddDelivery(d)

Spec == Init /\ [][Next]_vars

-----------------------------------------------------------------------------
(* Properties.                                                             *)

Objects(version) ==
  IF version = 0 THEN {}
  ELSE {"schema_migrations"} \cup
       UNION {{migrations[v][i].makes : i \in DOMAIN migrations[v]} : v \in 1..version}

\* Whenever it is looked at, the database is that of the version it records,
\* whole: no crash leaves half a migration, or a migration and no record of it.
VersionIsTrue == disk.objects = Objects(disk.version) \ {"nothing"}

\* A database that an earlier start left behind never makes a statement of
\* migrate fail, so that a crash cannot lock the adapter out for good.
AlwaysOpens == phase # "failed"

\* Once an adapter that looks deliveries up by alias runs, every delivery has
\* one, by whichever release it was stored: an older release that is rolled back
\* to adds none without ("store schema is newer than this adapter").
AllAliased == phase = "run" /\ release >= 2 => disk.rows \subseteq disk.aliases

=============================================================================
