------------------------------ MODULE Startup -------------------------------
(***************************************************************************)
(* How processes find their database: migrate and init_db of               *)
(* backend/database.py, provision of backend/db_roles.py and the start of  *)
(* the API (_lifespan), of a worker and of the two commands of manage.py.  *)
(* Every revision r of the schema creates table r; the first creates       *)
(* alembic_version too, which is modelled as part of table 1. Transactions *)
(* are steps that take table locks and steps that commit.                  *)
(*                                                                         *)
(* boot   per process: down -> lock -> owned -> upgrade -> commit          *)
(*        -> ready -> serving (or -> provision -> granting -> ended);      *)
(*        check and wait for those that do not migrate; or failed          *)
(***************************************************************************)
EXTENDS Naturals, FiniteSets

CONSTANTS Starters,
          HeadOf,       \* process |-> the head revision of its code
          LoginOf,      \* process |-> the role it connects as
          RoleOf,       \* process |-> "api", "reader", "worker", "migrate" or "provision"
          MaxBootCrashes,
          Unheld

ASSUME RolesAssumption ==
    /\ HeadOf \in [Starters -> Nat] /\ Unheld \notin Starters
    /\ LoginOf \in [Starters -> {"admin", "migrator", "app"}]
    /\ RoleOf \in [Starters -> {"api", "reader", "worker", "migrate", "provision"}]

VARIABLES boot,
          revision,      \* alembic_version
          owner,         \* tables 1..revision |-> the role that owns them
          granted,       \* tables the application may use
          schemaOwner,
          migrationLock, \* the holder of the advisory lock
          seesOwner,     \* per process: what owns_current_schema told it
          touching,      \* processes whose transaction has used alembic_version
          locked,        \* tables that provisioning has locked
          found,         \* history, per process: the revision init_db accepted
          raced,         \* history: tables of migrations that provisioning overtook
          bootCrashes

startVars == <<boot, revision, owner, granted, schemaOwner, migrationLock, seesOwner, touching,
               locked, found, raced, bootCrashes>>

StartInit ==
    /\ boot = [p \in Starters |-> "down"]
    /\ revision = 0 /\ owner = << >> /\ granted = {} /\ schemaOwner = "admin"
    /\ migrationLock = Unheld /\ seesOwner = [p \in Starters |-> FALSE]
    /\ touching = {} /\ locked = {} /\ raced = {}
    /\ found = [p \in Starters |-> 0]
    /\ bootCrashes = 0

SchemaTables == 1..revision

Boots(p, loc) == boot' = [boot EXCEPT ![p] = loc]

(* alembic_version can be read unless provisioning has locked it. *)
Readable == 1 \notin locked

(* _ensure_roles: the roles other than the administrator's exist once the  *)
(* schema is provisioned.                                                  *)
Connect(p) ==
    /\ boot[p] = "down"
    /\ LoginOf[p] # "admin" => schemaOwner = "owner"
    /\ Boots(p, CASE RoleOf[p] = "reader" -> "check" [] RoleOf[p] = "worker" -> "wait" [] OTHER -> "lock")
    /\ UNCHANGED <<revision, owner, granted, schemaOwner, migrationLock, seesOwner, touching, locked, found, raced, bootCrashes>>

-----------------------------------------------------------------------------
(* migrate *)

(* Migrates without the lock (mutant of TryMigrationLock). *)
MigrateUnlocked(p) ==
    /\ boot[p] = "lock"
    /\ Boots(p, "owned")
    /\ UNCHANGED <<revision, owner, granted, schemaOwner, migrationLock, seesOwner, touching, locked, found, raced, bootCrashes>>

(* pg_try_advisory_xact_lock, until it succeeds *)
TryMigrationLock(p) ==
    /\ boot[p] = "lock" /\ migrationLock = Unheld
    /\ migrationLock' = p
    /\ Boots(p, "owned")
    /\ UNCHANGED <<revision, owner, granted, schemaOwner, seesOwner, touching, locked, found, raced, bootCrashes>>

ReleaseMigrationLock(p) == migrationLock' = IF migrationLock = p THEN Unheld ELSE migrationLock

(* ... or the deadline passes. *)
LockTimeout(p) ==
    /\ boot[p] = "lock" /\ migrationLock # Unheld
    /\ Boots(p, "failed")
    /\ UNCHANGED <<revision, owner, granted, schemaOwner, migrationLock, seesOwner, touching, locked, found, raced, bootCrashes>>

(* _ensure_memberships: the migrator, besides any superuser *)
CanBecome(p) == LoginOf[p] \in {"admin", "migrator"}

(* owns_current_schema, then can_become *)
CheckOwner(p) ==
    /\ boot[p] = "owned"
    /\ seesOwner' = [seesOwner EXCEPT ![p] = schemaOwner = "owner"]
    /\ Boots(p, IF schemaOwner = "owner" /\ ~CanBecome(p) THEN "compare" ELSE "upgrade")
    /\ UNCHANGED <<revision, owner, granted, schemaOwner, migrationLock, touching, locked, found, raced, bootCrashes>>

(* A role that cannot act as the owner needs a schema that is current. *)
Compare(p) ==
    /\ boot[p] = "compare" /\ Readable
    /\ ReleaseMigrationLock(p)
    /\ IF revision = HeadOf[p]
       THEN Boots(p, "ready") /\ found' = [found EXCEPT ![p] = revision]
       ELSE Boots(p, "failed") /\ UNCHANGED found
    /\ UNCHANGED <<revision, owner, granted, schemaOwner, seesOwner, touching, locked, raced, bootCrashes>>

(* current_revision and command.upgrade, up to the commit: an unknown      *)
(* revision is an error, and so is a schema one may not create tables in.  *)
UpgradeSchema(p) ==
    /\ boot[p] = "upgrade" /\ Readable
    /\ IF revision > HeadOf[p] \/ (LoginOf[p] # "admin" /\ ~seesOwner[p])
       THEN Boots(p, "failed") /\ ReleaseMigrationLock(p) /\ UNCHANGED touching
       ELSE Boots(p, "commit") /\ touching' = touching \cup {p} /\ UNCHANGED migrationLock
    /\ UNCHANGED <<revision, owner, granted, schemaOwner, seesOwner, locked, found, raced, bootCrashes>>

(* The new tables belong to the role of the migration, and apply_grants    *)
(* covers every table if the migration ran as the owner.                   *)
CommitMigration(p) ==
    LET new == (revision + 1)..HeadOf[p]
    IN /\ boot[p] = "commit"
       /\ revision' = HeadOf[p]
       /\ owner' = [t \in 1..HeadOf[p] |->
                       IF t \in SchemaTables THEN owner[t] ELSE IF seesOwner[p] THEN "owner" ELSE LoginOf[p]]
       /\ granted' = IF seesOwner[p] /\ new # {} THEN 1..HeadOf[p] ELSE granted
       /\ raced' = IF ~seesOwner[p] /\ schemaOwner = "owner" THEN raced \cup new ELSE raced
       /\ found' = [found EXCEPT ![p] = HeadOf[p]]
       /\ touching' = touching \ {p} /\ ReleaseMigrationLock(p)
       /\ Boots(p, IF RoleOf[p] = "provision" THEN "provision"
                   ELSE IF RoleOf[p] = "migrate" THEN "ended" ELSE "ready")
       /\ UNCHANGED <<schemaOwner, seesOwner, locked, bootCrashes>>

-----------------------------------------------------------------------------
(* init_db of a process that does not migrate *)
CheckSchema(p) ==
    /\ boot[p] = "check" /\ Readable
    /\ IF revision = HeadOf[p]
       THEN Boots(p, "ready") /\ found' = [found EXCEPT ![p] = revision]
       ELSE Boots(p, "failed") /\ UNCHANGED found
    /\ UNCHANGED <<revision, owner, granted, schemaOwner, migrationLock, seesOwner, touching, locked, raced, bootCrashes>>

(* A worker's _wait_for_schema *)
WaitForSchema(p) ==
    /\ boot[p] = "wait" /\ Readable /\ revision = HeadOf[p]
    /\ Boots(p, "ready") /\ found' = [found EXCEPT ![p] = revision]
    /\ UNCHANGED <<revision, owner, granted, schemaOwner, migrationLock, seesOwner, touching, locked, raced, bootCrashes>>

(* The rest of _lifespan: the pin, the key and Redis may each refuse. *)
StartServing(p) ==
    /\ boot[p] = "ready" /\ RoleOf[p] # "worker"
    /\ \/ Boots(p, "serving") \/ Boots(p, "failed")
    /\ UNCHANGED <<revision, owner, granted, schemaOwner, migrationLock, seesOwner, touching, locked, found, raced, bootCrashes>>

(* _prepare_identity, of a worker *)
PrepareIdentity(p) ==
    /\ boot[p] = "ready" /\ RoleOf[p] = "worker"
    /\ \/ Boots(p, "serving") \/ Boots(p, "failed")
    /\ UNCHANGED <<revision, owner, granted, schemaOwner, migrationLock, seesOwner, touching, locked, found, raced, bootCrashes>>

-----------------------------------------------------------------------------
(* provision *)

(* The tables _provision_attempt locks, all or none *)
Lockable == {t \in SchemaTables : owner[t] # "owner"}

(* LOCK ... NOWAIT; when a table is in use the attempt is made again. *)
ProvisionAttempt(p) ==
    /\ boot[p] = "provision"
    /\ 1 \in Lockable => touching = {}
    /\ locked' = Lockable
    /\ Boots(p, "granting")
    /\ UNCHANGED <<revision, owner, granted, schemaOwner, migrationLock, seesOwner, touching, found, raced, bootCrashes>>

(* The schema stayed in use, or the connected role is not a superuser. *)
ProvisionGivesUp(p) ==
    /\ boot[p] = "provision"
    /\ Boots(p, "failed")
    /\ UNCHANGED <<revision, owner, granted, schemaOwner, migrationLock, seesOwner, touching, locked, found, raced, bootCrashes>>

(* _take_ownership and apply_grants *)
ProvisionCommit(p) ==
    /\ boot[p] = "granting"
    /\ schemaOwner' = "owner"
    /\ owner' = [t \in SchemaTables |-> "owner"]
    /\ granted' = SchemaTables
    /\ raced' = {} /\ locked' = {}
    /\ Boots(p, "ended")
    /\ UNCHANGED <<revision, migrationLock, seesOwner, touching, found, bootCrashes>>

(* A process dies: its transaction is rolled back, its locks released. *)
BootCrash(p) ==
    /\ boot[p] # "down" /\ bootCrashes < MaxBootCrashes
    /\ bootCrashes' = bootCrashes + 1
    /\ Boots(p, "down") /\ ReleaseMigrationLock(p)
    /\ touching' = touching \ {p}
    /\ locked' = IF boot[p] = "granting" THEN {} ELSE locked
    /\ found' = [found EXCEPT ![p] = 0]
    /\ UNCHANGED <<revision, owner, granted, schemaOwner, seesOwner, raced>>

StartNext ==
    \E p \in Starters :
        \/ Connect(p) \/ TryMigrationLock(p) \/ LockTimeout(p) \/ CheckOwner(p) \/ Compare(p)
        \/ UpgradeSchema(p) \/ CommitMigration(p) \/ CheckSchema(p) \/ WaitForSchema(p)
        \/ StartServing(p) \/ PrepareIdentity(p)
        \/ ProvisionAttempt(p) \/ ProvisionGivesUp(p) \/ ProvisionCommit(p)
        \/ BootCrash(p)

-----------------------------------------------------------------------------
(* Properties *)

(* A process that serves was started on the revision of its own code, and  *)
(* the schema has not gone back since; migrations run one at a time; and   *)
(* once the roles are provisioned "everything they create has one owner,   *)
(* and the application role's grants are reapplied afterwards" (migrate):  *)
(* the application can use every table. Excepted are the tables of a       *)
(* migration that found the schema not yet provisioned and was overtaken,  *)
(* until provisioning runs again.                                          *)
SchemaIsWhole ==
    /\ \A p \in Starters : boot[p] \in {"ready", "serving"} => found[p] = HeadOf[p] /\ found[p] <= revision
    /\ Cardinality({p \in Starters : boot[p] \in {"owned", "compare", "upgrade", "commit"}}) <= 1
    /\ schemaOwner = "owner" =>
          \A t \in SchemaTables \ raced : owner[t] = "owner" /\ t \in granted

(* Why: a process that migrates holds the advisory lock until it commits,  *)
(* so the revision it compared its own with is still the revision, and     *)
(* tables that are there are not changed.                                  *)
StartInv ==
    /\ boot \in [Starters -> {"down", "lock", "owned", "compare", "upgrade", "commit", "check", "wait",
                              "ready", "serving", "provision", "granting", "ended", "failed"}]
    /\ found \in [Starters -> Nat] /\ revision \in Nat
    /\ DOMAIN seesOwner = Starters
    /\ \A p \in Starters :
          /\ boot[p] \in {"owned", "compare", "upgrade", "commit"} => migrationLock = p
          /\ boot[p] = "commit" => revision <= HeadOf[p]
          /\ boot[p] \in {"ready", "serving"} => found[p] = HeadOf[p] /\ found[p] <= revision
    /\ schemaOwner = "owner" =>
          \A t \in SchemaTables \ raced : owner[t] = "owner" /\ t \in granted
=============================================================================
