---------------------------- MODULE SchemaMigration ----------------------------
(***************************************************************************)
(* Opening the database: every copy of the program brings the schema up to  *)
(* the version it knows.  The version is read before the write lock is      *)
(* taken, so two copies may both apply a migration; each is applied in a    *)
(* transaction of its own, of statements that do nothing the second time.   *)
(***************************************************************************)
EXTENDS Naturals, FiniteSets

CONSTANTS
  Copies,      \* the copies of the program that open the database
  Latest,      \* how many migrations there may be
  Known,       \* [Copies -> how many of them this copy has]
  Creates,     \* [1..Latest -> the tables and triggers that one creates]
  Nobody

SchemaAssumption ==
  /\ Latest \in Nat /\ Known \in [Copies -> 0..Latest]
  /\ DOMAIN Creates = 1..Latest /\ Nobody \notin Copies

VARIABLES
  at,        \* [Copies -> "off", "opening", "migrating", "ready", "refused"]
  version,   \* [Copies -> the version it takes the database to be at]
  holder,    \* who holds the write lock
  pending,   \* what the open transaction has created so far
  objects,   \* the tables and triggers of the file
  recorded   \* the versions of its schema_migrations

schemaVars == <<at, version, holder, pending, objects, recorded>>
database == <<objects, recorded>>

SchemaInit ==
  /\ at = [c \in Copies |-> "off"] /\ version = [c \in Copies |-> 0]
  /\ holder = Nobody /\ pending = {} /\ objects = {} /\ recorded = {}

-----------------------------------------------------------------------------
Goes(c, where) == at' = [at EXCEPT ![c] = where]

Highest(versions) == IF versions = {} THEN 0 ELSE CHOOSE v \in versions : \A w \in versions : w <= v

\* The file and its connection are there, or the copy does not start.
Open(c) ==
  /\ at[c] = "off" /\ at' \in {[at EXCEPT ![c] = s] : s \in {"opening", "refused"}}
  /\ UNCHANGED <<version, holder, pending, database>>

\* current_version.
ReadVersion(c) ==
  /\ at[c] = "opening" /\ Goes(c, "migrating")
  /\ version' = [version EXCEPT ![c] = Highest(recorded)]
  /\ UNCHANGED <<holder, pending, database>>

Target(c) == version[c] + 1
Migrating(c) == at[c] = "migrating" /\ Target(c) <= Known[c]

\* BEGIN IMMEDIATE waits for the lock, but not for ever.
BeginTransaction(c) ==
  /\ Migrating(c) /\ holder = Nobody /\ holder' = c
  /\ UNCHANGED <<at, version, pending, database>>

GiveUp(c) ==
  /\ Migrating(c) /\ holder \notin {Nobody, c} /\ Goes(c, "refused")
  /\ UNCHANGED <<version, holder, pending, database>>

\* One statement: a table that is there is left as it is.
CreateOne(c) ==
  /\ Migrating(c) /\ holder = c
  /\ \E o \in Creates[Target(c)] \ pending : pending' = pending \cup {o}
  /\ UNCHANGED <<at, version, holder, database>>

\* Mutant: the version is recorded before every statement has run.
RecordedFirst(c) == TRUE

AllCreated(c) == Creates[Target(c)] \subseteq pending

\* The version is recorded in the same transaction.
Commit(c) ==
  /\ Migrating(c) /\ holder = c /\ AllCreated(c)
  /\ objects' = objects \cup pending /\ recorded' = recorded \cup {Target(c)}
  /\ holder' = Nobody /\ pending' = {}
  /\ version' = [version EXCEPT ![c] = Target(c)] /\ UNCHANGED at

Released(c) ==
  IF holder = c THEN holder' = Nobody /\ pending' = {} ELSE UNCHANGED <<holder, pending>>

\* A statement fails: the transaction is rolled back and the copy does not start.
Fail(c) ==
  /\ Migrating(c) /\ holder = c /\ Goes(c, "refused") /\ Released(c)
  /\ UNCHANGED <<version, database>>

Ready(c) ==
  /\ at[c] = "migrating" /\ ~Migrating(c) /\ Goes(c, "ready")
  /\ UNCHANGED <<version, holder, pending, database>>

\* The program is closed or ends at any point, and SQLite undoes what it left.
End(c) ==
  /\ at[c] # "off" /\ Goes(c, "off") /\ Released(c)
  /\ version' = [version EXCEPT ![c] = 0] /\ UNCHANGED database

SchemaNext ==
  \E c \in Copies :
    \/ Open(c) \/ ReadVersion(c) \/ BeginTransaction(c) \/ GiveUp(c) \/ CreateOne(c)
    \/ Commit(c) \/ Fail(c) \/ Ready(c) \/ End(c)

SchemaSpec == SchemaInit /\ [][SchemaNext]_schemaVars

-----------------------------------------------------------------------------
TypeOK ==
  /\ at \in [Copies -> {"off", "opening", "migrating", "ready", "refused"}]
  /\ version \in [Copies -> 0..Latest]
  /\ holder \in Copies \cup {Nobody}
  /\ pending \subseteq UNION {Creates[v] : v \in 1..Latest}
  /\ objects \subseteq UNION {Creates[v] : v \in 1..Latest}
  /\ recorded \subseteq 1..Latest

Complete(v) == \A u \in 1..v : Creates[u] \subseteq objects

\* "A failure halfway leaves the database at the last complete version rather than
\* in a half-migrated state": whatever copies open it, race and stop, a recorded
\* version has everything that it and those before it create, and a copy that is
\* ready finds all that it knows of.
SchemaComplete ==
  /\ \A v \in recorded : Complete(v)
  /\ \A c \in Copies : at[c] = "ready" => Complete(Known[c])
===============================================================================
