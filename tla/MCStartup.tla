------------------------------- MODULE MCStartup -------------------------------
(***************************************************************************)
(* The database of a deployment: the workers that start on it (Startup) and *)
(* the upgrades and downgrades of its schema (Migrations) by the revisions  *)
(* of alembic/versions (Revisions), and small instances of the two for TLC, *)
(* one in some behaviours and the other in the others.                      *)
(***************************************************************************)
EXTENDS Integers, FiniteSets, TLC

CONSTANTS
    Process, Nobody,             \* workers, and no worker
    CodeHead, Row, Admin, Seed,  \* see Startup
    Migrator, Run, Conversation, \* see Migrations
    p1, p2, Old, New, a1, a2, c1 \* TLC

VARIABLES
    setting, exists, version, table, schemaLock, seedLock, redisUp, worker, taken,
    database, seq, migrator,
    stage  \* "start" for Startup, "migrate" for Migrations

Alembic == INSTANCE Revisions

\* The revisions, in order.
Versions == Alembic!Chain

Starts == INSTANCE Startup WITH Worker <- Process, None <- Nobody, redis <- redisUp
Migrates == INSTANCE Migrations WITH Script <- Versions, None <- Nobody, db <- database

ASSUME StartAssumption == Starts!Deployment

startVars == <<setting, exists, version, table, schemaLock, seedLock, redisUp, worker, taken>>
migrationVars == <<database, seq, migrator>>

ServeInit == Starts!DeploymentInit /\ Migrates!Init

ServeNext ==
    \/ Starts!Next /\ UNCHANGED migrationVars
    \/ Migrates!Next /\ UNCHANGED startVars

ServeSpec == ServeInit /\ [][ServeNext]_<<startVars, migrationVars>>

-----------------------------------------------------------------------------
(* Small instances: a rolling deployment, where the code of p2 has one more *)
(* migration and seeds one row more than the code of p1.                    *)

MCCodeHead == p1 :> 1 @@ p2 :> 2
MCSeed == p1 :> {Old, Admin} @@ p2 :> {Old, New, Admin}

\* The runs of the assistant are in one conversation.
OneConversation == [r \in Run |-> c1]

MCInit ==
    /\ stage \in {"start", "migrate"}
    /\ ServeInit
    /\ stage = "migrate" =>
         /\ \A w \in Process : \A s \in DOMAIN setting[w] : setting[w][s]
         /\ exists /\ redisUp /\ version = 0
    /\ stage = "start" => ~database.zhparser

\* Bounds of a migration: three events are numbered, and only while the revision
\* of their table is at most one step away; the parser is installed before the
\* first one.  Two runs overlap when the second one begins at the version the
\* first one has read, before the first event.
Numbered == \E r \in Run : seq[r] > 0

Within ==
    /\ seq[a1] <= 2 /\ seq[a2] <= 1
    /\ Numbered => database.version > 20 /\ ~database.zhparser
    /\ migrator[p2].from # Nobody => migrator[p1].from = database.version /\ ~Numbered

MCNext ==
    /\ stage' = stage
    /\ \/ stage = "start" /\ Starts!Next /\ UNCHANGED migrationVars
       \/ stage = "migrate" /\ Migrates!Next /\ Within' /\ UNCHANGED startVars

MCSpec == MCInit /\ [][MCNext]_<<startVars, migrationVars, stage>> /\ Starts!Fairness

-----------------------------------------------------------------------------

\* No start fails because another one runs at the same time, and a worker that
\* serves has what its code needs.
StartsSound == Starts!NoConflicts /\ Starts!ServesWhatItNeeds

\* Every start ends.
StartsEnd == stage = "start" => Starts!StartEnds

\* What the upgrades make of an empty database, by version.
SchemaAt == Migrates!SchemaAt

\* Whatever way of upgrades, downgrades and refusals led to the present version,
\* no statement of a run fails, the schema is the one that version has in a new
\* database, its triggers work, and what the last code deletes can be deleted.
MigrationsSound ==
    stage = "migrate" =>
      /\ Migrates!StatementsFit /\ database.schema = SchemaAt[database.version]
      /\ Migrates!TriggersConfigured /\ Migrates!DeletesGoThrough
=============================================================================
