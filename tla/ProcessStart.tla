----------------------------- MODULE ProcessStart -----------------------------
(***************************************************************************)
(* The start of the web server and of the command-line program             *)
(* (cmd/bookmarker-web/main.go, cmd/bookmarker-cli/main.go): migrations     *)
(* (adapters/postgres/database.go), then one pass of retention             *)
(* (bookmarker/usecase/retention.go), then service.  Any number of         *)
(* processes start, serve and end on one database.                         *)
(*                                                                         *)
(* A migration file is one Exec of several statements, which PostgreSQL    *)
(* runs as one transaction: a second CREATE TABLE of the same name waits   *)
(* for the first one's transaction and then fails, or goes on if that was  *)
(* rolled back.  What retention does to the rows is the subject of         *)
(* CaptureDrafts, StreamSession and CleanupQueue; here it is a step that   *)
(* may fail and never keeps a process from serving.                        *)
(***************************************************************************)
EXTENDS Naturals

CONSTANTS
  Processes,
  NoProcess

ASSUME NoProcessAssumption == NoProcess \notin Processes

VARIABLES
  versions,   \* the rows of schema_migrations; 0 before the table exists
  writer,     \* the process whose migration is not committed yet
  phase,      \* the next step of a process
  kind,       \* what was launched
  fileless    \* external: the processes in whose working directory no migration is

startVars == <<versions, writer, phase, kind, fileless>>

\* The web server always migrates, the command line only when
\* BOOKMARKER_ALLOW_MIGRATIONS is true.
Kinds == {"web", "cli_migrating", "cli"}

Starting == {"version", "apply", "commit", "report", "open", "retention"}

StartInit ==
  /\ versions = 0 /\ writer = NoProcess
  /\ phase = [p \in Processes |-> "off"]
  /\ kind = [p \in Processes |-> "web"]
  /\ fileless = {}

InPhase(p, label) == phase[p] = label
ToPhase(p, label) == phase' = [phase EXCEPT ![p] = label]

\* os.Exit(1), after a line in the log.  Its connections are closed.
Exit(p) ==
  ToPhase(p, "off") /\ kind' = [kind EXCEPT ![p] = "web"] /\ fileless' = fileless \ {p}

-----------------------------------------------------------------------------
\* The configuration is loaded, and the database answers a ping.
Launch(p) == /\ InPhase(p, "off")
             /\ \E k \in Kinds : /\ kind' = [kind EXCEPT ![p] = k]
                                 /\ ToPhase(p, IF k = "cli" THEN "open" ELSE "version")
                                 /\ \/ UNCHANGED fileless
                                    \/ k # "cli" /\ fileless' = fileless \cup {p}
             /\ UNCHANGED <<versions, writer>>

\* SchemaVersion: a table that does not exist is an empty version, and what is
\* not committed is not seen.
SchemaVersion(p) ==
  /\ InPhase(p, "version")
  /\ ToPhase(p, IF versions > 0 THEN "open" ELSE "apply")
  /\ UNCHANGED <<versions, writer, kind, fileless>>

\* Mutant: the tables are created IF NOT EXISTS, the version is inserted
\* either way.
ApplyIfNotExists(p) ==
  /\ InPhase(p, "apply")
  /\ \/ p \notin fileless /\ writer = NoProcess /\ writer' = p /\ ToPhase(p, "commit")
     \/ p \in fileless /\ ToPhase(p, "report") /\ UNCHANGED writer
  /\ UNCHANGED <<versions, kind, fileless>>

\* Exec of the file: the tables are there already, or this process creates
\* them and holds them until it commits.
ApplyFile(p) ==
  /\ p \notin fileless /\ writer = NoProcess
  /\ \/ versions = 0 /\ writer' = p /\ ToPhase(p, "commit") /\ UNCHANGED <<kind, fileless>>
     \/ versions > 0 /\ Exit(p) /\ UNCHANGED writer

\* Glob("migrations/*.up.sql"), from the working directory: where it finds none
\* the loop has nothing to do, and that is no error.
Apply(p) ==
  /\ InPhase(p, "apply")
  /\ \/ ApplyFile(p)
     \/ p \in fileless /\ ToPhase(p, "report") /\ UNCHANGED <<writer, kind, fileless>>
  /\ UNCHANGED versions

Commit(p) ==
  /\ InPhase(p, "commit")
  /\ versions' = versions + 1 /\ writer' = NoProcess
  /\ \/ ToPhase(p, "report") /\ UNCHANGED <<kind, fileless>>
     \/ Exit(p)                                     \* the reply is lost

\* The version is read again, for the log.
Report(p) == /\ InPhase(p, "report") /\ ToPhase(p, "open")
             /\ UNCHANGED <<versions, writer, kind, fileless>>

\* NewAuthStore and NewScreenshotStore: the screenshot directory is there.
Open(p) == /\ InPhase(p, "open") /\ ToPhase(p, "retention")
           /\ UNCHANGED <<versions, writer, kind, fileless>>

\* Process: its error, that of the missing tables for one, is logged.
Retention(p) == /\ InPhase(p, "retention") /\ ToPhase(p, "serving")
                /\ UNCHANGED <<versions, writer, kind, fileless>>

\* Mutant: the transaction of a failed migration stays open.
FailStartHolding(p) ==
  /\ phase[p] \in {"version", "apply", "commit", "report", "open"}
  /\ Exit(p)
  /\ UNCHANGED <<versions, writer>>

\* An error before the retention ends the process; what it has not committed
\* is rolled back.
FailStart(p) ==
  /\ phase[p] \in {"version", "apply", "commit", "report", "open"}
  /\ Exit(p)
  /\ writer' = IF writer = p THEN NoProcess ELSE writer
  /\ UNCHANGED versions

\* A signal, the end of the input, or a crash.
End(p) == /\ phase[p] \in Starting \cup {"serving"}
          /\ Exit(p)
          /\ writer' = IF writer = p THEN NoProcess ELSE writer
          /\ UNCHANGED versions

Start(p) ==
  \/ SchemaVersion(p) \/ Apply(p) \/ Commit(p) \/ Report(p) \/ Open(p) \/ Retention(p)

StartNext == \E p \in Processes : Launch(p) \/ Start(p) \/ FailStart(p) \/ End(p)

StartSpec == StartInit /\ [][StartNext]_startVars

\* A process that starts goes on, unless it waits for the tables of another.
FairStartSpec == StartSpec /\ \A p \in Processes : WF_startVars(Start(p))

-----------------------------------------------------------------------------
StartTypeOK ==
  /\ versions \in Nat /\ writer \in Processes \cup {NoProcess}
  /\ phase \in [Processes -> Starting \cup {"off", "serving"}]
  /\ kind \in [Processes -> Kinds] /\ fileless \subseteq Processes
  /\ \A p \in Processes : InPhase(p, "commit") <=> writer = p

\* However many processes find the database empty, the schema is applied once,
\* and schema_migrations has the one row that SchemaVersion reads.
SchemaAppliedOnce == versions <= 1

\* A process that migrates, and finds the migrations, accepts traffic only on
\* the complete schema, whoever else migrates, fails or has no migrations.
ServesOnSchema ==
  \A p \in Processes : InPhase(p, "serving") /\ kind[p] # "cli" /\ p \notin fileless => versions > 0

\* The schema comes before service, and comes once.
SchemaBeforeService == StartTypeOK /\ SchemaAppliedOnce /\ ServesOnSchema

\* Every process that starts comes to serve or ends, also when the one it waits
\* for fails or is killed in the middle of a migration, unless one migration
\* after the other fails and the next process is faster each time.
MigrationFails == writer # NoProcess /\ writer' = NoProcess /\ versions' = 0
StartEnds ==
  \/ []<><<MigrationFails>>_startVars
  \/ \A p \in Processes : phase[p] \in Starting ~> phase[p] \notin Starting

\* Not everywhere: "Bookmarker runs migrations before accepting traffic."
\* (specs/002-local-compose-setup/contracts/local-compose.md:78).  In the image the
\* working directory has them (deploy/compose/Dockerfile:57); a server that is
\* started elsewhere runs none, and goes on to serve.
TrafficNeedsTheSchema ==
  \A p \in Processes : InPhase(p, "serving") /\ kind[p] = "web" => versions > 0
=============================================================================
