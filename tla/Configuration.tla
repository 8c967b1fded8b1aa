---------------------------- MODULE Configuration ----------------------------
(***************************************************************************)
(* Changing config.yaml: ConfigurationService.Update of                    *)
(* bookmarker/usecase/configuration.go and Activate of                     *)
(* configyaml/update.go.  The file has groups the administrator may edit   *)
(* and groups only the operator does (administrator, server), with an      *)
(* editor, outside the program.  The web server reads it once, when it     *)
(* starts; only the page title and the favicon are read again later.  The  *)
(* updates of the web program end with it; one of the command line runs in *)
(* a process of its own.                                                   *)
(*                                                                         *)
(* A candidate that ApplyEditableConfiguration or a validator refuses is   *)
(* an update that has not begun.                                           *)
(***************************************************************************)
EXTENDS Naturals, FiniteSets

CONSTANTS
  Requests,     \* the updates that will be made, over the web or the CLI
  Values,       \* values of a group of settings
  Default,      \* ... the first one
  Faults,       \* the kinds of fault that may happen, of FaultKinds
  MaxEdits,     \* bound: edits of the operator
  Operator

\* stage: writing the temporary file fails, or one of the checks before it.
\* rename: the rename fails.  sync: Chmod, Open or Sync after it fails.
FaultKinds == {"stage", "rename", "sync"}

ASSUME ConstantsAssumption ==
  /\ Default \in Values /\ Operator \notin Requests
  /\ Faults \subseteq FaultKinds /\ MaxEdits \in Nat

\* Database settings, the others that are read at the start (default_view,
\* screenshots, search), and branding.
Settings == [database : Values, startup : Values, branding : Values]

VARIABLES
  file,       \* config.yaml: the operator's groups, as the number of his
              \* last edit in it, and the settings
  author,     \* history: who wrote the settings in it
  edits,      \* history: the edits of the operator
  crossed,    \* history: whether one of them fell into an update
  announced,  \* history: whether an update was answered with RestartRequired
              \* since the server has started
  silent,     \* history: whether since then an update has ended between its
              \* rename and its answer, or one of the time before has gone on
  running,    \* the settings the web server has read when it started
  process,    \* the program an update runs in: "web" or "cli"
  pc,         \* the next step of an update
  candidate,  \* what it asks for
  base,       \* the operator's groups it has read
  restart,    \* RestartRequired
  faults      \* the kinds of fault that have happened so far

asked == <<candidate, base, restart>>
server == <<announced, silent, running>>
vars == <<file, author, edits, crossed, server, process, pc, asked, faults>>

Ended == {"answered", "refused", "interrupted"}
InFlight == {r \in Requests : pc[r] \notin Ended \cup {"idle"}}
Fault(kind) == kind \in Faults /\ faults' = faults \cup {kind}
NoFault == UNCHANGED faults
At(r, label) == pc[r] = label
Goto(r, label) == pc' = [pc EXCEPT ![r] = label]

Initial == [database |-> Default, startup |-> Default, branding |-> Default]

Init ==
  /\ file = [operator |-> 0, settings |-> Initial]
  /\ author = Operator
  /\ edits = 0
  /\ crossed = FALSE
  /\ announced = FALSE /\ silent = FALSE
  /\ running = Initial
  /\ process = [r \in Requests |-> "web"]
  /\ pc = [r \in Requests |-> "idle"]
  /\ candidate = [r \in Requests |-> Initial]
  /\ base = [r \in Requests |-> 0]
  /\ restart = [r \in Requests |-> FALSE]
  /\ faults = {}

\* Mutant: the comparison comes after the candidate has been applied.
ValidateApplied(r) == \E c \in Settings :
  /\ At(r, "idle") /\ Goto(r, "load")
  /\ \E p \in {"web", "cli"} : process' = [process EXCEPT ![r] = p]
  /\ candidate' = [candidate EXCEPT ![r] = c]
  /\ restart' = [restart EXCEPT ![r] = FALSE]
  /\ UNCHANGED <<file, author, edits, crossed, server, base, faults>>

\* Validate: the first Load, and databaseChanged against it.
Validate(r) == \E c \in Settings :
  /\ At(r, "idle") /\ Goto(r, "load")
  /\ \E p \in {"web", "cli"} : process' = [process EXCEPT ![r] = p]
  /\ candidate' = [candidate EXCEPT ![r] = c]
  /\ restart' = [restart EXCEPT ![r] = file.settings.database # c.database]
  /\ UNCHANGED <<file, author, edits, crossed, server, base, faults>>

\* The second Load: ApplyEditableConfiguration replaces all the settings and
\* keeps the operator's groups.
Load(r) ==
  /\ At(r, "load") /\ Goto(r, "stage")
  /\ base' = [base EXCEPT ![r] = file.operator]
  /\ UNCHANGED <<file, author, edits, crossed, server, process, candidate, restart, faults>>

\* Activate, up to the close of the temporary file.
Stage(r) ==
  /\ At(r, "stage")
  /\ \/ Goto(r, "rename") /\ NoFault
     \/ Fault("stage") /\ Goto(r, "refused")
  /\ UNCHANGED <<file, author, edits, crossed, server, process, asked>>

\* Mutant: groups that are not among the settings are dropped.
WrittenWithoutOperator(r) == [operator |-> 0, settings |-> candidate[r]]
\* Mutant: database settings that need no restart are not applied.
WrittenKeepingDatabase(r) ==
  [operator |-> base[r],
   settings |-> IF restart[r] THEN candidate[r] ELSE [candidate[r] EXCEPT !.database = file.settings.database]]

Written(r) == [operator |-> base[r], settings |-> candidate[r]]

\* Mutant: the error of the rename is found after the file was replaced.
RenameThenCheck(r) ==
  /\ At(r, "rename")
  /\ file' = Written(r) /\ author' = r
  /\ \/ Goto(r, "sync") /\ NoFault
     \/ Fault("rename") /\ Goto(r, "refused")
  /\ UNCHANGED <<edits, crossed, server, process, asked>>

Rename(r) ==
  /\ At(r, "rename")
  /\ \/ /\ file' = Written(r) /\ author' = r
        /\ Goto(r, "sync") /\ NoFault
     \/ Fault("rename") /\ Goto(r, "refused") /\ UNCHANGED <<file, author>>
  /\ UNCHANGED <<edits, crossed, server, process, asked>>

\* What Activate does to the file after the rename.
Sync(r) ==
  /\ At(r, "sync")
  /\ \/ Goto(r, "answered") /\ announced' = (announced \/ restart[r]) /\ UNCHANGED silent /\ NoFault
     \/ Fault("sync") /\ Goto(r, "refused") /\ silent' = TRUE /\ UNCHANGED announced
  /\ UNCHANGED <<file, author, edits, crossed, running, process, asked>>

OperatorEdits ==
  /\ edits < MaxEdits
  /\ edits' = edits + 1
  /\ file' = [file EXCEPT !.operator = edits + 1]
  /\ crossed' = (crossed \/ InFlight # {})
  /\ UNCHANGED <<author, server, process, pc, asked, faults>>

\* The process of the command line ends.
Kill(r) ==
  /\ r \in InFlight /\ process[r] = "cli" /\ Goto(r, "interrupted")
  /\ silent' = (silent \/ At(r, "sync"))
  /\ UNCHANGED <<file, author, edits, crossed, announced, running, process, asked, faults>>

\* The server stops, with the updates it serves, and a new one reads the file.
Restart ==
  /\ running' = file.settings /\ announced' = FALSE
  /\ silent' = \E r \in InFlight : process[r] = "cli"
  /\ pc' = [r \in Requests |-> IF r \in InFlight /\ process[r] = "web" THEN "interrupted" ELSE pc[r]]
  /\ UNCHANGED <<file, author, edits, crossed, process, asked, faults>>

Next ==
  \/ \E r \in Requests : Validate(r) \/ Load(r) \/ Stage(r) \/ Rename(r) \/ Sync(r) \/ Kill(r)
  \/ OperatorEdits \/ Restart

Spec == Init /\ [][Next]_vars

-----------------------------------------------------------------------------
(* Properties.                                                             *)

\* The file, the server and the updates have the types their declarations say.
TypeOK ==
  /\ file \in [operator : 0..MaxEdits, settings : Settings]
  /\ author \in Requests \cup {Operator}
  /\ edits \in 0..MaxEdits
  /\ {crossed, announced, silent} \subseteq BOOLEAN
  /\ running \in Settings
  /\ process \in [Requests -> {"web", "cli"}]
  /\ pc \in [Requests -> Ended \cup {"idle", "load", "stage", "rename", "sync"}]
  /\ candidate \in [Requests -> Settings]
  /\ base \in [Requests -> 0..MaxEdits]
  /\ restart \in [Requests -> BOOLEAN]
  /\ faults \subseteq Faults

\* Updates that interleave, fail and are interrupted leave the whole candidate
\* of one of them in the file, never parts of two.
OneCandidateWins == author \in Requests => file.settings = candidate[author]

\* An update never takes back what the operator wrote into his groups, the
\* rotated password of FR-033, unless he wrote it while an update was in progress
\* (configuration.go:72-77 loads the file before Activate replaces it).
OperatorEditKept == ~crossed => file.operator = edits

\* data-model.md:239: an update that reports a failure has not changed the file.
RefusedChangesNothing == \A r \in Requests : At(r, "refused") => author # r

\* It has not as long as Activate fails in or before the rename, and whatever other
\* updates do meanwhile (update.go:15-57).
RefusedBeforeRenameChangesNothing == "sync" \notin faults => RefusedChangesNothing

Announced == announced \/ \E r \in Requests : At(r, "sync") /\ restart[r]

\* Whenever the server runs with other database settings than the file holds,
\* some update has said that a restart is required, or is about to: each update
\* compares with the file it found (configuration.go:49-64), not with the server.
\* An update of the command line that was in progress when the server started
\* compared with an older file, and one that ends after its rename says nothing.
DatabaseChangeIsAnnounced ==
  ~silent /\ running.database # file.settings.database => Announced

\* http.md:157: a successful change indicates whether a restart is required.
SuccessTellsRestart == \A r \in Requests :
  At(r, "answered") /\ author = r /\ running.database # file.settings.database => Announced
=============================================================================
