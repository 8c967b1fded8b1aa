----------------------------- MODULE CleanupQueue -----------------------------
(***************************************************************************)
(* The table screenshot_cleanup and the workers that repair from it: the   *)
(* web server and every command-line process run CleanupProcessor.Process  *)
(* once, when they start (cleanup.go, postgres/retention.go).  A worker    *)
(* claims a batch in one statement, then removes a file and writes its     *)
(* record back, one record after the other, with the clock it read first.  *)
(* Several records may name one file: overlapping updates record the key   *)
(* each read first (update.go:98-100).  Requests may take a file away, too. *)
(***************************************************************************)
EXTENDS Naturals, FiniteSets

CONSTANTS
  Records,          \* the records that failed removals leave
  Files,            \* the storage keys they name
  Workers,          \* the processes that start
  Limit,            \* records of one claim
  MaximumAttempts,
  Faults,           \* the kinds of fault that may happen, of FaultKinds
  MaxClock,         \* bound: the last minute
  NoRecord, NoFile

\* db: a database call of a worker fails.  crash: the process dies.
FaultKinds == {"db", "crash"}

ASSUME ConstantsAssumption ==
  /\ IsFiniteSet(Records) /\ NoRecord \notin Records /\ NoFile \notin Files
  /\ Limit \in Nat \ {0} /\ MaximumAttempts \in Nat \ {0}
  /\ Faults \subseteq FaultKinds /\ MaxClock \in Nat

VARIABLES
  file, state, attempts, next_attempt,  \* the columns of a record
  files,        \* the keys whose file exists
  elsewhere,    \* history: what a request last did to a file
  clock,        \* in minutes
  pc,           \* the next step of a worker
  now,          \* the clock it read
  batch,        \* the records it has claimed and not written back
  record,       \* the record it works on
  removed,      \* whether Files.Remove succeeded on it
  faults        \* the kinds of fault that have happened so far

table == <<file, state, attempts, next_attempt>>
disk == <<files, elsewhere>>
worker == <<now, batch, record, removed>>
vars == <<table, disk, clock, pc, worker, faults>>

Fault(kind) == kind \in Faults /\ faults' = faults \cup {kind}
NoFault == UNCHANGED faults
At(w, label) == pc[w] = label
Goto(w, label) == pc' = [pc EXCEPT ![w] = label]
\* The process is gone, and with it what it knew.
Ends(w) ==
  /\ Goto(w, "ended")
  /\ now' = [now EXCEPT ![w] = 0] /\ batch' = [batch EXCEPT ![w] = {}]
  /\ record' = [record EXCEPT ![w] = NoRecord] /\ removed' = [removed EXCEPT ![w] = FALSE]

Init ==
  /\ file = [k \in Records |-> NoFile]
  /\ state = [k \in Records |-> "none"]
  /\ attempts = [k \in Records |-> 0]
  /\ next_attempt = [k \in Records |-> 0]
  /\ files = Files
  /\ elsewhere = [f \in Files |-> "untouched"]
  /\ clock = 0
  /\ pc = [w \in Workers |-> "idle"]
  /\ now = [w \in Workers |-> 0]
  /\ batch = [w \in Workers |-> {}]
  /\ record = [w \in Workers |-> NoRecord]
  /\ removed = [w \in Workers |-> FALSE]
  /\ faults = {}

\* CreateScreenshotCleanup, by the Update or Delete whose Remove failed: the
\* key is the one that request read or made, whoever else has recorded it.
CreateScreenshotCleanup(k) ==
  /\ state[k] = "none"
  /\ \E f \in Files : file' = [file EXCEPT ![k] = f]
  /\ state' = [state EXCEPT ![k] = "pending"]
  /\ next_attempt' = [next_attempt EXCEPT ![k] = clock]
  /\ UNCHANGED <<attempts, disk, clock, pc, worker, faults>>

\* A request takes a file away that others may have recorded: an Update its
\* Remove succeeds for, or a Delete that moves it into the quarantine.
TakeAway(f) ==
  /\ f \in files /\ files' = files \ {f}
  /\ \E how \in {"removed", "aside"} : elsewhere' = [elsewhere EXCEPT ![f] = how]
  /\ UNCHANGED <<table, clock, pc, worker, faults>>

\* The Delete whose row would not go moves the file back.
Restore(f) ==
  /\ elsewhere[f] = "aside"
  /\ files' = files \cup {f} /\ elsewhere' = [elsewhere EXCEPT ![f] = "restored"]
  /\ UNCHANGED <<table, clock, pc, worker, faults>>

Start(w) ==
  /\ At(w, "idle")
  /\ now' = [now EXCEPT ![w] = clock]
  /\ Goto(w, "claim")
  /\ UNCHANGED <<table, disk, clock, batch, record, removed, faults>>

\* Mutant: a claim takes up the records left running, too.
DueOrRunning(t) == {k \in Records : state[k] \in {"pending", "running"} /\ next_attempt[k] <= t}

Due(t) == {k \in Records : state[k] = "pending" /\ next_attempt[k] <= t}

\* The first Limit due records, by next_attempt_at.  A row that another
\* claim is about to take is skipped, so claims are as if one after the other.
FirstDue(t, D) ==
  /\ D \subseteq Due(t)
  /\ Cardinality(D) = IF Cardinality(Due(t)) <= Limit THEN Cardinality(Due(t)) ELSE Limit
  /\ \A j \in D, k \in Due(t) \ D : next_attempt[j] <= next_attempt[k]

ClaimDueScreenshotCleanup(w) ==
  /\ At(w, "claim")
  /\ \/ \E D \in SUBSET Records :
          /\ FirstDue(now[w], D)
          /\ state' = [k \in Records |-> IF k \in D THEN "running" ELSE state[k]]
          /\ \/ /\ D = {} /\ Ends(w)
             \/ /\ D # {} /\ Goto(w, "remove")
                /\ batch' = [batch EXCEPT ![w] = D]
                /\ UNCHANGED <<now, record, removed>>
          /\ NoFault
     \/ Fault("db") /\ UNCHANGED state /\ Ends(w)
  /\ UNCHANGED <<file, attempts, next_attempt, disk, clock>>

\* Mutant: an error of Remove is lost once the batch has seen a success.
RemoveBatch(w) ==
  /\ At(w, "remove")
  /\ \E k \in batch[w], ok \in BOOLEAN :
       /\ record' = [record EXCEPT ![w] = k]
       /\ removed' = [removed EXCEPT ![w] = removed[w] \/ ok]
       /\ files' = IF ok THEN files \ {file[k]} ELSE files
  /\ Goto(w, "complete")
  /\ UNCHANGED <<table, elsewhere, clock, now, batch, faults>>

\* Remove of the file the next record names; it succeeds on one that is gone.
Remove(w) ==
  /\ At(w, "remove")
  /\ \E k \in batch[w], ok \in BOOLEAN :
       /\ record' = [record EXCEPT ![w] = k]
       /\ removed' = [removed EXCEPT ![w] = ok]
       /\ files' = IF ok THEN files \ {file[k]} ELSE files
  /\ Goto(w, "complete")
  /\ UNCHANGED <<table, elsewhere, clock, now, batch, faults>>

\* The record as Process rewrites it: a failure waits a minute per attempt.
\* attempt_count is the one it claimed: nothing but a claimant writes a row
\* that is running.
WriteBack(k, ok, t) ==
  LET n == attempts[k] + 1 IN
  /\ UNCHANGED file
  /\ IF ok THEN state' = [state EXCEPT ![k] = "succeeded"] /\ UNCHANGED <<attempts, next_attempt>>
     ELSE
       /\ attempts' = [attempts EXCEPT ![k] = n]
       /\ state' = [state EXCEPT ![k] = IF n >= MaximumAttempts THEN "abandoned" ELSE "pending"]
       /\ next_attempt' = [next_attempt EXCEPT ![k] = IF n >= MaximumAttempts THEN @ ELSE t + n]

\* Mutant: Process returns after the first record of its batch.
CompleteOnlyFirst(w) ==
  /\ At(w, "complete") /\ NoFault
  /\ WriteBack(record[w], removed[w], now[w])
  /\ Ends(w)
  /\ UNCHANGED <<disk, clock>>

\* CompleteScreenshotCleanup; its error ends Process.
CompleteScreenshotCleanup(w) ==
  /\ At(w, "complete")
  /\ \/ /\ WriteBack(record[w], removed[w], now[w])
        /\ \/ batch[w] = {record[w]} /\ Ends(w)
           \/ /\ batch[w] # {record[w]} /\ Goto(w, "remove")
              /\ batch' = [batch EXCEPT ![w] = @ \ {record[w]}]
              /\ UNCHANGED <<now, record, removed>>
        /\ NoFault
     \/ Fault("db") /\ UNCHANGED table /\ Ends(w)
  /\ UNCHANGED <<disk, clock>>

Crash(w) ==
  /\ pc[w] \notin {"idle", "ended"} /\ Fault("crash")
  /\ Ends(w)
  /\ UNCHANGED <<table, disk, clock>>

Tick == clock < MaxClock /\ clock' = clock + 1 /\ UNCHANGED <<table, disk, pc, worker, faults>>

Next ==
  \/ \E k \in Records : CreateScreenshotCleanup(k)
  \/ \E f \in Files : TakeAway(f) \/ Restore(f)
  \/ \E w \in Workers : \/ Start(w) \/ ClaimDueScreenshotCleanup(w) \/ Remove(w)
                        \/ CompleteScreenshotCleanup(w) \/ Crash(w)
  \/ Tick

Spec == Init /\ [][Next]_vars

-----------------------------------------------------------------------------
(* Properties.                                                             *)

\* The columns and the worker's variables have the types of the code.
TypeOK ==
  /\ file \in [Records -> Files \cup {NoFile}]
  /\ state \in [Records -> {"none", "pending", "running", "succeeded", "abandoned"}]
  /\ attempts \in [Records -> 0..MaximumAttempts]
  /\ next_attempt \in [Records -> Nat]
  /\ files \subseteq Files
  /\ elsewhere \in [Files -> {"untouched", "removed", "aside", "restored"}]
  /\ clock \in 0..MaxClock
  /\ pc \in [Workers -> {"idle", "claim", "remove", "complete", "ended"}]
  /\ now \in [Workers -> 0..MaxClock]
  /\ batch \in [Workers -> SUBSET Records]
  /\ record \in [Workers -> Records \cup {NoRecord}]
  /\ removed \in [Workers -> BOOLEAN]
  /\ faults \subseteq Faults

Working(w, k) == pc[w] \in {"remove", "complete"} /\ k \in batch[w]

\* Two processes that start together never work on one record (tasks.md:226):
\* the claim and the state running keep it from the second.
ClaimedOnce == \A k \in Records, v, w \in Workers :
  Working(v, k) /\ Working(w, k) => v = w

\* Nobody but record k has had to do with its file: no request took it away,
\* and no other record that names it has been removing it.
Alone(k) == /\ elsewhere[file[k]] = "untouched"
            /\ \A j \in Records \ {k} : file[j] = file[k] => state[j] \notin {"running", "succeeded"}

\* What the operator reads in the table is true of the directory: a succeeded
\* record has no file left, unless a failed delete moved it back, and one given
\* up (cleanup.go:45-49) still has its file, after MaximumAttempts failures,
\* unless a request or another record of the same file took it away.
OutcomeIsTrue == \A k \in Records :
  /\ state[k] = "succeeded" => file[k] \notin files \/ elsewhere[file[k]] = "restored"
  /\ state[k] = "abandoned" => attempts[k] = MaximumAttempts /\ (Alone(k) => file[k] \in files)

\* No record is left behind in state running, where no claim will find it: some
\* worker is still at it.
RunningIsWorkedOn == \A k \in Records :
  state[k] = "running" => \E w \in Workers : Working(w, k)

\* Until a call fails or a process dies, workers that stop at a limit, start
\* together or start late leave no record behind (cleanup.go:35-59).
UndisturbedRunningIsWorkedOn == faults = {} => RunningIsWorkedOn
=============================================================================
