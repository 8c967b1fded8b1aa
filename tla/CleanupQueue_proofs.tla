-------------------------- MODULE CleanupQueue_proofs --------------------------
(***************************************************************************)
(* Proofs about CleanupQueue for any records, workers, limits and faults.  *)
(***************************************************************************)
EXTENDS CleanupQueue, TLAPS

\* The record a worker writes back is one it has claimed.
Claimed(w) == pc[w] = "complete" => record[w] \in batch[w]

LEMMA InitTypes == Init => TypeOK /\ \A w \in Workers : Claimed(w)
  BY ConstantsAssumption DEF Init, TypeOK, Claimed

\* What writing a record back leaves in the table.
LEMMA WriteBackTypes ==
  ASSUME TypeOK, NEW k \in Records, NEW ok \in BOOLEAN, NEW t \in 0..MaxClock,
         WriteBack(k, ok, t), attempts[k] < MaximumAttempts
  PROVE  /\ state' \in [Records -> {"none", "pending", "running", "succeeded", "abandoned"}]
         /\ attempts' \in [Records -> 0..MaximumAttempts]
         /\ next_attempt' \in [Records -> Nat]
  BY ConstantsAssumption DEF TypeOK, WriteBack

-----------------------------------------------------------------------------
(* Types and claims.  That attempts stay below the maximum needs to know    *)
(* that only a record which is running, and not given up, is written back.  *)

\* A record that may still be tried has been tried less than the maximum.
Tried(k) == /\ state[k] \in {"none", "pending", "running"} => attempts[k] < MaximumAttempts
            /\ state[k] = "abandoned" => attempts[k] = MaximumAttempts

\* A worker works on records that are running.
WorkedOn(k) == \A w \in Workers : Working(w, k) => state[k] = "running"

\* A record that was made names a file.
Named(k) == state[k] # "none" => file[k] \in Files

\* The file of record k is gone on its account: it says so, or will never be
\* claimed again, or whoever works on it knows.
GoneBy(k) ==
  \/ state[k] = "succeeded"
  \/ /\ state[k] = "running"
     /\ \A w \in Workers : Working(w, k) => pc[w] = "complete" /\ record[w] = k /\ removed[w]

\* A file that is gone was taken by a request or is gone on a record's account.
FileGone(f) == f \notin files =>
  elsewhere[f] # "untouched" \/ \E k \in Records : file[k] = f /\ GoneBy(k)

\* A file somebody removed is gone, unless a request moved it back.
Away(f) == f \notin files \/ elsewhere[f] = "restored"

Removed(w) == pc[w] = "complete" /\ removed[w] => Away(file[record[w]])

\* A record that says succeeded has no file, unless a request moved it back.
Done(k) == state[k] = "succeeded" => Away(file[k])

IInv == /\ TypeOK /\ ClaimedOnce /\ UndisturbedRunningIsWorkedOn
        /\ \A w \in Workers : Claimed(w) /\ Removed(w)
        /\ \A k \in Records : Tried(k) /\ WorkedOn(k) /\ Named(k) /\ Done(k)
        /\ \A f \in Files : FileGone(f)

\* The outcomes follow: a record given up is neither running nor succeeded, so
\* its file is not gone on its own account.
LEMMA OutcomeFollows == IInv => OutcomeIsTrue
<1>. SUFFICES ASSUME IInv, NEW k \in Records, state[k] = "abandoned", file[k] \notin files, Alone(k)
              PROVE  FALSE
  BY DEF IInv, OutcomeIsTrue, Tried, Done, Away
<1>1. file[k] \in Files /\ elsewhere[file[k]] = "untouched"
  BY DEF IInv, Named, Alone
<1>2. PICK j \in Records : file[j] = file[k] /\ GoneBy(j)
  BY <1>1 DEF IInv, FileGone
<1>3. state[j] \in {"running", "succeeded"} /\ j # k
  BY <1>2 DEF GoneBy
<1>. QED
  BY <1>2, <1>3 DEF Alone

LEMMA InitInvariant == Init => IInv
<1>. SUFFICES ASSUME Init PROVE IInv
  OBVIOUS
<1>1. TypeOK /\ \A w \in Workers : Claimed(w)
  BY InitTypes
<1>2. \A k \in Records : Tried(k) /\ WorkedOn(k) /\ Named(k) /\ Done(k)
  BY ConstantsAssumption DEF Init, Tried, WorkedOn, Working, Named, Done
<1>3. ClaimedOnce /\ UndisturbedRunningIsWorkedOn /\ \A w \in Workers : Removed(w)
  BY DEF Init, ClaimedOnce, UndisturbedRunningIsWorkedOn, RunningIsWorkedOn, Working, Removed
<1>4. \A f \in Files : FileGone(f)
  BY DEF Init, FileGone
<1>. QED
  BY <1>1, <1>2, <1>3, <1>4 DEF IInv

LEMMA CreateInvariant ==
  ASSUME IInv, NEW k \in Records, CreateScreenshotCleanup(k)
  PROVE  IInv'
<1>. USE DEF worker, disk, IInv, TypeOK
<1>1. PICK f \in Files :
        /\ state[k] = "none" /\ file' = [file EXCEPT ![k] = f]
        /\ state' = [state EXCEPT ![k] = "pending"]
        /\ next_attempt' = [next_attempt EXCEPT ![k] = clock]
        /\ UNCHANGED <<attempts, files, elsewhere, clock, pc, now, batch, record, removed, faults>>
  BY DEF CreateScreenshotCleanup
<1>2. TypeOK'
  BY <1>1
<1>3. \A v \in Workers, j \in Records : Working(v, j)' <=> Working(v, j)
  BY <1>1 DEF Working
<1>4. \A v \in Workers : ~Working(v, k)
  BY <1>1 DEF WorkedOn
<1>5. \A j \in Records : Tried(j)' /\ WorkedOn(j)' /\ Named(j)' /\ Done(j)'
  BY <1>1, <1>3, <1>4 DEF Tried, WorkedOn, Named, Done, Away
<1>6. ClaimedOnce' /\ UndisturbedRunningIsWorkedOn'
  BY <1>1, <1>3 DEF ClaimedOnce, UndisturbedRunningIsWorkedOn, RunningIsWorkedOn
<1>7. ASSUME NEW v \in Workers PROVE Claimed(v)' /\ Removed(v)'
  <2>1. pc[v] = "complete" => record[v] # k
    BY <1>4 DEF Claimed, Working
  <2>. QED
    BY <1>1, <2>1 DEF Claimed, Removed, Away
<1>8. ASSUME NEW j \in Records, j # k, GoneBy(j) PROVE GoneBy(j)'
  BY <1>1, <1>3, <1>8 DEF GoneBy
<1>9. ~GoneBy(k)
  BY <1>1 DEF GoneBy
<1>10. \A g \in Files : FileGone(g)'
  BY <1>1, <1>8, <1>9 DEF FileGone
<1>. QED
  BY <1>2, <1>5, <1>6, <1>7, <1>10

\* A step that leaves the table and the workers alone.
LEMMA DiskInvariant ==
  ASSUME IInv, NEW f \in Files, TakeAway(f) \/ Restore(f)
  PROVE  IInv'
<1>. USE DEF table, worker, IInv, TypeOK
<1>0. UNCHANGED <<file, state, attempts, next_attempt, clock, pc, now, batch, record, removed, faults>>
  BY DEF TakeAway, Restore
<1>1. TypeOK'
  BY <1>0 DEF TakeAway, Restore
<1>2. \A g \in Files : g \notin files => g \notin files' \/ elsewhere'[g] = "restored"
  BY DEF TakeAway, Restore
<1>3. \A g \in Files : elsewhere'[g] = elsewhere[g] \/ (g = f /\ (elsewhere'[g] = "restored" \/ g \notin files'))
  BY DEF TakeAway, Restore
<1>4. \A g \in Files : Away(g) => Away(g)'
  BY <1>2, <1>3 DEF Away
<1>5. ClaimedOnce' /\ UndisturbedRunningIsWorkedOn' /\ \A k \in Records : Tried(k)' /\ WorkedOn(k)' /\ Named(k)'
  BY <1>0 DEF ClaimedOnce, UndisturbedRunningIsWorkedOn, RunningIsWorkedOn, Working, Tried, WorkedOn, Named
<1>6. \A k \in Records : Done(k)'
  BY <1>0, <1>4 DEF Done, Named
<1>7. ASSUME NEW v \in Workers PROVE Claimed(v)' /\ Removed(v)'
  <2>1. pc[v] = "complete" => record[v] \in Records /\ file[record[v]] \in Files
    BY DEF Claimed, Working, WorkedOn, Named
  <2>. QED
    BY <1>0, <1>4, <2>1 DEF Claimed, Removed
<1>8. \A k \in Records : GoneBy(k) <=> GoneBy(k)'
  BY <1>0 DEF GoneBy, Working
<1>9. \A g \in Files : g # f => (g \in files <=> g \in files') /\ elsewhere'[g] = elsewhere[g]
  BY DEF TakeAway, Restore
<1>10. elsewhere'[f] # "untouched"
  BY DEF TakeAway, Restore
<1>11. \A g \in Files : FileGone(g)'
  BY <1>0, <1>8, <1>9, <1>10 DEF FileGone
<1>. QED
  BY <1>1, <1>5, <1>6, <1>7, <1>11

\* A process that ends, with the table and the disk as they are.
LEMMA EndsInvariant ==
  ASSUME IInv, NEW w \in Workers, Ends(w), UNCHANGED <<table, disk, clock>>, faults \subseteq faults',
         faults' \subseteq Faults,
         faults' # {} \/ \A k \in Records : ~Working(w, k)
  PROVE  IInv'
<1>. USE DEF table, disk, Ends, Goto, IInv, TypeOK
<1>1. TypeOK'
  BY ConstantsAssumption
<1>2. \A v \in Workers, k \in Records : Working(v, k)' <=> Working(v, k) /\ v # w
  BY DEF Working
<1>3. ClaimedOnce' /\ \A k \in Records : Tried(k)' /\ WorkedOn(k)' /\ Named(k)' /\ Done(k)'
  BY <1>2 DEF ClaimedOnce, Tried, WorkedOn, Named, Done, Away
<1>4. UndisturbedRunningIsWorkedOn'
  <2>. SUFFICES ASSUME faults' = {} PROVE RunningIsWorkedOn'
    BY DEF UndisturbedRunningIsWorkedOn
  <2>1. RunningIsWorkedOn /\ \A k \in Records : ~Working(w, k)
    BY DEF UndisturbedRunningIsWorkedOn
  <2>. QED
    BY <1>2, <2>1 DEF RunningIsWorkedOn
<1>5. \A v \in Workers : Claimed(v)' /\ Removed(v)'
  BY DEF Claimed, Removed, Away
<1>6. \A k \in Records : GoneBy(k) => GoneBy(k)'
  BY <1>2 DEF GoneBy
<1>7. \A f \in Files : FileGone(f)'
  BY <1>6 DEF FileGone
<1>. QED
  BY <1>1, <1>3, <1>4, <1>5, <1>7

LEMMA ClaimInvariant ==
  ASSUME IInv, NEW w \in Workers, ClaimDueScreenshotCleanup(w)
  PROVE  IInv'
<1>. USE DEF IInv, TypeOK
<1>0. pc[w] = "claim" /\ UNCHANGED <<file, attempts, next_attempt, files, elsewhere, clock>>
      /\ \A k \in Records : ~Working(w, k)
  BY DEF ClaimDueScreenshotCleanup, At, disk, Working
<1>1. ASSUME NEW D \in SUBSET Records, D # {}, FirstDue(now[w], D),
             state' = [k \in Records |-> IF k \in D THEN "running" ELSE state[k]],
             Goto(w, "remove"), batch' = [batch EXCEPT ![w] = D],
             UNCHANGED <<now, record, removed>>, NoFault
      PROVE  IInv'
  <2>1. /\ \A k \in D : state[k] = "pending"
        /\ pc' = [pc EXCEPT ![w] = "remove"] /\ UNCHANGED faults
    BY <1>1 DEF FirstDue, Due, Goto, NoFault
  <2>2. TypeOK'
    BY <1>0, <1>1, <2>1
  <2>3. \A k \in Records : \/ k \in D /\ (\A v \in Workers : Working(v, k)' <=> v = w)
                           \/ k \notin D /\ \A v \in Workers : Working(v, k)' => Working(v, k) /\ v # w
    BY <1>1, <2>1 DEF Working, WorkedOn
  <2>3a. \A k \in Records, v \in Workers : Working(v, k) => Working(v, k)'
    BY <1>0, <1>1, <2>1 DEF Working
  <2>4. ClaimedOnce'
    BY <2>3 DEF ClaimedOnce
  <2>5. \A k \in Records : Tried(k)' /\ Named(k)' /\ Done(k)'
    BY <1>0, <1>1, <2>1 DEF Tried, Named, Done, Away
  <2>6. \A k \in Records : WorkedOn(k)'
    BY <1>1, <2>1, <2>3 DEF WorkedOn
  <2>7. ASSUME NEW k \in Records, GoneBy(k) PROVE GoneBy(k)'
    <3>1. k \notin D
      BY <2>1, <2>7 DEF GoneBy
    <3>. QED
      BY <1>0, <1>1, <2>1, <2>3, <2>7, <3>1 DEF GoneBy
  <2>8. \A f \in Files : FileGone(f)'
    BY <1>0, <2>7 DEF FileGone
  <2>9. UndisturbedRunningIsWorkedOn'
    BY <1>1, <2>1, <2>3, <2>3a DEF UndisturbedRunningIsWorkedOn, RunningIsWorkedOn
  <2>10. \A v \in Workers : Claimed(v)' /\ Removed(v)'
    BY <1>0, <1>1, <2>1 DEF Claimed, Removed, Away
  <2>. QED
    BY <2>2, <2>4, <2>5, <2>6, <2>8, <2>9, <2>10
<1>2. ASSUME state' = state, Ends(w), faults \subseteq faults', faults' \subseteq Faults PROVE IInv'
  BY <1>0, <1>2, EndsInvariant DEF table, disk
<1>3. ASSUME state' = [k \in Records |-> IF k \in {} THEN "running" ELSE state[k]] PROVE state' = state
  BY <1>3
<1>. QED
  BY <1>1, <1>2, <1>3 DEF ClaimDueScreenshotCleanup, NoFault, Fault

LEMMA RemoveInvariant ==
  ASSUME IInv, NEW w \in Workers, Remove(w)
  PROVE  IInv'
<1>. USE DEF IInv, TypeOK
<1>1. PICK k \in batch[w], ok \in BOOLEAN :
        /\ record' = [record EXCEPT ![w] = k]
        /\ removed' = [removed EXCEPT ![w] = ok]
        /\ files' = IF ok THEN files \ {file[k]} ELSE files
        /\ pc[w] = "remove" /\ pc' = [pc EXCEPT ![w] = "complete"]
        /\ UNCHANGED <<table, elsewhere, clock, now, batch, faults>>
  BY DEF Remove, Goto, At
<1>. USE DEF table
<1>2. k \in Records /\ Working(w, k) /\ state[k] = "running"
  BY <1>1 DEF Working, WorkedOn
<1>3. \A v \in Workers, j \in Records : Working(v, j)' <=> Working(v, j)
  BY <1>1 DEF Working
<1>4. TypeOK'
  BY <1>1, <1>2
<1>5. ClaimedOnce' /\ UndisturbedRunningIsWorkedOn'
  BY <1>1, <1>3 DEF ClaimedOnce, UndisturbedRunningIsWorkedOn, RunningIsWorkedOn
<1>6. \A v \in Workers : Claimed(v)' /\ Removed(v)'
  BY <1>1 DEF Claimed, Removed, Away
<1>7. \A j \in Records : Tried(j)' /\ WorkedOn(j)' /\ Named(j)' /\ Done(j)'
  BY <1>1, <1>3 DEF Tried, WorkedOn, Named, Done, Away
<1>8. ASSUME NEW j \in Records, GoneBy(j) PROVE GoneBy(j)'
  <2>1. j # k
    BY <1>1, <1>2, <1>8 DEF GoneBy
  <2>. QED
    BY <1>1, <1>3, <1>8, <2>1 DEF GoneBy, Working
<1>9. ASSUME ok PROVE GoneBy(k)'
  BY <1>1, <1>2, <1>3, <1>9 DEF GoneBy, ClaimedOnce
<1>10. \A f \in Files : f \notin files' => f \notin files \/ (ok /\ f = file[k])
  BY <1>1
<1>11. \A f \in Files : FileGone(f)'
  BY <1>1, <1>2, <1>8, <1>9, <1>10 DEF FileGone
<1>. QED
  BY <1>4, <1>5, <1>6, <1>7, <1>11

LEMMA CompleteInvariant ==
  ASSUME IInv, NEW w \in Workers, CompleteScreenshotCleanup(w)
  PROVE  IInv'
<1>. USE DEF IInv, TypeOK
<1>a. PICK k \in Records, ok \in BOOLEAN : k = record[w] /\ ok = removed[w]
  BY DEF CompleteScreenshotCleanup, At, Claimed
<1>0. Working(w, k) /\ state[k] = "running" /\ pc[w] = "complete"
      /\ attempts[k] < MaximumAttempts /\ UNCHANGED <<files, elsewhere, clock>>
  BY <1>a DEF CompleteScreenshotCleanup, At, Claimed, Working, WorkedOn, Tried, disk
<1>1. CASE WriteBack(k, ok, now[w]) /\ NoFault /\
           \/ batch[w] = {k} /\ Ends(w)
           \/ /\ batch[w] # {k} /\ Goto(w, "remove")
              /\ batch' = [batch EXCEPT ![w] = @ \ {k}]
              /\ UNCHANGED <<now, record, removed>>
  <2>0. /\ TypeOK' /\ file' = file /\ faults' = faults
        /\ \A v \in Workers : v # w => pc'[v] = pc[v] /\ batch'[v] = batch[v] /\ record'[v] = record[v]
                                       /\ removed'[v] = removed[v]
        /\ pc'[w] # "complete"
    <3>1. /\ state' \in [Records -> {"none", "pending", "running", "succeeded", "abandoned"}]
          /\ attempts' \in [Records -> 0..MaximumAttempts]
          /\ next_attempt' \in [Records -> Nat] /\ file' = file
      BY <1>0, <1>1, WriteBackTypes DEF WriteBack
    <3>2. CASE batch[w] = {k} /\ Ends(w)
      BY <1>0, <1>1, <3>1, <3>2, ConstantsAssumption DEF Ends, Goto, NoFault
    <3>3. CASE /\ batch[w] # {k} /\ Goto(w, "remove")
               /\ batch' = [batch EXCEPT ![w] = @ \ {k}]
               /\ UNCHANGED <<now, record, removed>>
      BY <1>0, <1>1, <3>1, <3>3 DEF Goto, NoFault
    <3>. QED
      BY <1>1, <3>2, <3>3
  <2>1. \A j \in Records : Working(w, j)' <=> Working(w, j) /\ j # k
    BY <1>0, <1>1 DEF Working, Ends, Goto
  <2>2. /\ state'[k] \in {"succeeded", "abandoned", "pending"}
        /\ \A j \in Records \ {k} : state'[j] = state[j] /\ attempts'[j] = attempts[j]
    BY <1>0, <1>1 DEF WriteBack
  <2>3. \A v \in Workers, j \in Records : Working(v, j)' <=> Working(v, j) /\ j # k
    <3>1. \A v \in Workers : Working(v, k) => v = w
      BY <1>0 DEF ClaimedOnce
    <3>. QED
      BY <2>0, <2>1, <3>1 DEF Working
  <2>4. ClaimedOnce'
    BY <2>3 DEF ClaimedOnce
  <2>5. UndisturbedRunningIsWorkedOn'
    BY <2>0, <2>2, <2>3 DEF UndisturbedRunningIsWorkedOn, RunningIsWorkedOn
  <2>6. ok => Away(file[k]) /\ state'[k] = "succeeded"
    BY <1>a, <1>0, <1>1 DEF WriteBack, Removed
  <2>7. ~ok => /\ attempts'[k] = attempts[k] + 1
               /\ state'[k] = IF attempts[k] + 1 >= MaximumAttempts THEN "abandoned" ELSE "pending"
    BY <1>0, <1>1 DEF WriteBack
  <2>8. Tried(k)'
    BY <1>0, <2>6, <2>7, ConstantsAssumption DEF Tried
  <2>9. \A j \in Records : Tried(j)'
    BY <2>2, <2>8 DEF Tried
  <2>10. \A j \in Records : WorkedOn(j)' /\ Named(j)'
    BY <1>0, <2>0, <2>2, <2>3 DEF WorkedOn, Named
  <2>11. \A j \in Records : Done(j)'
    BY <1>0, <2>0, <2>2, <2>6, <2>7 DEF Done, Away
  <2>12. ASSUME NEW j \in Records, GoneBy(j) PROVE GoneBy(j)'
    <3>1. CASE j = k
      BY <1>a, <1>0, <2>6, <2>12, <3>1 DEF GoneBy
    <3>2. CASE j # k
      <4>1. state'[j] = state[j]
        BY <2>2, <3>2
      <4>2. \A v \in Workers : Working(v, j)' => Working(v, j) /\ v # w
        <5>. SUFFICES ASSUME NEW v \in Workers, Working(v, j)' PROVE Working(v, j) /\ v # w
          OBVIOUS
        <5>1. Working(v, j)
          BY <2>3
        <5>2. record[v] = j
          BY <1>0, <2>12, <5>1 DEF GoneBy, WorkedOn
        <5>. QED
          BY <1>a, <3>2, <5>1, <5>2
      <4>. QED
        BY <2>0, <2>12, <4>1, <4>2 DEF GoneBy
    <3>. QED
      BY <3>1, <3>2
  <2>13. \A f \in Files : FileGone(f)'
    BY <1>0, <2>0, <2>12 DEF FileGone
  <2>14. \A v \in Workers : Claimed(v)' /\ Removed(v)'
    BY <1>0, <2>0 DEF Claimed, Removed, Away
  <2>. QED
    BY <2>0, <2>4, <2>5, <2>9, <2>10, <2>11, <2>13, <2>14
<1>2. CASE Fault("db") /\ UNCHANGED table /\ Ends(w)
  BY <1>0, <1>2, EndsInvariant DEF Fault, disk
<1>. QED
  BY <1>a, <1>1, <1>2 DEF CompleteScreenshotCleanup

LEMMA StepInvariant == IInv /\ [Next]_vars => IInv'
<1>. SUFFICES ASSUME IInv, [Next]_vars PROVE IInv'
  OBVIOUS
<1>1. ASSUME NEW w \in Workers, Start(w) PROVE IInv'
  <2>. USE <1>1 DEF Start, At, Goto, table, disk, IInv
  <2>1. TypeOK'
    BY DEF TypeOK
  <2>2. \A v \in Workers, k \in Records : Working(v, k)' <=> Working(v, k)
    BY DEF Working, TypeOK
  <2>3. \A k \in Records : GoneBy(k) <=> GoneBy(k)'
    BY <2>2 DEF GoneBy, TypeOK, Working
  <2>. QED
    BY <2>1, <2>2, <2>3 DEF TypeOK, ClaimedOnce, UndisturbedRunningIsWorkedOn, RunningIsWorkedOn, Claimed, Removed,
       Tried, WorkedOn, Named, Done, Away, FileGone
<1>2. ASSUME NEW w \in Workers, Crash(w) PROVE IInv'
  BY <1>2, EndsInvariant DEF Crash, Fault, IInv, TypeOK
<1>3. CASE Tick \/ UNCHANGED vars
  <2>. USE <1>3 DEF Tick, vars, table, disk, worker, IInv, Working
  <2>1. TypeOK'
    BY ConstantsAssumption DEF TypeOK
  <2>2. \A k \in Records : GoneBy(k) <=> GoneBy(k)'
    BY DEF GoneBy
  <2>. QED
    BY <2>1, <2>2 DEF ClaimedOnce, UndisturbedRunningIsWorkedOn, RunningIsWorkedOn, Claimed, Removed,
       Tried, WorkedOn, Named, Done, Away, FileGone
<1>. QED
  BY <1>1, <1>2, <1>3, CreateInvariant, DiskInvariant, ClaimInvariant, RemoveInvariant, CompleteInvariant DEF Next

LEMMA InvariantHolds == Spec => []IInv
  BY InitInvariant, StepInvariant, PTL DEF Spec

-----------------------------------------------------------------------------
(* Theorems.                                                               *)

\* The columns and the workers keep the types of the code; attempt_count stays
\* within the maximum whoever writes it (cleanup.go:43-53).
THEOREM TypesHold == Spec => []TypeOK
<1>1. IInv => TypeOK
  BY DEF IInv
<1>. QED
  BY <1>1, InvariantHolds, PTL

\* However many processes start together, no two of them work on one record
\* (retention.go:60, tasks.md:226).
THEOREM RecordsClaimedOnce == Spec => []ClaimedOnce
<1>1. IInv => ClaimedOnce
  BY DEF IInv
<1>. QED
  BY <1>1, InvariantHolds, PTL

\* What the table says of a file is true, whatever calls fail and processes die
\* and however many records name it (cleanup.go:42-55, update.go:98-100).
THEOREM OutcomesAreTrue == Spec => []OutcomeIsTrue
  BY OutcomeFollows, InvariantHolds, PTL

\* Before a first fault no record is left running without a worker
\* (cleanup.go:35-59).
THEOREM NothingLeftRunning == Spec => []UndisturbedRunningIsWorkedOn
<1>1. IInv => UndisturbedRunningIsWorkedOn
  BY DEF IInv
<1>. QED
  BY <1>1, InvariantHolds, PTL
=============================================================================
