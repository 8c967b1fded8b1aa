------------------------- MODULE Configuration_proofs -------------------------
(***************************************************************************)
(* Proofs about Configuration for any updates, values, edits and faults.   *)
(***************************************************************************)
EXTENDS Configuration, TLAPS

LEMMA InitTypes == Init => TypeOK
<1>. SUFFICES ASSUME Init PROVE TypeOK
  OBVIOUS
<1>1. Initial \in Settings
  BY ConstantsAssumption DEF Initial, Settings
<1>2. file \in [operator : 0..MaxEdits, settings : Settings] /\ edits \in 0..MaxEdits
  BY <1>1, ConstantsAssumption DEF Init
<1>3. {crossed, announced, silent} \subseteq BOOLEAN /\ process \in [Requests -> {"web", "cli"}]
  BY DEF Init
<1>4. base \in [Requests -> 0..MaxEdits] /\ restart \in [Requests -> BOOLEAN]
  BY ConstantsAssumption DEF Init
<1>. QED
  BY <1>1, <1>2, <1>3, <1>4 DEF Init, TypeOK, Ended

LEMMA StepTypes == TypeOK /\ [Next]_vars => TypeOK'
<1>. SUFFICES ASSUME TypeOK, [Next]_vars PROVE TypeOK'
  OBVIOUS
<1>. USE DEF TypeOK, At, Goto, Ended, NoFault, Fault, asked, server
<1>1. ASSUME NEW r \in Requests, Validate(r) PROVE TypeOK'
  BY <1>1 DEF Validate
<1>2. ASSUME NEW r \in Requests, Load(r) PROVE TypeOK'
  BY <1>2 DEF Load
<1>3. ASSUME NEW r \in Requests, Stage(r) PROVE TypeOK'
  BY <1>3 DEF Stage
<1>4. ASSUME NEW r \in Requests, Rename(r) PROVE TypeOK'
  BY <1>4 DEF Rename, Written
<1>5. ASSUME NEW r \in Requests, Sync(r) PROVE TypeOK'
  BY <1>5 DEF Sync
<1>6. ASSUME OperatorEdits PROVE TypeOK'
  BY <1>6, ConstantsAssumption DEF OperatorEdits
<1>7. ASSUME Restart PROVE TypeOK'
  BY <1>7 DEF Restart
<1>8. ASSUME NEW r \in Requests, Kill(r) PROVE TypeOK'
  BY <1>8 DEF Kill
<1>9. CASE UNCHANGED vars
  BY <1>9 DEF vars
<1>. QED
  BY <1>1, <1>2, <1>3, <1>4, <1>5, <1>6, <1>7, <1>8, <1>9 DEF Next

\* The file, the server and the updates keep their types (configuration.go:66-86).
THEOREM TypesHold == Spec => []TypeOK
  BY InitTypes, StepTypes, PTL DEF Spec

-----------------------------------------------------------------------------
(* The invariant.                                                          *)

\* An update that has written the file has passed its rename.
Renamed(r) == author = r => pc[r] \in {"sync"} \cup Ended

\* Before the rename, an update works with the operator's groups of the file,
\* unless he has edited them meanwhile.
Current(r) == ~crossed /\ pc[r] \in {"stage", "rename"} => base[r] = edits

\* The update that has written the file has reported success or will.
Reported(r) == "sync" \notin faults /\ author = r => pc[r] # "refused"

\* An update that asks for other database settings than the server has knows
\* that a restart is required, or some other update is the one that says so.
Noticed(r) ==
  ~silent /\ pc[r] \in {"load", "stage", "rename", "sync"}
      /\ candidate[r].database # running.database
    => restart[r] \/ Announced

IInv == /\ TypeOK /\ OneCandidateWins /\ OperatorEditKept /\ DatabaseChangeIsAnnounced
        /\ \A r \in Requests : Renamed(r) /\ Current(r) /\ Reported(r) /\ Noticed(r)

LEMMA InitInvariant == Init => IInv
<1>. SUFFICES ASSUME Init PROVE IInv
  OBVIOUS
<1>1. TypeOK
  BY InitTypes
<1>2. OneCandidateWins /\ OperatorEditKept /\ DatabaseChangeIsAnnounced
  BY ConstantsAssumption DEF Init, OneCandidateWins, OperatorEditKept, DatabaseChangeIsAnnounced
<1>3. \A r \in Requests : Renamed(r) /\ Current(r) /\ Reported(r) /\ Noticed(r)
  BY ConstantsAssumption DEF Init, Renamed, Current, Reported, Noticed
<1>. QED
  BY <1>1, <1>2, <1>3 DEF IInv

LEMMA StepWinner == IInv /\ TypeOK' /\ [Next]_vars =>
  OneCandidateWins' /\ \A r \in Requests : Renamed(r)' /\ Reported(r)'
<1>. SUFFICES ASSUME IInv, TypeOK', [Next]_vars
              PROVE  OneCandidateWins' /\ \A r \in Requests : Renamed(r)' /\ Reported(r)'
  OBVIOUS
<1>. USE DEF IInv, TypeOK, OneCandidateWins, Renamed, Reported, At, Goto, NoFault, Fault, asked, server, Ended
<1>1. ASSUME NEW r \in Requests, Validate(r) \/ Load(r) \/ Stage(r)
      PROVE  OneCandidateWins' /\ \A s \in Requests : Renamed(s)' /\ Reported(s)'
  BY <1>1 DEF Validate, Load, Stage
<1>2. ASSUME NEW r \in Requests, Rename(r)
      PROVE  OneCandidateWins' /\ \A s \in Requests : Renamed(s)' /\ Reported(s)'
  BY <1>2 DEF Rename, Written
<1>3. ASSUME NEW r \in Requests, Sync(r)
      PROVE  OneCandidateWins' /\ \A s \in Requests : Renamed(s)' /\ Reported(s)'
  BY <1>3 DEF Sync
<1>4. ASSUME OperatorEdits \/ Restart
      PROVE  OneCandidateWins' /\ \A s \in Requests : Renamed(s)' /\ Reported(s)'
  <2>1. CASE OperatorEdits
    BY <2>1 DEF OperatorEdits
  <2>2. CASE Restart
    <3>1. /\ UNCHANGED <<file, author, candidate, faults>>
          /\ \A s \in Requests : pc'[s] = pc[s] \/ pc'[s] = "interrupted"
      BY <2>2 DEF Restart
    <3>. QED
      BY <3>1
  <2>. QED
    BY <1>4, <2>1, <2>2
<1>5. ASSUME NEW r \in Requests, Kill(r)
      PROVE  OneCandidateWins' /\ \A s \in Requests : Renamed(s)' /\ Reported(s)'
  BY <1>5 DEF Kill
<1>6. CASE UNCHANGED vars
  BY <1>6 DEF vars
<1>. QED
  BY <1>1, <1>2, <1>3, <1>4, <1>5, <1>6 DEF Next

LEMMA StepOperator == IInv /\ TypeOK' /\ [Next]_vars => OperatorEditKept' /\ \A r \in Requests : Current(r)'
<1>. SUFFICES ASSUME IInv, TypeOK', [Next]_vars PROVE OperatorEditKept' /\ \A r \in Requests : Current(r)'
  OBVIOUS
<1>. USE DEF IInv, TypeOK, OperatorEditKept, Current, At, Goto, asked, server, Ended
<1>1. ASSUME NEW r \in Requests, Validate(r) \/ Load(r) \/ Stage(r) \/ Sync(r)
      PROVE  OperatorEditKept' /\ \A s \in Requests : Current(s)'
  BY <1>1 DEF Validate, Load, Stage, Sync
<1>2. ASSUME NEW r \in Requests, Rename(r) PROVE OperatorEditKept' /\ \A s \in Requests : Current(s)'
  BY <1>2 DEF Rename, Written
<1>3. ASSUME OperatorEdits PROVE OperatorEditKept' /\ \A s \in Requests : Current(s)'
  <2>1. ~crossed' => \A s \in Requests : pc'[s] \notin {"stage", "rename"}
    BY <1>3 DEF OperatorEdits, InFlight
  <2>2. file'.operator = edits'
    BY <1>3 DEF OperatorEdits
  <2>. QED
    BY <2>1, <2>2
<1>4. ASSUME Restart PROVE OperatorEditKept' /\ \A s \in Requests : Current(s)'
  BY <1>4 DEF Restart, InFlight
<1>5. ASSUME NEW r \in Requests, Kill(r) PROVE OperatorEditKept' /\ \A s \in Requests : Current(s)'
  BY <1>5 DEF Kill
<1>6. CASE UNCHANGED vars
  BY <1>6 DEF vars
<1>. QED
  BY <1>1, <1>2, <1>3, <1>4, <1>5, <1>6 DEF Next

\* What is announced, or about to be, stays so until the server restarts.
LEMMA StepPending ==
  ASSUME TypeOK, TypeOK', Announced, ~silent',
         NEW r \in Requests, Validate(r) \/ Load(r) \/ Stage(r) \/ Rename(r) \/ Sync(r) \/ Kill(r)
  PROVE  Announced'
<1>. USE DEF TypeOK, Announced, At, Goto, asked, server
<1>1. CASE announced
  BY <1>1 DEF Validate, Load, Stage, Rename, Sync, Kill
<1>2. CASE \E s \in Requests : At(s, "sync") /\ restart[s]
  <2>1. PICK s \in Requests : pc[s] = "sync" /\ restart[s]
    BY <1>2
  <2>2. CASE Validate(r) \/ Load(r) \/ Stage(r) \/ Rename(r)
    BY <2>1, <2>2 DEF Validate, Load, Stage, Rename
  <2>3. CASE Sync(r)
    BY <2>1, <2>3 DEF Sync
  <2>4. CASE Kill(r)
    BY <2>1, <2>4 DEF Kill
  <2>. QED
    BY <2>2, <2>3, <2>4
<1>. QED
  BY <1>1, <1>2

LEMMA StepAnnounced == IInv /\ TypeOK' /\ [Next]_vars =>
  DatabaseChangeIsAnnounced' /\ \A r \in Requests : Noticed(r)'
<1>. SUFFICES ASSUME IInv, TypeOK', [Next]_vars
              PROVE  DatabaseChangeIsAnnounced' /\ \A r \in Requests : Noticed(r)'
  OBVIOUS
<1>. USE DEF IInv, TypeOK, At, Goto, asked, server
<1>0. (~silent /\ running.database # file.settings.database) => Announced
  BY DEF DatabaseChangeIsAnnounced
<1>1. ASSUME NEW r \in Requests, Validate(r) \/ Load(r) \/ Stage(r) \/ Rename(r) \/ Sync(r) \/ Kill(r),
             ~silent'
      PROVE  /\ running.database # file'.settings.database => Announced'
             /\ \A s \in Requests : Noticed(s)'
  <2>1. running' = running /\ ~silent
    BY <1>1 DEF Validate, Load, Stage, Rename, Sync, Kill
  <2>2. Announced => Announced'
    BY <1>1, StepPending
  <2>3. CASE Validate(r)
    <3>1. restart'[r] = (file.settings.database # candidate'[r].database) /\ file' = file
          /\ \A s \in Requests \ {r} : /\ candidate'[s] = candidate[s] /\ restart'[s] = restart[s]
                                       /\ pc'[s] = pc[s]
      BY <2>3 DEF Validate
    <3>. QED
      BY <1>0, <2>1, <2>2, <3>1 DEF Noticed
  <2>4. CASE Load(r) \/ Stage(r) \/ Kill(r)
    BY <1>0, <2>1, <2>2, <2>4 DEF Load, Stage, Kill, Noticed
  <2>5. CASE Rename(r)
    <3>1. /\ UNCHANGED asked
          /\ \/ file' = Written(r) /\ pc' = [pc EXCEPT ![r] = "sync"]
             \/ file' = file /\ pc' = [pc EXCEPT ![r] = "refused"]
      BY <2>5 DEF Rename
    <3>2. \A s \in Requests : Noticed(s)'
      BY <2>1, <2>2, <2>5, <3>1 DEF Noticed, Rename
    <3>3. CASE file' = Written(r) /\ pc' = [pc EXCEPT ![r] = "sync"]
      <4>1. candidate[r].database # running.database => restart[r] \/ Announced
        BY <2>1, <2>5 DEF Noticed, Rename
      <4>2. file'.settings = candidate[r]
        BY <3>3 DEF Written
      <4>3. restart[r] => Announced'
        BY <3>1, <3>3 DEF Announced
      <4>. QED
        BY <2>2, <3>2, <4>1, <4>2, <4>3
    <3>. QED
      BY <1>0, <2>1, <2>2, <3>1, <3>2, <3>3
  <2>6. CASE Sync(r)
    BY <1>0, <2>1, <2>2, <2>6 DEF Sync, Noticed
  <2>. QED
    BY <1>1, <2>3, <2>4, <2>5, <2>6
<1>2. ASSUME OperatorEdits PROVE DatabaseChangeIsAnnounced' /\ \A s \in Requests : Noticed(s)'
  BY <1>2 DEF OperatorEdits, DatabaseChangeIsAnnounced, Noticed, Announced
<1>3. ASSUME Restart PROVE DatabaseChangeIsAnnounced' /\ \A s \in Requests : Noticed(s)'
  <2>1. ~silent' => \A s \in Requests : pc'[s] \notin {"load", "stage", "rename", "sync"}
    BY <1>3 DEF Restart, InFlight, Ended
  <2>2. running' = file'.settings
    BY <1>3 DEF Restart
  <2>. QED
    BY <2>1, <2>2 DEF DatabaseChangeIsAnnounced, Noticed
<1>4. CASE UNCHANGED vars
  BY <1>4 DEF vars, DatabaseChangeIsAnnounced, Noticed, Announced
<1>5. ASSUME NEW r \in Requests, Validate(r) \/ Load(r) \/ Stage(r) \/ Rename(r) \/ Sync(r) \/ Kill(r)
      PROVE  DatabaseChangeIsAnnounced' /\ \A s \in Requests : Noticed(s)'
  <2>1. CASE silent'
    BY <2>1 DEF DatabaseChangeIsAnnounced, Noticed
  <2>2. CASE ~silent'
    <3>1. running' = running
      BY <1>5 DEF Validate, Load, Stage, Rename, Sync, Kill
    <3>. QED
      BY <1>1, <1>5, <2>2, <3>1 DEF DatabaseChangeIsAnnounced
  <2>. QED
    BY <2>1, <2>2
<1>. QED
  BY <1>2, <1>3, <1>4, <1>5 DEF Next

LEMMA StepInvariant == IInv /\ [Next]_vars => IInv'
<1>. SUFFICES ASSUME IInv, [Next]_vars PROVE IInv'
  OBVIOUS
<1>1. TypeOK'
  BY StepTypes DEF IInv
<1>. QED
  BY <1>1, StepWinner, StepOperator, StepAnnounced DEF IInv

LEMMA InvariantHolds == Spec => []IInv
  BY InitInvariant, StepInvariant, PTL DEF Spec

-----------------------------------------------------------------------------
(* Theorems.                                                               *)

\* Updates never mix: the settings in the file are the whole candidate of the
\* update that wrote it last (configuration.go:66-86, update.go:15-57).
THEOREM WholeCandidate == Spec => []OneCandidateWins
<1>1. IInv => OneCandidateWins
  BY DEF IInv
<1>. QED
  BY <1>1, InvariantHolds, PTL

\* No update takes back an edit of the operator that no update was in progress
\* at (configuration.go:71-77).
THEOREM OperatorKeepsGroups == Spec => []OperatorEditKept
<1>1. IInv => OperatorEditKept
  BY DEF IInv
<1>. QED
  BY <1>1, InvariantHolds, PTL

\* An update that fails in or before the rename has not written the file
\* (update.go:15-57).
THEOREM EarlyRefusal == Spec => []RefusedBeforeRenameChangesNothing
<1>1. IInv => RefusedBeforeRenameChangesNothing
  BY DEF IInv, Reported, At, RefusedBeforeRenameChangesNothing, RefusedChangesNothing
<1>. QED
  BY <1>1, InvariantHolds, PTL

\* A server runs with other database settings than the file holds only if an update
\* announces the restart, or one of the command line outlived the last restart or
\* ended without an answer (configuration.go:49-64, configuration_operations.go:54).
THEOREM RestartIsAnnounced == Spec => []DatabaseChangeIsAnnounced
<1>1. IInv => DatabaseChangeIsAnnounced
  BY DEF IInv
<1>. QED
  BY <1>1, InvariantHolds, PTL
=============================================================================
