------------------------- MODULE BookmarkFiles_proofs -------------------------
(***************************************************************************)
(* Proofs about BookmarkFiles for any requests, drafts, bookmarks, faults  *)
(* and bounds.                                                             *)
(***************************************************************************)
EXTENDS BookmarkFiles, FiniteSetTheorems, TLAPS

-----------------------------------------------------------------------------
(* Keys.  The proofs cite these facts and leave the key operators opaque.  *)

\* Keys drawn by different callers, or for different directories, differ
\* (screenshots.go:45, 73 and 113 draw a new identifier each time).
LEMMA KeysDiffer ==
  ASSUME NEW a, NEW b
  PROVE  /\ PromotedKey(a) = PromotedKey(b) => a = b
         /\ QuarantinedKey(a) = QuarantinedKey(b) => a = b
         /\ StagedKey(a) = StagedKey(b) => a = b
         /\ PromotedKey(a) # QuarantinedKey(b)
         /\ PromotedKey(a) # StagedKey(b)
         /\ QuarantinedKey(a) # StagedKey(b)
  BY DEF PromotedKey, QuarantinedKey, StagedKey

\* The keys the store draws are keys, and the empty storage key is none.
LEMMA KeysHaveType ==
  /\ \A r \in Ids : PromotedKey(r) \in Keys
  /\ \A r \in Requests : QuarantinedKey(r) \in Keys
  /\ \A d \in Drafts : StagedKey(d) \in Keys
  /\ NoKey \notin Keys
  BY ConstantsAssumption DEF PromotedKey, QuarantinedKey, StagedKey, Keys

-----------------------------------------------------------------------------
(* Types and control: what the step a request has reached says of its      *)
(* operation and of its local variables.  Types alone are not inductive:   *)
(* that Restore and Record are given a key and not NoKey rests on control. *)

Control(r) ==
  /\ pc[r] = "idle" => Op(r) = "none"
  /\ pc[r] \in {"mark_then_insert", "insert"} => Op(r) = "create"
  /\ pc[r] \in {"promote", "compensate"} => Op(r) \in {"create", "update"}
  /\ pc[r] \in {"find_draft", "write", "mark", "remove_old", "record_old"} => Op(r) = "update"
  /\ pc[r] \in {"quarantine", "delete", "restore", "remove_quarantined", "record_quarantined"}
       => Op(r) = "delete"
  /\ Op(r) \in {"none", "create"} => current[r].screenshot = NoKey
  /\ Op(r) = "create" => Bookmark(r) = r
  /\ Op(r) \in {"update", "delete"} => Bookmark(r) \in Ids
  /\ pc[r] \in {"idle", "promote", "find_draft", "quarantine"} => key[r] = NoKey
  /\ key[r] # NoKey => key[r] = IF Op(r) = "delete" THEN QuarantinedKey(r) ELSE PromotedKey(r)
  /\ pc[r] \in {"compensate", "restore", "remove_quarantined", "record_quarantined"}
       => key[r] # NoKey
  /\ pc[r] \in {"quarantine", "record_old"} => current[r].screenshot # NoKey
  /\ Op(r) = "delete" /\ key[r] # NoKey => current[r].screenshot # NoKey
  /\ pc[r] = "record_old" => Replaces(r)

ControlInv == \A r \in Requests : Control(r)

LEMMA InitTypes == Init => TypeOK /\ ControlInv
<1>. SUFFICES ASSUME Init PROVE TypeOK /\ ControlInv
  OBVIOUS
<1>. USE ConstantsAssumption, KeysHaveType DEF Init, NoInput, Ids
<1>1. AnyUrl \in Urls
  BY DEF AnyUrl
<1>2. TypeOK
  BY <1>1 DEF TypeOK, Labels, Ended
<1>3. ControlInv
  BY DEF ControlInv, Control, Op
<1>. QED
  BY <1>2, <1>3

\* Faults that have happened stay so, and a step adds one kind of fault at most.
LEMMA StepFaults == [Next]_vars => \/ faults' = faults
                                   \/ \E kind \in Faults : faults' = faults \cup {kind}
  BY DEF Next, Step, vars, Fault, NoFault, BeginCreate, BeginUpdate, BeginDelete, Begin,
     Promote, MoveFile, MoveFails, MarkBeforeInsert, Insert, Compensate, RemoveFile, RemoveFails, FindDraft,
     Write, MarkAfterWrite, RemoveOld, RecordOld, Record, Quarantine, Delete, Restore, RemoveQuarantined,
     RecordQuarantined, Crash, CleanUp

\* Every action leaves every variable in its type.
LEMMA StepTypes == TypeOK /\ ControlInv /\ [Next]_vars => TypeOK'
<1>. SUFFICES ASSUME TypeOK, ControlInv, [Next]_vars PROVE TypeOK'
  OBVIOUS
<1>. USE KeysHaveType, ConstantsAssumption DEF TypeOK, Labels, Ended, database, locals,
       Ids, At, Goto, Op, Capture, Bookmark, Replaces
<1>0. contended' \subseteq Ids
  BY DEF Next, Step, vars, BeginCreate, BeginUpdate, BeginDelete, Begin, Promote, MarkBeforeInsert, Insert,
     Compensate, FindDraft, Write, MarkAfterWrite, RemoveOld, RecordOld, Record, Quarantine, Delete, Restore,
     RemoveQuarantined, RecordQuarantined, Crash, CleanUp
<1>a. faults' \subseteq FaultKinds
  BY StepFaults, ConstantsAssumption
<1>. USE <1>0, <1>a
<1>1. ASSUME NEW r \in Requests, BeginCreate(r) PROVE TypeOK'
  <2>1. PICK u \in Urls, d \in Drafts \cup {NoDraft}, label \in {"insert", "promote"} :
          Begin(r, "create", r, u, d, label)
    BY <1>1 DEF BeginCreate
  <2>2. UNCHANGED current
    BY <1>1 DEF BeginCreate
  <2>. QED
    BY <2>1, <2>2 DEF Begin
<1>2. ASSUME NEW r \in Requests, BeginUpdate(r) PROVE TypeOK'
  BY <1>2 DEF BeginUpdate, Begin, Snapshot
<1>3. ASSUME NEW r \in Requests, BeginDelete(r) PROVE TypeOK'
  BY <1>3 DEF BeginDelete, Begin, Snapshot
<1>4. ASSUME NEW r \in Requests, Promote(r) PROVE TypeOK'
  <2>1. files' \subseteq Keys
    BY <1>4 DEF Promote, MoveFile, MoveFails, Rename
  <2>2. key' \in [Requests -> Keys \cup {NoKey}]
    BY <1>4 DEF Promote
  <2>3. pc' \in [Requests -> Labels]
    BY <1>4 DEF Promote
  <2>. QED
    BY <1>4, <2>1, <2>2, <2>3 DEF Promote
<1>5. ASSUME NEW r \in Requests, MarkBeforeInsert(r) PROVE TypeOK'
  BY <1>5 DEF MarkBeforeInsert
<1>6. ASSUME NEW r \in Requests, Insert(r) PROVE TypeOK'
  <2>1. bookmarks' \subseteq Ids /\ url' \in [Ids -> Urls]
    BY <1>6 DEF Insert, InsertRow
  <2>2. screenshot' \in [Ids -> Keys \cup {NoKey}]
    BY <1>6 DEF Insert, InsertRow
  <2>3. draft' = draft /\ cleanup' = cleanup
    BY <1>6 DEF Insert, InsertRow
  <2>4. pc' \in [Requests -> Labels]
    BY <1>6 DEF Insert, AfterFailedWrite
  <2>. QED
    BY <1>6, <2>1, <2>2, <2>3, <2>4 DEF Insert
<1>7. ASSUME NEW r \in Requests, Compensate(r) PROVE TypeOK'
  BY <1>7 DEF Compensate, RemoveFile, RemoveFails, Unlink
<1>8. ASSUME NEW r \in Requests, FindDraft(r) PROVE TypeOK'
  <2>1. pc' \in [Requests -> Labels]
    BY <1>8 DEF FindDraft
  <2>2. UNCHANGED <<bookmarks, url, screenshot, draft, cleanup, files, input, current, key>>
    BY <1>8 DEF FindDraft
  <2>. QED
    BY <2>1, <2>2
<1>9. ASSUME NEW r \in Requests, Write(r) PROVE TypeOK'
  <2>1. bookmarks' = bookmarks /\ url' \in [Ids -> Urls]
    BY <1>9 DEF Write, UpdateRow
  <2>2. screenshot' \in [Ids -> Keys \cup {NoKey}]
    BY <1>9 DEF Write, UpdateRow
  <2>3. draft' = draft /\ cleanup' = cleanup
    BY <1>9 DEF Write, UpdateRow
  <2>4. pc' \in [Requests -> Labels]
    BY <1>9 DEF Write, AfterFailedWrite
  <2>. QED
    BY <1>9, <2>1, <2>2, <2>3, <2>4 DEF Write
<1>10. ASSUME NEW r \in Requests, MarkAfterWrite(r) PROVE TypeOK'
  BY <1>10 DEF MarkAfterWrite
<1>11. ASSUME NEW r \in Requests, RemoveOld(r) PROVE TypeOK'
  BY <1>11 DEF RemoveOld, RemoveFile, RemoveFails, Unlink
<1>12. ASSUME NEW r \in Requests, RecordOld(r) PROVE TypeOK'
  <2>1. Control(r) /\ pc[r] = "record_old"
    BY <1>12 DEF RecordOld, Record, ControlInv
  <2>2. current[r].screenshot # NoKey
    BY <2>1 DEF Control
  <2>. QED
    BY <1>12, <2>2 DEF RecordOld, Record
<1>13. ASSUME NEW r \in Requests, Quarantine(r) PROVE TypeOK'
  <2>1. files' \subseteq Keys
    BY <1>13 DEF Quarantine, MoveFile, MoveFails, Rename
  <2>2. key' \in [Requests -> Keys \cup {NoKey}]
    BY <1>13 DEF Quarantine
  <2>3. pc' \in [Requests -> Labels]
    BY <1>13 DEF Quarantine
  <2>. QED
    BY <1>13, <2>1, <2>2, <2>3 DEF Quarantine
<1>14. ASSUME NEW r \in Requests, Delete(r) PROVE TypeOK'
  BY <1>14 DEF Delete, DeleteRow, AfterFailedDelete
<1>15. ASSUME NEW r \in Requests, Restore(r) PROVE TypeOK'
  <2>1. current[r].screenshot \in Keys
    BY <1>15 DEF Restore, ControlInv, Control
  <2>. QED
    BY <1>15, <2>1 DEF Restore, MoveFile, MoveFails, Rename
<1>16. ASSUME NEW r \in Requests, RemoveQuarantined(r) PROVE TypeOK'
  BY <1>16 DEF RemoveQuarantined, RemoveFile, RemoveFails, Unlink
<1>17. ASSUME NEW r \in Requests, RecordQuarantined(r) PROVE TypeOK'
  <2>1. key[r] \in Keys
    BY <1>17 DEF RecordQuarantined, Record, ControlInv, Control
  <2>. QED
    BY <1>17, <2>1 DEF RecordQuarantined, Record
<1>18. ASSUME NEW r \in Requests, Crash(r) PROVE TypeOK'
  BY <1>18 DEF Crash, InFlight, Ended
<1>19. ASSUME NEW k \in Keys, CleanUp(k) PROVE TypeOK'
  BY <1>19 DEF CleanUp, Unlink
<1>20. CASE UNCHANGED vars
  BY <1>20 DEF vars
<1>. QED
  BY <1>1, <1>2, <1>3, <1>4, <1>5, <1>6, <1>7, <1>8, <1>9, <1>10, <1>11, <1>12, <1>13, <1>14, <1>15, <1>16, <1>17, <1>18, <1>19, <1>20 DEF Next, Step

\* Every action leaves every request's variables in step with its label.
LEMMA StepControl == TypeOK /\ ControlInv /\ [Next]_vars => ControlInv'
<1>. SUFFICES ASSUME TypeOK, ControlInv, [Next]_vars PROVE ControlInv'
  OBVIOUS
<1>. USE KeysHaveType, ConstantsAssumption DEF TypeOK, Labels, Ended, database, locals,
       Ids, At, Goto, Op, Capture, Bookmark, Replaces, ControlInv, Control
<1>1. ASSUME NEW r \in Requests, BeginCreate(r) PROVE ControlInv'
  BY <1>1 DEF BeginCreate, Begin
<1>2. ASSUME NEW r \in Requests, BeginUpdate(r) PROVE ControlInv'
  BY <1>2 DEF BeginUpdate, Begin, Snapshot
<1>3. ASSUME NEW r \in Requests, BeginDelete(r) PROVE ControlInv'
  BY <1>3 DEF BeginDelete, Begin, Snapshot
<1>4. ASSUME NEW r \in Requests, Promote(r) PROVE ControlInv'
  BY <1>4 DEF Promote, MoveFile, MoveFails, NoFault, Fault
<1>5. ASSUME NEW r \in Requests, MarkBeforeInsert(r) PROVE ControlInv'
  BY <1>5 DEF MarkBeforeInsert, NoFault, Fault
<1>6. ASSUME NEW r \in Requests, Insert(r) PROVE ControlInv'
  BY <1>6 DEF Insert, InsertRow, AfterFailedWrite, NoFault, Fault
<1>7. ASSUME NEW r \in Requests, Compensate(r) PROVE ControlInv'
  BY <1>7 DEF Compensate, RemoveFile, RemoveFails, NoFault, Fault
<1>8. ASSUME NEW r \in Requests, FindDraft(r) PROVE ControlInv'
  BY <1>8 DEF FindDraft, NoFault, Fault
<1>9. ASSUME NEW r \in Requests, Write(r) PROVE ControlInv'
  BY <1>9 DEF Write, UpdateRow, AfterFailedWrite, NoFault, Fault
<1>10. ASSUME NEW r \in Requests, MarkAfterWrite(r) PROVE ControlInv'
  BY <1>10 DEF MarkAfterWrite, NoFault, Fault
<1>11. ASSUME NEW r \in Requests, RemoveOld(r) PROVE ControlInv'
  BY <1>11 DEF RemoveOld, RemoveFile, RemoveFails, NoFault, Fault
<1>12. ASSUME NEW r \in Requests, RecordOld(r) PROVE ControlInv'
  BY <1>12 DEF RecordOld, Record, NoFault, Fault
<1>13. ASSUME NEW r \in Requests, Quarantine(r) PROVE ControlInv'
  <2>1. \/ pc' = [pc EXCEPT ![r] = "delete"] /\ key' = [key EXCEPT ![r] = QuarantinedKey(r)]
        \/ pc' = [pc EXCEPT ![r] = "refused"] /\ key' = key
    BY <1>13 DEF Quarantine
  <2>2. \A q \in Requests \ {r} : Control(q)'
    BY <1>13, <2>1 DEF Quarantine
  <2>3. Control(r)'
    BY <1>13, <2>1 DEF Quarantine
  <2>. QED
    BY <2>2, <2>3
<1>14. ASSUME NEW r \in Requests, Delete(r) PROVE ControlInv'
  BY <1>14 DEF Delete, DeleteRow, AfterFailedDelete, NoFault, Fault
<1>15. ASSUME NEW r \in Requests, Restore(r) PROVE ControlInv'
  BY <1>15 DEF Restore, MoveFile, MoveFails, NoFault, Fault
<1>16. ASSUME NEW r \in Requests, RemoveQuarantined(r) PROVE ControlInv'
  BY <1>16 DEF RemoveQuarantined, RemoveFile, RemoveFails, NoFault, Fault
<1>17. ASSUME NEW r \in Requests, RecordQuarantined(r) PROVE ControlInv'
  BY <1>17 DEF RecordQuarantined, Record, NoFault, Fault
<1>18. ASSUME NEW r \in Requests, Crash(r) PROVE ControlInv'
  BY <1>18 DEF Crash, Fault, InFlight, Ended
<1>19. ASSUME NEW k \in Keys, CleanUp(k) PROVE ControlInv'
  BY <1>19 DEF CleanUp
<1>20. CASE UNCHANGED vars
  BY <1>20 DEF vars
<1>. QED
  BY <1>1, <1>2, <1>3, <1>4, <1>5, <1>6, <1>7, <1>8, <1>9, <1>10, <1>11, <1>12, <1>13, <1>14, <1>15, <1>16, <1>17, <1>18, <1>19, <1>20 DEF Next, Step

\* The tables, the directory and the requests keep their types.
THEOREM TypesHold == Spec => []TypeOK
<1>1. TypeOK /\ ControlInv /\ [Next]_vars => (TypeOK /\ ControlInv)'
  BY StepTypes, StepControl
<1>. QED
  BY InitTypes, <1>1, PTL DEF Spec

-----------------------------------------------------------------------------
(* The invariant behind ReferencedImageSurvives and                        *)
(* DoomedFilesAreUnreferenced, for faults other than lost_reply: then a    *)
(* request that was told its write failed has written nothing.             *)

\* Request s has written its key to a row, or never had one to write.
Written(s) == s \in Seeds \/ pc[s] \in {"mark", "remove_old", "record_old", "saved", "crashed"}

\* The one bookmark that may ever show the file promoted by s.
Owner(s) == IF s \in Seeds THEN s ELSE Bookmark(s)

\* The bookmarks that have ever been stored, and the promoted files with the
\* bookmark each was given to.
Inserted == Seeds \cup {r \in Requests : pc[r] = "saved"}
Given == {<<PromotedKey(s), Owner(s)>> : s \in {q \in Ids : Written(q)}}

Rows == /\ bookmarks \subseteq Inserted
        /\ \A b \in Ids : screenshot[b] # NoKey => b \in bookmarks /\ <<screenshot[b], b>> \in Given

Memories(r) == /\ Op(r) \in {"update", "delete"} => Bookmark(r) \in Inserted
               /\ current[r].screenshot # NoKey => <<current[r].screenshot, Bookmark(r)>> \in Given

Repairs == \A k \in cleanup : \/ \E b \in Ids : <<k, b>> \in Given
                              \/ \E r \in Requests : k = QuarantinedKey(r) /\ pc[r] = "saved"

\* The file a request is about to write to a row is there.
FileReady(r) ==
  pc[r] \in {"mark_then_insert", "insert", "write"} /\ key[r] # NoKey => key[r] \in files

FilesInv == /\ Rows /\ Repairs
            /\ \A r \in Requests : Memories(r) /\ FileReady(r)
            /\ DoomedFilesAreUnreferenced
            /\ ReferencedImageSurvives

Sound == TypeOK /\ ControlInv /\ FilesInv

\* A write whose reply is lost makes its request compensate what is stored.
IInv == TypeOK /\ ControlInv /\ ("lost_reply" \notin faults => FilesInv)

\* What a request has read or written stays so: only a request that begins
\* takes a new input and a new snapshot.
Lasting(s) ==
  /\ pc[s] # "idle" => pc'[s] # "idle" /\ input'[s] = input[s] /\ current'[s] = current[s]
  /\ Written(s) => Written(s)'
  /\ pc[s] = "saved" => pc'[s] = "saved"

LEMMA StepLasting == TypeOK /\ [Next]_vars => \A s \in Requests : Lasting(s)
<1>. SUFFICES ASSUME TypeOK, [Next]_vars PROVE \A s \in Requests : Lasting(s)
  OBVIOUS
<1>. USE DEF TypeOK, Lasting, Written, At, Goto, locals
<1>1. ASSUME NEW r \in Requests, BeginCreate(r) PROVE \A s \in Requests : Lasting(s)
  BY <1>1 DEF BeginCreate, Begin
<1>2. ASSUME NEW r \in Requests, BeginUpdate(r) PROVE \A s \in Requests : Lasting(s)
  BY <1>2 DEF BeginUpdate, Begin, Snapshot
<1>3. ASSUME NEW r \in Requests, BeginDelete(r) PROVE \A s \in Requests : Lasting(s)
  BY <1>3 DEF BeginDelete, Begin, Snapshot
<1>4. ASSUME NEW r \in Requests, Promote(r) PROVE \A s \in Requests : Lasting(s)
  BY <1>4 DEF Promote
<1>5. ASSUME NEW r \in Requests, MarkBeforeInsert(r) PROVE \A s \in Requests : Lasting(s)
  BY <1>5 DEF MarkBeforeInsert
<1>6. ASSUME NEW r \in Requests, Insert(r) PROVE \A s \in Requests : Lasting(s)
  BY <1>6 DEF Insert, AfterFailedWrite
<1>7. ASSUME NEW r \in Requests, Compensate(r) PROVE \A s \in Requests : Lasting(s)
  BY <1>7 DEF Compensate
<1>8. ASSUME NEW r \in Requests, FindDraft(r) PROVE \A s \in Requests : Lasting(s)
  BY <1>8 DEF FindDraft
<1>9. ASSUME NEW r \in Requests, Write(r) PROVE \A s \in Requests : Lasting(s)
  BY <1>9 DEF Write, AfterFailedWrite
<1>10. ASSUME NEW r \in Requests, MarkAfterWrite(r) PROVE \A s \in Requests : Lasting(s)
  BY <1>10 DEF MarkAfterWrite
<1>11. ASSUME NEW r \in Requests, RemoveOld(r) PROVE \A s \in Requests : Lasting(s)
  BY <1>11 DEF RemoveOld
<1>12. ASSUME NEW r \in Requests, RecordOld(r) PROVE \A s \in Requests : Lasting(s)
  BY <1>12 DEF RecordOld, Record
<1>13. ASSUME NEW r \in Requests, Quarantine(r) PROVE \A s \in Requests : Lasting(s)
  BY <1>13 DEF Quarantine
<1>14. ASSUME NEW r \in Requests, Delete(r) PROVE \A s \in Requests : Lasting(s)
  BY <1>14 DEF Delete, AfterFailedDelete
<1>15. ASSUME NEW r \in Requests, Restore(r) PROVE \A s \in Requests : Lasting(s)
  BY <1>15 DEF Restore
<1>16. ASSUME NEW r \in Requests, RemoveQuarantined(r) PROVE \A s \in Requests : Lasting(s)
  BY <1>16 DEF RemoveQuarantined
<1>17. ASSUME NEW r \in Requests, RecordQuarantined(r) PROVE \A s \in Requests : Lasting(s)
  BY <1>17 DEF RecordQuarantined, Record
<1>18. ASSUME NEW r \in Requests, Crash(r) PROVE \A s \in Requests : Lasting(s)
  BY <1>18 DEF Crash, InFlight, Ended
<1>19. ASSUME NEW k \in Keys, CleanUp(k) PROVE \A s \in Requests : Lasting(s)
  BY <1>19 DEF CleanUp
<1>20. CASE UNCHANGED vars
  BY <1>20 DEF vars
<1>. QED
  BY <1>1, <1>2, <1>3, <1>4, <1>5, <1>6, <1>7, <1>8, <1>9, <1>10, <1>11, <1>12, <1>13, <1>14, <1>15, <1>16, <1>17, <1>18, <1>19, <1>20 DEF Next, Step

\* A file given to a bookmark was given to it for good, and so was an id.
LEMMA GivenIsLasting ==
  ASSUME TypeOK, [Next]_vars
  PROVE  Given \subseteq Given' /\ Inserted \subseteq Inserted'
<1>1. ASSUME NEW s \in Ids, Written(s)
      PROVE  <<PromotedKey(s), Owner(s)>> \in Given'
  <2>1. Written(s)' /\ Owner(s)' = Owner(s)
    <3>1. CASE s \in Seeds
      BY <3>1 DEF Written, Owner
    <3>2. CASE s \in Requests /\ s \notin Seeds
      <4>1. Lasting(s) /\ pc[s] # "idle"
        BY <1>1, <3>2, StepLasting DEF Written
      <4>. QED
        BY <1>1, <3>2, <4>1 DEF Lasting, Owner, Bookmark
    <3>. QED
      BY <3>1, <3>2 DEF Ids
  <2>. QED
    BY <2>1 DEF Given
<1>2. Inserted \subseteq Inserted'
  BY StepLasting DEF Lasting, Inserted
<1>. QED
  BY <1>1, <1>2 DEF Given

\* A request that has not written its key is the only one that knows it.
LEMMA UnwrittenKeyIsNobodys ==
  ASSUME Sound, NEW r \in Requests, ~Written(r)
  PROVE  /\ \A b : <<PromotedKey(r), b>> \notin Given
         /\ ~Referenced(PromotedKey(r))
         /\ \A q \in Requests : current[q].screenshot # PromotedKey(r)
         /\ PromotedKey(r) \notin cleanup
<1>1. PromotedKey(r) # NoKey
  BY KeysHaveType DEF Ids
<1>2. \A b : <<PromotedKey(r), b>> \notin Given
  BY KeysDiffer DEF Given
<1>3. ~Referenced(PromotedKey(r))
  BY <1>1, <1>2 DEF Sound, TypeOK, FilesInv, Rows, Referenced, Shows
<1>4. \A q \in Requests : current[q].screenshot # PromotedKey(r)
  BY <1>1, <1>2 DEF Sound, FilesInv, Memories
<1>5. PromotedKey(r) \notin cleanup
  BY <1>2, KeysDiffer DEF Sound, FilesInv, Repairs
<1>. QED
  BY <1>2, <1>3, <1>4, <1>5

-----------------------------------------------------------------------------
(* The rows name promoted files that were given to their bookmarks.        *)

\* Only the three database writes change what the rows say of screenshots.
LEMMA OnlyWritesChangeRows ==
  [Next]_vars => \/ UNCHANGED <<bookmarks, screenshot>>
                 \/ \E r \in Requests : Insert(r) \/ Write(r) \/ Delete(r)
  BY DEF Next, Step, vars, database, BeginCreate, BeginUpdate, BeginDelete, Begin, Promote,
         MarkBeforeInsert, Compensate, FindDraft, MarkAfterWrite, RemoveOld, RecordOld, Record,
         Quarantine, Restore, RemoveQuarantined, RecordQuarantined, Crash, CleanUp

LEMMA StepRows ==
  ASSUME Sound, [Next]_vars, "lost_reply" \notin faults, "lost_reply" \notin faults'
  PROVE  Rows'
<1>. USE DEF Sound
<1>1. Given \subseteq Given' /\ Inserted \subseteq Inserted'
  BY GivenIsLasting
<1>3. Rows /\ bookmarks \subseteq Ids
  BY DEF FilesInv, TypeOK
<1>4. CASE UNCHANGED <<bookmarks, screenshot>>
  BY <1>1, <1>3, <1>4 DEF Rows
<1>5. ASSUME NEW r \in Requests, At(r, "insert"), InsertRow(r), Goto(r, "saved"), UNCHANGED <<files, locals>>
      PROVE  Rows'
  <2>1. Op(r) = "create" /\ Bookmark(r) = r /\ (key[r] = NoKey \/ key[r] = PromotedKey(r)) /\ pc'[r] = "saved"
    BY <1>5 DEF TypeOK, ControlInv, Control, At, Goto
  <2>2. r \in Ids /\ r \notin Seeds /\ Bookmark(r)' = r
    BY <1>5, <2>1, ConstantsAssumption DEF Ids, locals, Bookmark
  <2>3. <<PromotedKey(r), r>> \in Given'
    BY <2>1, <2>2 DEF Given, Written, Owner
  <2>4. bookmarks' = bookmarks \cup {r} /\ screenshot' = [screenshot EXCEPT ![r] = key[r]] /\ r \in Inserted'
    BY <1>5, <2>1 DEF InsertRow, Inserted
  <2>. QED
    BY <1>1, <1>3, <2>1, <2>2, <2>3, <2>4 DEF Rows, TypeOK
<1>6. ASSUME NEW r \in Requests, At(r, "write"), UpdateRow(r), pc'[r] \in {"mark", "remove_old"}, UNCHANGED <<files, locals>>
      PROVE  Rows'
  <2>1. key[r] = NoKey \/ key[r] = PromotedKey(r)
    BY <1>6 DEF ControlInv, Control, At
  <2>2. r \in Ids /\ r \notin Seeds /\ Bookmark(r)' = Bookmark(r)
    BY <1>6, ConstantsAssumption DEF Ids, locals, Bookmark
  <2>3. <<PromotedKey(r), Bookmark(r)>> \in Given'
    BY <1>6, <2>2 DEF Given, Written, Owner
  <2>4. /\ bookmarks' = bookmarks /\ Bookmark(r) \in bookmarks
        /\ screenshot' = [screenshot EXCEPT ![Bookmark(r)] = key[r]] \/ screenshot' = screenshot
    BY <1>6 DEF UpdateRow
  <2>. QED
    BY <1>1, <1>3, <2>1, <2>3, <2>4 DEF Rows, TypeOK
<1>7. ASSUME NEW r \in Requests, DeleteRow(r)
      PROVE  Rows'
  BY <1>1, <1>3, <1>7 DEF Rows, DeleteRow, TypeOK
<1>8. \/ UNCHANGED <<bookmarks, screenshot>>
      \/ \E r \in Requests : Insert(r) \/ Write(r) \/ Delete(r)
  BY OnlyWritesChangeRows
<1>9. ASSUME NEW r \in Requests, Insert(r) PROVE Rows'
  BY <1>4, <1>5, <1>9 DEF Insert, Fault, database
<1>10. ASSUME NEW r \in Requests, Write(r) PROVE Rows'
  <2>1. \/ UNCHANGED <<bookmarks, screenshot>>
        \/ UpdateRow(r) /\ pc'[r] \in {"mark", "remove_old"}
    BY <1>10 DEF Write, Fault, database, Goto, TypeOK
  <2>. QED
    BY <1>4, <1>6, <1>10, <2>1 DEF Write
<1>11. ASSUME NEW r \in Requests, Delete(r) PROVE Rows'
  BY <1>4, <1>7, <1>11 DEF Delete, Fault, database
<1>. QED
  BY <1>4, <1>8, <1>9, <1>10, <1>11

\* A request remembers only files that were given to its bookmark.
LEMMA StepMemories ==
  ASSUME Sound, [Next]_vars, NEW r \in Requests
  PROVE  Memories(r)'
<1>. USE DEF Sound
<1>1. Given \subseteq Given' /\ Inserted \subseteq Inserted'
  BY GivenIsLasting
<1>3. Memories(r) /\ Control(r) /\ Rows
  BY DEF FilesInv, ControlInv
<1>4. CASE UNCHANGED <<input[r], current[r]>>
  BY <1>1, <1>3, <1>4 DEF Memories, Control, Op, Bookmark
<1>5. ASSUME NEW b \in bookmarks, Snapshot(r, b),
             NEW op, NEW u, NEW d, NEW label, Begin(r, op, b, u, d, label)
      PROVE  Memories(r)'
  <2>1. Bookmark(r)' = b /\ current'[r].screenshot = screenshot[b] /\ b \in Ids
    BY <1>5 DEF Snapshot, Begin, Bookmark, TypeOK
  <2>2. b \in Inserted' /\ (screenshot[b] # NoKey => <<screenshot[b], b>> \in Given')
    BY <1>1, <1>3, <2>1 DEF Rows
  <2>. QED
    BY <2>1, <2>2 DEF Memories
<1>6. CASE BeginCreate(r)
  <2>1. Op(r)' = "create" /\ current'[r].screenshot = NoKey
    BY <1>3, <1>6 DEF BeginCreate, Begin, At, Op, Control, TypeOK
  <2>. QED
    BY <2>1 DEF Memories
<1>7. CASE BeginUpdate(r)
  BY <1>5, <1>7 DEF BeginUpdate
<1>8. CASE BeginDelete(r)
  BY <1>5, <1>8 DEF BeginDelete
<1>9. pc[r] # "idle" => UNCHANGED <<input[r], current[r]>>
  BY StepLasting DEF Lasting
<1>10. pc[r] = "idle" => UNCHANGED <<input[r], current[r]>> \/ BeginCreate(r) \/ BeginUpdate(r) \/ BeginDelete(r)
  BY DEF Next, Step, vars, locals, TypeOK, BeginCreate, BeginUpdate, BeginDelete, Begin, Snapshot, Promote,
         MarkBeforeInsert, Insert, Compensate, FindDraft, Write, MarkAfterWrite, RemoveOld, RecordOld, Record,
         Quarantine, Delete, Restore, RemoveQuarantined, RecordQuarantined, Crash, CleanUp
<1>. QED
  BY <1>4, <1>6, <1>7, <1>8, <1>9, <1>10

\* A cleanup record names a file that was given up or a quarantined file.
LEMMA StepRepairs ==
  ASSUME Sound, [Next]_vars
  PROVE  Repairs'
<1>. USE DEF Sound
<1>1. Given \subseteq Given' /\ Inserted \subseteq Inserted'
  BY GivenIsLasting
<1>2. \A r \in Requests : pc[r] = "saved" => pc'[r] = "saved"
  BY StepLasting DEF Lasting
<1>3. Repairs
  BY DEF FilesInv
<1>4. CASE cleanup' \subseteq cleanup
  BY <1>1, <1>2, <1>3, <1>4 DEF Repairs
<1>5. ASSUME NEW r \in Requests, RecordOld(r) PROVE Repairs'
  <2>1. <<current[r].screenshot, Bookmark(r)>> \in Given /\ Bookmark(r) \in Ids
    BY <1>1, <1>5 DEF RecordOld, Record, At, ControlInv, Control, FilesInv, Memories
  <2>. QED
    BY <1>1, <1>2, <1>3, <1>5, <2>1 DEF Repairs, RecordOld, Record
<1>6. ASSUME NEW r \in Requests, RecordQuarantined(r) PROVE Repairs'
  <2>1. key[r] = QuarantinedKey(r) /\ pc'[r] = "saved"
    BY <1>6 DEF RecordQuarantined, Record, At, Goto, TypeOK, ControlInv, Control
  <2>. QED
    BY <1>1, <1>2, <1>3, <1>6, <2>1 DEF Repairs, RecordQuarantined, Record
<1>7. \/ cleanup' \subseteq cleanup
      \/ \E r \in Requests : RecordOld(r) \/ RecordQuarantined(r)
  BY DEF Next, Step, vars, database, BeginCreate, BeginUpdate, BeginDelete, Begin, Promote,
         MarkBeforeInsert, Insert, InsertRow, Compensate, FindDraft, Write, UpdateRow, MarkAfterWrite,
         RemoveOld, Quarantine, Delete, DeleteRow, Restore, RemoveQuarantined, Crash, CleanUp
<1>. QED
  BY <1>4, <1>5, <1>6, <1>7

-----------------------------------------------------------------------------
(* What is due to be removed belongs to no row.                            *)

\* A file is given to one bookmark only.
LEMMA GivenOnce ==
  ASSUME NEW k, NEW b, NEW c
  PROVE  /\ <<k, b>> \in Given /\ <<k, c>> \in Given => b = c
         /\ <<k, b>> \in Given' /\ <<k, c>> \in Given' => b = c
  BY KeysDiffer DEF Given

\* A row comes to name a file only when a request writes the key it drew.
LEMMA NewReference ==
  ASSUME Sound, [Next]_vars, "lost_reply" \notin faults, "lost_reply" \notin faults', NEW k, Referenced(k)'
  PROVE  \/ Referenced(k)
         \/ \E r \in Requests : /\ pc[r] \in {"insert", "write"} /\ k = key[r] /\ k = PromotedKey(r)
                                /\ pc'[r] \in {"saved", "mark", "remove_old"}
<1>. USE DEF Sound, Referenced, Shows
<1>1. CASE UNCHANGED <<bookmarks, screenshot>>
  BY <1>1
<1>2. ASSUME NEW r \in Requests, Insert(r) PROVE UNCHANGED <<bookmarks, screenshot>> \/ (InsertRow(r) /\ pc'[r] = "saved" /\ pc[r] = "insert")
  BY <1>2 DEF Insert, Fault, database, Goto, At, TypeOK
<1>3. ASSUME NEW r \in Requests, Write(r)
      PROVE  UNCHANGED <<bookmarks, screenshot>> \/ (UpdateRow(r) /\ pc'[r] \in {"mark", "remove_old"} /\ pc[r] = "write")
  BY <1>3 DEF Write, Fault, database, Goto, At, TypeOK
<1>4. ASSUME NEW r \in Requests, Delete(r) PROVE UNCHANGED <<bookmarks, screenshot>> \/ DeleteRow(r)
  BY <1>4 DEF Delete, Fault, database
<1>5. ASSUME NEW r \in Requests, pc[r] \in {"insert", "write"} PROVE key[r] = NoKey \/ key[r] = PromotedKey(r)
  BY <1>5 DEF ControlInv, Control
<1>6. ASSUME NEW r \in Requests, InsertRow(r), pc'[r] = "saved", pc[r] = "insert"
      PROVE  Referenced(k) \/ (k = key[r] /\ k = PromotedKey(r))
  BY <1>5, <1>6 DEF InsertRow, FilesInv, Rows, TypeOK, Ids
<1>7. ASSUME NEW r \in Requests, UpdateRow(r), pc[r] = "write"
      PROVE  Referenced(k) \/ (k = key[r] /\ k = PromotedKey(r))
  BY <1>5, <1>7 DEF UpdateRow, TypeOK
<1>8. ASSUME NEW r \in Requests, DeleteRow(r)
      PROVE  Referenced(k)
  BY <1>8 DEF DeleteRow, TypeOK
<1>9. \/ UNCHANGED <<bookmarks, screenshot>>
      \/ \E r \in Requests : Insert(r) \/ Write(r) \/ Delete(r)
  BY OnlyWritesChangeRows
<1>. QED
  BY <1>1, <1>2, <1>3, <1>4, <1>6, <1>7, <1>8, <1>9

\* A file becomes due to be removed when the write of its request failed, when
\* another file has replaced it, or when it is in quarantine.
LEMMA NewlyDoomed ==
  ASSUME Sound, [Next]_vars, "lost_reply" \notin faults, "lost_reply" \notin faults', NEW k, Doomed(k)'
  PROVE  \/ Doomed(k)
         \/ \E r \in Requests : k = QuarantinedKey(r)
         \/ \E r \in Requests : pc[r] \in {"insert", "write"} /\ pc'[r] = "compensate" /\ k = PromotedKey(r)
         \/ \E r \in Requests : /\ pc[r] = "write" /\ pc'[r] \in {"mark", "remove_old"} /\ UpdateRow(r)
                                /\ Replaces(r) /\ k = current[r].screenshot
<1>. DEFINE Goal == \/ Doomed(k)
                    \/ \E r \in Requests : k = QuarantinedKey(r)
                    \/ \E r \in Requests : pc[r] \in {"insert", "write"} /\ pc'[r] = "compensate" /\ k = PromotedKey(r)
                    \/ \E r \in Requests : /\ pc[r] = "write" /\ pc'[r] \in {"mark", "remove_old"} /\ UpdateRow(r)
                                           /\ Replaces(r) /\ k = current[r].screenshot
<1>. USE DEF Sound, Doomed, Replaces, Capture, TypeOK, At, Goto, database, locals
<1>1. ASSUME NEW r \in Requests, BeginCreate(r) PROVE Goal
  BY <1>1 DEF BeginCreate, Begin
<1>2. ASSUME NEW r \in Requests, BeginUpdate(r) PROVE Goal
  BY <1>2 DEF BeginUpdate, Begin, Snapshot
<1>3. ASSUME NEW r \in Requests, BeginDelete(r) PROVE Goal
  BY <1>3 DEF BeginDelete, Begin, Snapshot
<1>4. ASSUME NEW r \in Requests, Promote(r) PROVE Goal
  BY <1>4 DEF Promote
<1>5. ASSUME NEW r \in Requests, MarkBeforeInsert(r) PROVE Goal
  BY <1>5 DEF MarkBeforeInsert
<1>6. ASSUME NEW r \in Requests, Insert(r) PROVE Goal
  BY <1>6 DEF Insert, AfterFailedWrite, InsertRow, Fault, ControlInv, Control
<1>7. ASSUME NEW r \in Requests, Compensate(r) PROVE Goal
  BY <1>7 DEF Compensate
<1>8. ASSUME NEW r \in Requests, FindDraft(r) PROVE Goal
  BY <1>8 DEF FindDraft
<1>9. ASSUME NEW r \in Requests, Write(r) PROVE Goal
  BY <1>9 DEF Write, AfterFailedWrite, UpdateRow, Fault, ControlInv, Control
<1>10. ASSUME NEW r \in Requests, MarkAfterWrite(r) PROVE Goal
  BY <1>10 DEF MarkAfterWrite
<1>11. ASSUME NEW r \in Requests, RemoveOld(r) PROVE Goal
  BY <1>11 DEF RemoveOld
<1>12. ASSUME NEW r \in Requests, RecordOld(r) PROVE Goal
  BY <1>12 DEF RecordOld, Record, ControlInv, Control
<1>13. ASSUME NEW r \in Requests, Quarantine(r) PROVE Goal
  BY <1>13 DEF Quarantine
<1>14. ASSUME NEW r \in Requests, Delete(r) PROVE Goal
  BY <1>14 DEF Delete, AfterFailedDelete, DeleteRow, Fault, ControlInv, Control
<1>15. ASSUME NEW r \in Requests, Restore(r) PROVE Goal
  BY <1>15 DEF Restore
<1>16. ASSUME NEW r \in Requests, RemoveQuarantined(r) PROVE Goal
  BY <1>16 DEF RemoveQuarantined
<1>17. ASSUME NEW r \in Requests, RecordQuarantined(r) PROVE Goal
  BY <1>17 DEF RecordQuarantined, Record, ControlInv, Control
<1>18. ASSUME NEW r \in Requests, Crash(r) PROVE Goal
  BY <1>18 DEF Crash
<1>19. ASSUME NEW c \in Keys, CleanUp(c) PROVE Goal
  BY <1>19 DEF CleanUp
<1>20. CASE UNCHANGED vars
  BY <1>20 DEF vars
<1>. QED
  BY <1>1, <1>2, <1>3, <1>4, <1>5, <1>6, <1>7, <1>8, <1>9, <1>10, <1>11, <1>12, <1>13, <1>14, <1>15, <1>16, <1>17, <1>18, <1>19, <1>20 DEF Next, Step

LEMMA UnwrittenKeyIsNotDoomed ==
  ASSUME Sound, NEW r \in Requests, ~Written(r), pc[r] # "compensate"
  PROVE  ~Doomed(PromotedKey(r))
<1>1. PromotedKey(r) \notin cleanup /\ \A q \in Requests : current[q].screenshot # PromotedKey(r)
  BY UnwrittenKeyIsNobodys
<1>2. ASSUME NEW q \in Requests, pc[q] \in {"compensate", "remove_quarantined", "record_quarantined"}
      PROVE  key[q] # PromotedKey(r)
  BY <1>2, KeysDiffer, KeysHaveType DEF Sound, ControlInv, Control, Ids
<1>. QED
  BY <1>1, <1>2 DEF Doomed

LEMMA StepDoomed ==
  ASSUME Sound, [Next]_vars, "lost_reply" \notin faults, "lost_reply" \notin faults'
  PROVE  DoomedFilesAreUnreferenced'
<1>. SUFFICES ASSUME NEW k \in Keys, Doomed(k)', Referenced(k)'
              PROVE  FALSE
  BY DEF DoomedFilesAreUnreferenced
<1>1. ~(Doomed(k) /\ Referenced(k))
  BY DEF Sound, FilesInv, DoomedFilesAreUnreferenced
<1>2. Rows' /\ Rows
  BY StepRows DEF Sound, FilesInv
<1>3. PICK b \in Ids : screenshot'[b] = k /\ <<k, b>> \in Given'
  BY <1>2 DEF Referenced, Shows, Rows, Inserted, Ids
<1>4. ASSUME NEW r \in Requests, pc[r] \in {"insert", "write"}
      PROVE  ~Written(r)
  BY <1>4, ConstantsAssumption DEF Written
<1>5. ASSUME NEW r \in Requests, pc[r] \in {"insert", "write"}, k = PromotedKey(r)
      PROVE  ~Doomed(k) /\ ~Referenced(k)
  BY <1>4, <1>5, UnwrittenKeyIsNobodys, UnwrittenKeyIsNotDoomed
<1>6. ASSUME NEW r \in Requests, k = QuarantinedKey(r)
      PROVE  FALSE
  BY <1>3, <1>6, KeysDiffer DEF Given
<1>7. ASSUME NEW r \in Requests, pc[r] = "write", UpdateRow(r), Replaces(r), k = current[r].screenshot
      PROVE  FALSE
  <2>1. <<k, Bookmark(r)>> \in Given'
    BY <1>7, KeysHaveType, GivenIsLasting DEF Sound, FilesInv, Memories
  <2>2. b = Bookmark(r)
    BY <1>3, <2>1, GivenOnce
  <2>3. k = key[r]
    BY <1>3, <1>7, <2>2 DEF UpdateRow, Sound, TypeOK
  <2>4. k = PromotedKey(r)
    BY <1>7, <2>3, KeysHaveType DEF Sound, ControlInv, Control
  <2>. QED
    BY <1>4, <1>7, <2>4, UnwrittenKeyIsNobodys
<1>. QED
  BY <1>1, <1>5, <1>6, <1>7, NewReference, NewlyDoomed, KeysDiffer

-----------------------------------------------------------------------------
(* Files that are shown stay.                                              *)

\* A file goes when it is promoted, when it was due to be removed, when a
\* delete hides it, and when a delete that failed puts it back.
LEMMA RemovedFiles ==
  ASSUME Sound, [Next]_vars, NEW k, k \in files, k \notin files'
  PROVE  \/ \E d \in Drafts \cup {NoDraft} : k = StagedKey(d)
         \/ Doomed(k)
         \/ \E r \in Requests : /\ pc[r] = "quarantine" /\ k = current[r].screenshot
                                /\ pc'[r] = "delete" /\ key'[r] = QuarantinedKey(r)
                                /\ QuarantinedKey(r) \in files'
         \/ \E r \in Requests : pc[r] = "restore" /\ k = key[r] /\ current[r].screenshot \in files'
<1>. DEFINE Goal == \/ \E d \in Drafts \cup {NoDraft} : k = StagedKey(d)
                    \/ Doomed(k)
                    \/ \E r \in Requests : /\ pc[r] = "quarantine" /\ k = current[r].screenshot
                                           /\ pc'[r] = "delete" /\ key'[r] = QuarantinedKey(r)
                                           /\ QuarantinedKey(r) \in files'
                    \/ \E r \in Requests : pc[r] = "restore" /\ k = key[r] /\ current[r].screenshot \in files'
<1>1. ASSUME NEW r \in Requests, Promote(r) PROVE Goal
  BY <1>1 DEF Promote, MoveFile, MoveFails, Rename, Capture, Sound, TypeOK
<1>2. ASSUME NEW r \in Requests, Compensate(r) PROVE Goal
  BY <1>2 DEF Compensate, RemoveFile, RemoveFails, Unlink, At, Doomed
<1>3. ASSUME NEW r \in Requests, RemoveOld(r) PROVE Goal
  BY <1>3 DEF RemoveOld, RemoveFile, RemoveFails, Unlink, At, Doomed
<1>4. ASSUME NEW r \in Requests, Quarantine(r) PROVE Goal
  BY <1>4 DEF Quarantine, MoveFile, MoveFails, Rename, At, Goto, Sound, TypeOK
<1>5. ASSUME NEW r \in Requests, Restore(r) PROVE Goal
  BY <1>5 DEF Restore, MoveFile, MoveFails, Rename, At
<1>6. ASSUME NEW r \in Requests, RemoveQuarantined(r) PROVE Goal
  BY <1>6 DEF RemoveQuarantined, RemoveFile, RemoveFails, Unlink, At, Doomed
<1>7. ASSUME NEW c \in Keys, CleanUp(c) PROVE Goal
  BY <1>7 DEF CleanUp, Unlink, Doomed
<1>8. \/ files' = files
      \/ \E r \in Requests : Promote(r) \/ Compensate(r) \/ RemoveOld(r) \/ Quarantine(r) \/ Restore(r) \/ RemoveQuarantined(r)
      \/ \E c \in Keys : CleanUp(c)
  BY DEF Next, Step, vars, BeginCreate, BeginUpdate, BeginDelete, Begin, MarkBeforeInsert, Insert,
         FindDraft, Write, MarkAfterWrite, RecordOld, Record, Delete, RecordQuarantined, Crash
<1>. QED
  BY <1>1, <1>2, <1>3, <1>4, <1>5, <1>6, <1>7, <1>8

\* What a delete keeps in quarantine, or is about to put back, lies there
\* under a key that no row and no request remembers.
LEMMA QuarantinedIsNotGiven ==
  ASSUME Sound, NEW q \in Requests
  PROVE  /\ \A b : <<QuarantinedKey(q), b>> \notin Given
         /\ \A r \in Requests : current[r].screenshot # QuarantinedKey(q)
<1>1. \A b : <<QuarantinedKey(q), b>> \notin Given
  BY KeysDiffer DEF Given
<1>. QED
  BY <1>1, KeysHaveType DEF Sound, FilesInv, Memories

\* The promoted file of a request stays until the request has written its key.
LEMMA UnwrittenFileStays ==
  ASSUME Sound, [Next]_vars, NEW r \in Requests, PromotedKey(r) \in files,
         pc[r] \in {"mark_then_insert", "insert", "write"}
  PROVE  PromotedKey(r) \in files'
<1>1. ~Written(r)
  BY ConstantsAssumption DEF Written
<1>2. ~Doomed(PromotedKey(r)) /\ \A q \in Requests : current[q].screenshot # PromotedKey(r)
  BY <1>1, UnwrittenKeyIsNobodys, UnwrittenKeyIsNotDoomed
<1>3. \A q \in Requests : pc[q] = "restore" => key[q] # PromotedKey(r)
  BY KeysDiffer DEF Sound, ControlInv, Control
<1>. QED
  BY <1>2, <1>3, RemovedFiles, KeysDiffer

LEMMA StepFileReady ==
  ASSUME Sound, [Next]_vars, NEW r \in Requests
  PROVE  FileReady(r)'
<1>. DEFINE L == {"mark_then_insert", "insert", "write"}
<1>. SUFFICES ASSUME pc'[r] \in L, key'[r] # NoKey PROVE key'[r] \in files'
  BY DEF FileReady
<1>1. (pc[r] \in L /\ key'[r] = key[r]) \/ key'[r] \in files'
  <2>. USE DEF Sound, TypeOK, ControlInv, Control, At, Goto, locals
  <2>1. ASSUME NEW q \in Requests, BeginCreate(q) PROVE (pc[r] \in L /\ key'[r] = key[r]) \/ key'[r] \in files'
    BY <2>1 DEF BeginCreate, Begin
  <2>2. ASSUME NEW q \in Requests, BeginUpdate(q) PROVE (pc[r] \in L /\ key'[r] = key[r]) \/ key'[r] \in files'
    BY <2>2 DEF BeginUpdate, Begin
  <2>3. ASSUME NEW q \in Requests, BeginDelete(q) PROVE (pc[r] \in L /\ key'[r] = key[r]) \/ key'[r] \in files'
    BY <2>3 DEF BeginDelete, Begin
  <2>4. ASSUME NEW q \in Requests, Promote(q) PROVE (pc[r] \in L /\ key'[r] = key[r]) \/ key'[r] \in files'
    BY <2>4 DEF Promote, MoveFile, MoveFails, Rename
  <2>5. ASSUME NEW q \in Requests, MarkBeforeInsert(q) PROVE (pc[r] \in L /\ key'[r] = key[r]) \/ key'[r] \in files'
    BY <2>5 DEF MarkBeforeInsert
  <2>6. ASSUME NEW q \in Requests, Insert(q) PROVE (pc[r] \in L /\ key'[r] = key[r]) \/ key'[r] \in files'
    BY <2>6 DEF Insert, AfterFailedWrite
  <2>7. ASSUME NEW q \in Requests, Compensate(q) PROVE (pc[r] \in L /\ key'[r] = key[r]) \/ key'[r] \in files'
    BY <2>7 DEF Compensate
  <2>8. ASSUME NEW q \in Requests, FindDraft(q) PROVE (pc[r] \in L /\ key'[r] = key[r]) \/ key'[r] \in files'
    BY <2>8 DEF FindDraft
  <2>9. ASSUME NEW q \in Requests, Write(q) PROVE (pc[r] \in L /\ key'[r] = key[r]) \/ key'[r] \in files'
    BY <2>9 DEF Write, AfterFailedWrite
  <2>10. ASSUME NEW q \in Requests, MarkAfterWrite(q) PROVE (pc[r] \in L /\ key'[r] = key[r]) \/ key'[r] \in files'
    BY <2>10 DEF MarkAfterWrite
  <2>11. ASSUME NEW q \in Requests, RemoveOld(q) PROVE (pc[r] \in L /\ key'[r] = key[r]) \/ key'[r] \in files'
    BY <2>11 DEF RemoveOld
  <2>12. ASSUME NEW q \in Requests, RecordOld(q) PROVE (pc[r] \in L /\ key'[r] = key[r]) \/ key'[r] \in files'
    BY <2>12 DEF RecordOld, Record
  <2>13. ASSUME NEW q \in Requests, Quarantine(q) PROVE (pc[r] \in L /\ key'[r] = key[r]) \/ key'[r] \in files'
    BY <2>13 DEF Quarantine
  <2>14. ASSUME NEW q \in Requests, Delete(q) PROVE (pc[r] \in L /\ key'[r] = key[r]) \/ key'[r] \in files'
    BY <2>14 DEF Delete, AfterFailedDelete
  <2>15. ASSUME NEW q \in Requests, Restore(q) PROVE (pc[r] \in L /\ key'[r] = key[r]) \/ key'[r] \in files'
    BY <2>15 DEF Restore
  <2>16. ASSUME NEW q \in Requests, RemoveQuarantined(q) PROVE (pc[r] \in L /\ key'[r] = key[r]) \/ key'[r] \in files'
    BY <2>16 DEF RemoveQuarantined
  <2>17. ASSUME NEW q \in Requests, RecordQuarantined(q) PROVE (pc[r] \in L /\ key'[r] = key[r]) \/ key'[r] \in files'
    BY <2>17 DEF RecordQuarantined, Record
  <2>18. ASSUME NEW q \in Requests, Crash(q) PROVE (pc[r] \in L /\ key'[r] = key[r]) \/ key'[r] \in files'
    BY <2>18 DEF Crash
  <2>19. ASSUME NEW c \in Keys, CleanUp(c) PROVE pc[r] \in L /\ key'[r] = key[r]
    BY <2>19 DEF CleanUp
  <2>20. CASE UNCHANGED vars
    BY <2>20 DEF vars
  <2>. QED
    BY <2>1, <2>2, <2>3, <2>4, <2>5, <2>6, <2>7, <2>8, <2>9, <2>10, <2>11, <2>12, <2>13, <2>14, <2>15, <2>16, <2>17, <2>18, <2>19, <2>20 DEF Next, Step
<1>2. CASE pc[r] \in L /\ key'[r] = key[r]
  <2>1. key[r] = PromotedKey(r) /\ key[r] \in files
    BY <1>2 DEF Sound, ControlInv, Control, FilesInv, FileReady
  <2>. QED
    BY <1>2, <2>1, UnwrittenFileStays
<1>. QED
  BY <1>1, <1>2

\* A delete that hides a file goes on hiding it, puts it back, or has deleted
\* the row.
LEMMA HidingStep ==
  ASSUME Sound, [Next]_vars, NEW r \in Requests, NEW k, HiddenBy(r, k)
  PROVE  /\ Op(r)' = "delete" /\ current'[r].screenshot = k /\ key'[r] = QuarantinedKey(r)
         /\ pc'[r] \in HidingLabels' \/ k \in files' \/ DeleteRow(r)
<1>1. /\ pc[r] \in HidingLabels \cap {"delete", "restore", "crashed", "refused"}
      /\ Op(r) = "delete" /\ current[r].screenshot = k /\ key[r] = QuarantinedKey(r) /\ key[r] \in files
      /\ key[r] # NoKey
  BY KeysHaveType DEF HiddenBy, HidingLabels
<1>2. pc[r] # "idle"
  BY <1>1
<1>3. Op(r)' = "delete" /\ current'[r].screenshot = k
  BY <1>1, <1>2, StepLasting DEF Sound, Lasting, Op
<1>4. key'[r] = key[r]
  BY <1>1, <1>2 DEF Next, Step, vars, locals, Sound, TypeOK, At, BeginCreate, BeginUpdate, BeginDelete, Begin,
     Promote, MarkBeforeInsert, Insert, Compensate, FindDraft, Write, MarkAfterWrite, RemoveOld, RecordOld, Record,
     Quarantine, Delete, Restore, RemoveQuarantined, RecordQuarantined, Crash, CleanUp
<1>5. CASE pc'[r] = pc[r]
  <2>1. HidingLabels \subseteq HidingLabels'
    BY StepFaults DEF HidingLabels
  <2>. QED
    BY <1>1, <1>3, <1>4, <1>5, <2>1
<1>6. CASE Delete(r)
  <2>1. pc'[r] = "restore" \/ DeleteRow(r)
    BY <1>1, <1>6 DEF Delete, AfterFailedDelete, Goto, At, Sound, TypeOK
  <2>. QED
    BY <1>1, <1>3, <1>4, <2>1 DEF HidingLabels
<1>7. CASE Restore(r)
  <2>1. pc'[r] = "refused" /\ (k \in files' \/ "restore" \in faults')
    BY <1>1, <1>7 DEF Restore, MoveFile, MoveFails, CanRename, Rename, Fault, Goto, At, Sound, TypeOK
  <2>. QED
    BY <1>1, <1>3, <1>4, <2>1 DEF HidingLabels
<1>8. CASE Crash(r)
  <2>1. pc'[r] = "crashed" /\ "crash" \in faults'
    BY <1>8 DEF Crash, Fault, Goto, Sound, TypeOK
  <2>. QED
    BY <1>1, <1>3, <1>4, <2>1 DEF HidingLabels
<1>9. pc'[r] = pc[r] \/ Delete(r) \/ Restore(r) \/ Crash(r)
  BY <1>1, <1>2 DEF Next, Step, vars, Sound, TypeOK, At, Goto, BeginCreate, BeginUpdate, BeginDelete, Begin,
     Promote, MarkBeforeInsert, Insert, AfterFailedWrite, Compensate, FindDraft, Write, MarkAfterWrite, RemoveOld,
     RecordOld, Record, Quarantine, Delete, AfterFailedDelete, Restore, RemoveQuarantined, RecordQuarantined, Crash, CleanUp
<1>. QED
  BY <1>5, <1>6, <1>7, <1>8, <1>9

LEMMA StepSurvives ==
  ASSUME Sound, [Next]_vars, "lost_reply" \notin faults, "lost_reply" \notin faults'
  PROVE  ReferencedImageSurvives'
<1>. SUFFICES ASSUME NEW b \in bookmarks', NEW k, k = screenshot'[b], k # NoKey
              PROVE  k \in files' \/ \E r \in Requests : HiddenBy(r, k)'
  BY DEF ReferencedImageSurvives
<1>1. Referenced(k)' /\ b \in Ids /\ <<k, b>> \in Given'
  BY StepRows DEF Referenced, Shows, Rows, Inserted, Ids
<1>2. PICK s \in Ids : k = PromotedKey(s)
  BY <1>1 DEF Given
<1>3. ASSUME NEW r \in Requests, pc[r] \in {"insert", "write"}, k = key[r], k = PromotedKey(r)
      PROVE  k \in files'
  BY <1>3, UnwrittenFileStays DEF Sound, FilesInv, FileReady
<1>4. CASE Referenced(k) /\ k \in files
  <2>1. ~Doomed(k)
    BY <1>2, <1>4, KeysHaveType DEF Sound, FilesInv, DoomedFilesAreUnreferenced
  <2>2. ASSUME NEW r \in Requests, pc[r] = "quarantine", k = current[r].screenshot, pc'[r] = "delete",
               key'[r] = QuarantinedKey(r), QuarantinedKey(r) \in files'
        PROVE  HiddenBy(r, k)'
    <3>1. Op(r) = "delete"
      BY <2>2 DEF Sound, ControlInv, Control
    <3>2. Op(r)' = "delete" /\ current'[r].screenshot = k
      BY <2>2, <3>1, StepLasting DEF Sound, Lasting, Op
    <3>. QED
      BY <2>2, <3>2 DEF HiddenBy, HidingLabels
  <2>3. \A r \in Requests : pc[r] = "restore" => key[r] # k
    BY <1>2, KeysDiffer DEF Sound, ControlInv, Control
  <2>. QED
    BY <1>2, <1>4, <2>1, <2>2, <2>3, RemovedFiles, KeysDiffer
<1>5. ASSUME NEW r \in Requests, HiddenBy(r, k) PROVE k \in files' \/ HiddenBy(r, k)'
  <2>1. /\ Op(r)' = "delete" /\ current'[r].screenshot = k /\ key'[r] = QuarantinedKey(r)
        /\ pc'[r] \in HidingLabels' \/ k \in files' \/ DeleteRow(r)
    BY <1>5, HidingStep
  <2>2. ~DeleteRow(r)
    <3>1. <<k, Bookmark(r)>> \in Given'
      BY <1>5, KeysHaveType, <1>2, GivenIsLasting DEF HiddenBy, Sound, FilesInv, Memories
    <3>2. b = Bookmark(r)
      BY <1>1, <3>1, GivenOnce
    <3>. QED
      BY <3>2 DEF DeleteRow
  <2>3. QuarantinedKey(r) \in files' \/ k \in files'
    <3>1. /\ pc[r] \in {"delete", "restore", "crashed", "refused"} /\ QuarantinedKey(r) \in files
          /\ current[r].screenshot = k /\ key[r] = QuarantinedKey(r)
      BY <1>5 DEF HiddenBy, HidingLabels
    <3>2. \A c : <<QuarantinedKey(r), c>> \notin Given
      BY QuarantinedIsNotGiven
    <3>3. \A q \in Requests : current[q].screenshot # QuarantinedKey(r)
      BY QuarantinedIsNotGiven
    <3>4. QuarantinedKey(r) \notin cleanup
      BY <3>1, <3>2, KeysDiffer DEF Sound, FilesInv, Repairs
    <3>5. \A q \in Requests : key[q] = QuarantinedKey(r) => q = r
      BY KeysDiffer, KeysHaveType DEF Sound, ControlInv, Control, Ids
    <3>6. ~Doomed(QuarantinedKey(r))
      BY <3>1, <3>3, <3>4, <3>5 DEF Doomed
    <3>. QED
      BY <3>1, <3>3, <3>5, <3>6, RemovedFiles, KeysDiffer
  <2>. QED
    BY <2>1, <2>2, <2>3 DEF HiddenBy, HidingLabels
<1>6. Referenced(k) => k \in files \/ \E r \in Requests : HiddenBy(r, k)
  BY DEF Sound, FilesInv, ReferencedImageSurvives, Referenced, Shows
<1>. QED
  BY <1>1, <1>3, <1>4, <1>5, <1>6, NewReference

-----------------------------------------------------------------------------
LEMMA InitInvariant == Init => IInv
<1>. SUFFICES ASSUME Init PROVE IInv
  OBVIOUS
<1>1. TypeOK /\ ControlInv
  BY InitTypes
<1>2. ASSUME NEW b \in Seeds
      PROVE  screenshot[b] = PromotedKey(b) /\ <<screenshot[b], b>> \in Given /\ PromotedKey(b) \in files
  BY <1>2 DEF Init, Given, Written, Owner, Ids
<1>3. Rows
  BY <1>2 DEF Init, Rows, Inserted, Ids
<1>4. Repairs
  BY DEF Init, Repairs
<1>5. \A r \in Requests : Memories(r) /\ FileReady(r)
  BY <1>1 DEF Init, NoInput, Memories, FileReady, Op
<1>6. DoomedFilesAreUnreferenced
  BY DEF Init, DoomedFilesAreUnreferenced, Doomed
<1>7. ReferencedImageSurvives
  BY <1>2 DEF Init, ReferencedImageSurvives
<1>. QED
  BY <1>1, <1>3, <1>4, <1>5, <1>6, <1>7 DEF IInv, FilesInv

LEMMA StepInvariant == IInv /\ [Next]_vars => IInv'
<1>. SUFFICES ASSUME IInv, [Next]_vars PROVE IInv'
  OBVIOUS
<1>1. TypeOK' /\ ControlInv'
  BY StepTypes, StepControl DEF IInv
<1>2. ASSUME "lost_reply" \notin faults' PROVE FilesInv'
  <2>1. "lost_reply" \notin faults
    BY <1>2, StepFaults
  <2>2. Sound
    BY <2>1 DEF IInv, Sound
  <2>3. Rows' /\ Repairs'
    BY <1>2, <2>1, <2>2, StepRows, StepRepairs
  <2>4. \A r \in Requests : Memories(r)' /\ FileReady(r)'
    BY <2>2, StepMemories, StepFileReady
  <2>5. DoomedFilesAreUnreferenced' /\ ReferencedImageSurvives'
    BY <1>2, <2>1, <2>2, StepDoomed, StepSurvives
  <2>. QED
    BY <2>3, <2>4, <2>5 DEF FilesInv
<1>. QED
  BY <1>1, <1>2 DEF IInv

LEMMA InvariantHolds == Spec => []IInv
  BY InitInvariant, StepInvariant, PTL DEF Spec

\* Whatever requests interleave and whatever call fails or process dies, as long as
\* no commit has lost its reply, the image of a stored bookmark is never destroyed
\* (create.go:68-75, update.go:88-102, delete.go:34-47).
THEOREM ImageSurvives == Spec => []ReferencedImageSurvives
<1>1. IInv => ReferencedImageSurvives
  BY DEF IInv, FilesInv, ReferencedImageSurvives
<1>. QED
  BY <1>1, InvariantHolds, PTL

\* Under the same condition no request and no cleanup record is ever about to
\* remove a file that a bookmark shows (update.go:89-100, delete.go:47-49, cleanup.go:42).
THEOREM DoomedAreUnreferenced == Spec => []DoomedFilesAreUnreferenced
<1>1. IInv => DoomedFilesAreUnreferenced
  BY DEF IInv, FilesInv, DoomedFilesAreUnreferenced
<1>. QED
  BY <1>1, InvariantHolds, PTL

\* As long as no process has died and no Restore has failed either, each bookmark's file
\* lies under its key once the requests have ended, so that it can be served and the
\* bookmark can be deleted (delete.go:34-43).
THEOREM NothingIsLeftHidden == Spec => []NothingDangles
<1>1. ASSUME IInv PROVE NothingDangles
  <2>. SUFFICES ASSUME InFlight = {}, faults \cap {"crash", "lost_reply", "restore"} = {},
                       NEW b \in bookmarks, screenshot[b] # NoKey
                PROVE  screenshot[b] \in files
    BY DEF NothingDangles
  <2>1. ASSUME NEW r \in Requests PROVE ~HiddenBy(r, screenshot[b])
    <3>1. pc[r] \notin {"delete", "restore"}
      BY DEF InFlight, Ended
    <3>. QED
      BY <3>1 DEF HiddenBy, HidingLabels
  <2>. QED
    BY <1>1, <2>1 DEF IInv, FilesInv, ReferencedImageSurvives
<1>. QED
  BY <1>1, InvariantHolds, PTL

-----------------------------------------------------------------------------
(* The staged file of a draft: once it has moved it never comes back, so   *)
(* no second rename of it finds a file, and a draft that was marked is one  *)
(* whose file has moved.  This holds with every fault.                     *)

Staged == {StagedKey(d) : d \in Drafts}

\* The request has promoted the file of its draft.
Drew(r) == Op(r) \in {"create", "update"} /\ key[r] # NoKey

\* No row and no memory names a staged file: Restore brings none back.
Unstaged == /\ \A b \in Ids : screenshot[b] \notin Staged
            /\ \A r \in Requests : current[r].screenshot \notin Staged

\* A request that works with a draft has one, and marks it after it has promoted.
Drafting(r) ==
  /\ pc[r] \in {"find_draft", "promote", "mark_then_insert", "mark"} => Capture(r) \in Drafts
  /\ pc[r] = "mark_then_insert" => key[r] # NoKey
  /\ pc[r] \in {"write", "mark"} /\ Capture(r) # NoDraft => key[r] # NoKey

Moved(r) == Drew(r) => Capture(r) \in Drafts /\ StagedKey(Capture(r)) \notin files

DraftInv == /\ Unstaged /\ DraftSpentOnce
            /\ \A r \in Requests : Drafting(r) /\ Moved(r)

LEMMA StagedKeys == NoKey \notin Staged /\ \A a : PromotedKey(a) \notin Staged /\ QuarantinedKey(a) \notin Staged
  BY KeysHaveType, KeysDiffer DEF Staged

LEMMA InitDrafts == Init => DraftInv
<1>. SUFFICES ASSUME Init PROVE DraftInv
  OBVIOUS
<1>. QED
  BY StagedKeys DEF Init, NoInput, DraftInv, Unstaged, DraftSpentOnce, DraftPromotedOnce,
     ConsumedDraftHasNoStagedFile, Drafting, Moved, Drew, Op, Capture

\* What a row shows and a request remembers was promoted.
LEMMA StepUnstaged ==
  ASSUME TypeOK, ControlInv, DraftInv, [Next]_vars
  PROVE  Unstaged'
<1>1. ASSUME NEW r \in Requests, pc[r] \in {"insert", "write"} PROVE key[r] \notin Staged
  <2>1. Control(r)
    BY DEF ControlInv
  <2>. QED
    BY <1>1, <2>1, StagedKeys DEF Control
<1>. USE DEF TypeOK, DraftInv, Unstaged, database, locals, At
<1>2. ASSUME NEW r \in Requests, Insert(r) PROVE Unstaged'
  BY <1>1, <1>2 DEF Insert, InsertRow
<1>3. ASSUME NEW r \in Requests, Write(r) PROVE Unstaged'
  BY <1>1, <1>3 DEF Write, UpdateRow
<1>4. ASSUME NEW r \in Requests, Delete(r) PROVE Unstaged'
  BY <1>4, StagedKeys DEF Delete, DeleteRow
<1>5. ASSUME NEW r \in Requests, BeginUpdate(r) \/ BeginDelete(r) PROVE Unstaged'
  BY <1>5 DEF BeginUpdate, BeginDelete, Begin, Snapshot, Ids
<1>6. CASE UNCHANGED <<screenshot, current>>
  BY <1>6
<1>. QED
  BY <1>2, <1>3, <1>4, <1>5, <1>6 DEF Next, Step, vars, BeginCreate, Begin, Promote, MarkBeforeInsert,
     Compensate, FindDraft, MarkAfterWrite, RemoveOld, RecordOld, Record, Quarantine, Restore,
     RemoveQuarantined, RecordQuarantined, Crash, CleanUp

\* No staged file comes back.
LEMMA StagedOnlyGo ==
  ASSUME TypeOK, DraftInv, [Next]_vars
  PROVE  files' \cap Staged \subseteq files
<1>1. ASSUME NEW r \in Requests, Promote(r) PROVE files' \cap Staged \subseteq files
  BY <1>1, StagedKeys DEF Promote, MoveFile, MoveFails, Rename
<1>2. ASSUME NEW r \in Requests, Quarantine(r) PROVE files' \cap Staged \subseteq files
  BY <1>2, StagedKeys DEF Quarantine, MoveFile, MoveFails, Rename
<1>3. ASSUME NEW r \in Requests, Restore(r) PROVE files' \cap Staged \subseteq files
  BY <1>3 DEF Restore, MoveFile, MoveFails, Rename, DraftInv, Unstaged
<1>4. CASE files' \subseteq files
  BY <1>4
<1>. QED
  BY <1>1, <1>2, <1>3, <1>4 DEF Next, Step, vars, BeginCreate, BeginUpdate, BeginDelete, Begin, MarkBeforeInsert,
     Insert, Compensate, RemoveFile, RemoveFails, Unlink, FindDraft, Write, MarkAfterWrite, RemoveOld, RecordOld,
     Record, Delete, RemoveQuarantined, RecordQuarantined, Crash, CleanUp

\* What a step of request r does to itself, to the others and to its draft.
DraftStep(r) ==
  /\ \A s \in Requests \ {r} : pc'[s] = pc[s] /\ input'[s] = input[s] /\ key'[s] = key[s]
  /\ Drew(r)' => /\ input'[r] = input[r]
                 /\ \/ Drew(r)
                    \/ /\ Capture(r) \in Drafts
                       /\ StagedKey(Capture(r)) \in files /\ StagedKey(Capture(r)) \notin files'
  /\ Drafting(r)'
  /\ draft' = draft \/ (Drew(r) /\ draft' = [draft EXCEPT ![Capture(r)] = "consumed"])

LEMMA StepsDraft ==
  ASSUME TypeOK, ControlInv, DraftInv, NEW r \in Requests, Step(r)
  PROVE  DraftStep(r)
<1>0. Control(r) /\ Drafting(r)
  BY DEF ControlInv, DraftInv
<1>. USE <1>0 DEF TypeOK, Control, Drafting, DraftStep, Drew, Op, Capture, database, locals, At, Goto
<1>1. CASE BeginCreate(r)
  BY <1>1 DEF BeginCreate, Begin
<1>2. CASE BeginUpdate(r)
  BY <1>2 DEF BeginUpdate, Begin
<1>3. CASE BeginDelete(r)
  BY <1>3 DEF BeginDelete, Begin
<1>4. CASE Promote(r)
  <2>1. /\ UNCHANGED <<input, draft>>
        /\ pc' = [pc EXCEPT ![r] = pc'[r]] /\ key' = [key EXCEPT ![r] = key'[r]]
    BY <1>4 DEF Promote
  <2>2. CASE key'[r] = NoKey
    <3>1. pc'[r] = "refused"
      BY <1>4, <2>2, KeysHaveType DEF Promote, Ids
    <3>2. ~Drew(r)' /\ Drafting(r)'
      BY <2>2, <3>1
    <3>. QED
      BY <2>1, <3>2
  <2>3. CASE key'[r] # NoKey
    <3>1. /\ StagedKey(Capture(r)) \in files
          /\ files' = Rename(files, StagedKey(Capture(r)), PromotedKey(r))
          /\ pc'[r] \in {"mark_then_insert", "write"}
      BY <1>4, <2>3 DEF Promote, MoveFile, CanRename
    <3>2. StagedKey(Capture(r)) \notin files'
      BY <3>1, KeysDiffer DEF Rename
    <3>3. Capture(r) \in Drafts
      BY <1>4 DEF Promote
    <3>4. Drafting(r)'
      BY <1>4, <2>1, <2>3, <3>1, <3>3
    <3>5. \A s \in Requests \ {r} : pc'[s] = pc[s] /\ input'[s] = input[s] /\ key'[s] = key[s]
      BY <2>1
    <3>6. input'[r] = input[r] /\ draft' = draft
      BY <2>1
    <3>. QED
      BY <3>1, <3>2, <3>3, <3>4, <3>5, <3>6 DEF DraftStep
  <2>. QED
    BY <2>2, <2>3
<1>5. CASE MarkBeforeInsert(r)
  BY <1>5 DEF MarkBeforeInsert
<1>6. CASE Insert(r)
  BY <1>6 DEF Insert, InsertRow, AfterFailedWrite
<1>7. CASE Compensate(r)
  BY <1>7 DEF Compensate
<1>8. CASE FindDraft(r)
  BY <1>8 DEF FindDraft
<1>9. CASE Write(r)
  BY <1>9 DEF Write, UpdateRow, AfterFailedWrite
<1>10. CASE MarkAfterWrite(r)
  BY <1>10, ConstantsAssumption DEF MarkAfterWrite
<1>11. CASE RemoveOld(r)
  BY <1>11 DEF RemoveOld
<1>12. CASE RecordOld(r)
  BY <1>12 DEF RecordOld, Record
<1>13. CASE Quarantine(r)
  BY <1>13 DEF Quarantine
<1>14. CASE Delete(r)
  BY <1>14 DEF Delete, DeleteRow, AfterFailedDelete
<1>15. CASE Restore(r)
  BY <1>15 DEF Restore
<1>16. CASE RemoveQuarantined(r)
  BY <1>16 DEF RemoveQuarantined
<1>17. CASE RecordQuarantined(r)
  BY <1>17 DEF RecordQuarantined, Record
<1>18. CASE Crash(r)
  BY <1>18 DEF Crash
<1>. QED
  BY <1>1, <1>2, <1>3, <1>4, <1>5, <1>6, <1>7, <1>8, <1>9, <1>10, <1>11, <1>12, <1>13, <1>14, <1>15,
     <1>16, <1>17, <1>18 DEF Step

LEMMA StepDrafts == TypeOK /\ ControlInv /\ DraftInv /\ [Next]_vars => DraftInv'
<1>. SUFFICES ASSUME TypeOK, ControlInv, DraftInv, [Next]_vars PROVE DraftInv'
  OBVIOUS
<1>0. Unstaged' /\ \A d \in Drafts : StagedKey(d) \in files' => StagedKey(d) \in files
  BY StepUnstaged, StagedOnlyGo DEF Staged
<1>1. ASSUME NEW r \in Requests, Step(r) PROVE DraftInv'
  <2>1. DraftStep(r)
    BY <1>1, StepsDraft
  <2>2. ASSUME NEW s \in Requests PROVE Drafting(s)' /\ Moved(s)'
    BY <1>0, <2>1 DEF DraftInv, DraftStep, Drafting, Moved, Drew, Op, Capture
  <2>3. DraftPromotedOnce'
    <3>. SUFFICES ASSUME NEW s \in Requests, NEW t \in Requests, Drew(s)', Drew(t)', Capture(s)' = Capture(t)', s # t
                  PROVE  FALSE
      BY DEF DraftPromotedOnce, Drew, Op, Capture
    <3>1. ASSUME NEW q \in Requests, Drew(q)'
          PROVE  Capture(q)' = Capture(q) /\ (Drew(q) \/ (q = r /\ StagedKey(Capture(q)) \in files))
      BY <2>1, <3>1 DEF DraftStep, Drew, Op, Capture
    <3>2. \A q \in Requests : Drew(q) => StagedKey(Capture(q)) \notin files
      BY DEF DraftInv, Moved
    <3>3. Capture(s) = Capture(t) /\ ~(Drew(s) /\ Drew(t))
      BY <3>1 DEF DraftInv, DraftSpentOnce, DraftPromotedOnce, Drew
    <3>. QED
      BY <3>1, <3>2, <3>3
  <2>4. ConsumedDraftHasNoStagedFile'
    BY <1>0, <2>1 DEF DraftInv, DraftStep, DraftSpentOnce, ConsumedDraftHasNoStagedFile, Moved, TypeOK
  <2>. QED
    BY <1>0, <2>2, <2>3, <2>4 DEF DraftInv, DraftSpentOnce
<1>2. CASE UNCHANGED <<draft, pc, locals>>
  BY <1>0, <1>2 DEF DraftInv, DraftSpentOnce, DraftPromotedOnce, ConsumedDraftHasNoStagedFile, Drafting, Moved,
     Drew, Op, Capture, locals
<1>. QED
  BY <1>1, <1>2 DEF Next, CleanUp, vars, database

\* However many requests have read a draft as ready, and whichever call fails or
\* process dies, one of them promotes its file, and a draft that is marked consumed
\* leaves no staged file behind (create.go:90-110, update.go:64-96).
THEOREM DraftsSpentOnce == Spec => []DraftSpentOnce
<1>1. /\ Init => TypeOK /\ ControlInv /\ DraftInv
      /\ TypeOK /\ ControlInv /\ DraftInv /\ [Next]_vars => (TypeOK /\ ControlInv /\ DraftInv)'
      /\ DraftInv => DraftSpentOnce
  BY InitTypes, StepTypes, StepControl, InitDrafts, StepDrafts DEF DraftInv
<1>. QED
  BY <1>1, PTL DEF Spec

-----------------------------------------------------------------------------
(* The key that a request draws is nobody else's until the request writes  *)
(* it, so nobody removes its file before.  This holds with every fault: a   *)
(* request whose write took effect, reported or not, does not write again. *)

Unwritten(r) == pc[r] \in {"idle", "find_draft", "promote", "mark_then_insert", "insert", "write"}
Known(k) == \/ \E b \in Ids : screenshot[b] = k
            \/ \E r \in Requests : current[r].screenshot = k
            \/ k \in cleanup

FreshInv == \A r \in Requests : Unwritten(r) => ~Known(PromotedKey(r)) /\ FileReady(r)

LEMMA InitFresh == Init => FreshInv
<1>. SUFFICES ASSUME Init, NEW r \in Requests PROVE ~Known(PromotedKey(r)) /\ FileReady(r)
  BY DEF FreshInv
<1>1. /\ \A b \in Seeds : PromotedKey(b) # PromotedKey(r)
      /\ PromotedKey(r) # NoKey
  BY KeysDiffer, KeysHaveType, ConstantsAssumption DEF Ids
<1>. QED
  BY <1>1 DEF Init, Known, FileReady

\* A request that has yet to write had yet to before, and draws its key in Promote.
LEMMA StepUnwritten ==
  ASSUME TypeOK, ControlInv, [Next]_vars, NEW s \in Requests, Unwritten(s)'
  PROVE  Unwritten(s) /\ (key'[s] = key[s] \/ Promote(s))
<1>. USE DEF TypeOK, Unwritten, locals, At, Goto
<1>1. ASSUME NEW r \in Requests, Quarantine(r) PROVE Unwritten(s) /\ key'[s] = key[s]
  BY <1>1 DEF Quarantine
<1>2. ASSUME NEW r \in Requests, Promote(r) PROVE Unwritten(s) /\ (key'[s] = key[s] \/ r = s)
  BY <1>2 DEF Promote
<1>3. ASSUME NEW r \in Requests,
             \/ BeginCreate(r) \/ BeginUpdate(r) \/ BeginDelete(r) \/ MarkBeforeInsert(r) \/ Insert(r) \/ Compensate(r)
             \/ FindDraft(r) \/ Write(r) \/ MarkAfterWrite(r) \/ RemoveOld(r) \/ RecordOld(r) \/ Delete(r)
             \/ Restore(r) \/ RemoveQuarantined(r) \/ RecordQuarantined(r) \/ Crash(r)
      PROVE  Unwritten(s) /\ key'[s] = key[s]
  BY <1>3 DEF BeginCreate, BeginUpdate, BeginDelete, Begin, MarkBeforeInsert, Insert, Compensate, FindDraft, Write,
     MarkAfterWrite, RemoveOld, RecordOld, Record, Delete, Restore, RemoveQuarantined, RecordQuarantined, Crash,
     AfterFailedWrite, AfterFailedDelete, InFlight, Ended
<1>. QED
  BY <1>1, <1>2, <1>3 DEF Next, Step, vars, CleanUp

\* A key that nobody knew becomes known only when the request that drew it writes it.
LEMMA StepKnown ==
  ASSUME TypeOK, ControlInv, [Next]_vars, NEW s \in Requests, Unwritten(s)', Known(PromotedKey(s))'
  PROVE  Known(PromotedKey(s))
<1>. USE DEF TypeOK, Known, Unwritten, database, locals, At, Goto
<1>1. ASSUME NEW r \in Requests, Insert(r) \/ Write(r) PROVE Known(PromotedKey(s))
  <2>1. pc'[r] \notin {"idle", "find_draft", "promote", "mark_then_insert", "insert", "write"}
    BY <1>1 DEF Insert, Write, AfterFailedWrite
  <2>2. r # s /\ pc'[s] = pc[s]
    BY <1>1, <2>1 DEF Insert, Write, AfterFailedWrite
  <2>3. key[r] # PromotedKey(s)
    <3>1. Control(r)
      BY DEF ControlInv
    <3>. QED
      BY <1>1, <2>2, <3>1, KeysDiffer, KeysHaveType DEF Control, Insert, Write, Ids
  <2>4. \A b \in Ids : screenshot'[b] \in {screenshot[b], key[r]}
    BY <1>1 DEF Insert, Write, InsertRow, UpdateRow
  <2>5. current' = current /\ cleanup' = cleanup
    BY <1>1 DEF Insert, Write, InsertRow, UpdateRow
  <2>. QED
    BY <2>2, <2>3, <2>4, <2>5
<1>2. ASSUME NEW r \in Requests, Delete(r) PROVE Known(PromotedKey(s))
  BY <1>2, KeysHaveType DEF Delete, DeleteRow, AfterFailedDelete, Ids
<1>3. ASSUME NEW r \in Requests, BeginUpdate(r) \/ BeginDelete(r) PROVE Known(PromotedKey(s))
  <2>1. PICK b \in bookmarks : Snapshot(r, b)
    BY <1>3 DEF BeginUpdate, BeginDelete
  <2>2. \A q \in Requests : current'[q].screenshot \in {current[q].screenshot, screenshot[b]}
    BY <2>1 DEF Snapshot
  <2>3. UNCHANGED <<screenshot, cleanup>>
    BY <1>3 DEF BeginUpdate, BeginDelete, Begin
  <2>. QED
    BY <2>1, <2>2, <2>3
<1>4. ASSUME NEW r \in Requests, RecordOld(r) PROVE Known(PromotedKey(s))
  BY <1>4 DEF RecordOld, Record
<1>5. ASSUME NEW r \in Requests, RecordQuarantined(r) PROVE Known(PromotedKey(s))
  <2>1. key[r] # PromotedKey(s)
    <3>1. Control(r)
      BY DEF ControlInv
    <3>. QED
      BY <1>5, <3>1, KeysDiffer DEF Control, RecordQuarantined, Record
  <2>. QED
    BY <1>5, <2>1 DEF RecordQuarantined, Record
<1>6. CASE /\ UNCHANGED <<screenshot, current>> /\ cleanup' \subseteq cleanup
  BY <1>6
<1>7. ASSUME NEW r \in Requests,
             \/ BeginCreate(r) \/ Promote(r) \/ MarkBeforeInsert(r) \/ Compensate(r) \/ FindDraft(r)
             \/ MarkAfterWrite(r) \/ RemoveOld(r) \/ Quarantine(r) \/ Restore(r) \/ RemoveQuarantined(r) \/ Crash(r)
      PROVE  /\ UNCHANGED <<screenshot, current>> /\ cleanup' \subseteq cleanup
  BY <1>7 DEF BeginCreate, Begin, Promote, MarkBeforeInsert, Compensate, FindDraft, MarkAfterWrite, RemoveOld,
     Quarantine, Restore, RemoveQuarantined, Crash, InFlight, Ended
<1>. QED
  BY <1>1, <1>2, <1>3, <1>4, <1>5, <1>6, <1>7 DEF Next, Step, vars, CleanUp

\* A promoted file that nobody knows stays, unless its own request compensates.
LEMMA StepFreshFile ==
  ASSUME TypeOK, ControlInv, [Next]_vars, NEW s \in Requests, pc[s] # "compensate",
         ~Known(PromotedKey(s)), PromotedKey(s) \in files
  PROVE  PromotedKey(s) \in files'
<1>. USE DEF TypeOK, Known
<1>0. ASSUME NEW r \in Requests PROVE Control(r)
  BY DEF ControlInv
<1>1. ASSUME NEW r \in Requests, Compensate(r) PROVE PromotedKey(s) \in files'
  BY <1>0, <1>1, KeysDiffer DEF Compensate, RemoveFile, RemoveFails, Unlink, Control, At
<1>2. ASSUME NEW r \in Requests, RemoveOld(r) PROVE PromotedKey(s) \in files'
  BY <1>2 DEF RemoveOld, RemoveFile, RemoveFails, Unlink
<1>3. ASSUME NEW r \in Requests, RemoveQuarantined(r) \/ Restore(r) PROVE PromotedKey(s) \in files'
  BY <1>0, <1>3, KeysDiffer DEF RemoveQuarantined, Restore, RemoveFile, RemoveFails, Unlink, MoveFile, MoveFails,
     Rename, Control, At
<1>4. ASSUME NEW r \in Requests, Quarantine(r) PROVE PromotedKey(s) \in files'
  BY <1>4 DEF Quarantine, MoveFile, MoveFails, Rename
<1>5. ASSUME NEW r \in Requests, Promote(r) PROVE PromotedKey(s) \in files'
  <2>1. PromotedKey(s) # StagedKey(Capture(r))
    BY KeysDiffer
  <2>2. files' = files \/ files' = Rename(files, StagedKey(Capture(r)), PromotedKey(r))
    BY <1>5 DEF Promote, MoveFile, MoveFails
  <2>. QED
    BY <2>1, <2>2 DEF Rename
<1>6. ASSUME NEW k \in Keys, CleanUp(k) PROVE PromotedKey(s) \in files'
  BY <1>6 DEF CleanUp, Unlink
<1>7. CASE UNCHANGED files
  BY <1>7
<1>8. ASSUME NEW r \in Requests,
             \/ BeginCreate(r) \/ BeginUpdate(r) \/ BeginDelete(r) \/ MarkBeforeInsert(r) \/ Insert(r) \/ FindDraft(r)
             \/ Write(r) \/ MarkAfterWrite(r) \/ RecordOld(r) \/ Delete(r) \/ RecordQuarantined(r) \/ Crash(r)
      PROVE  UNCHANGED files
  BY <1>8 DEF BeginCreate, BeginUpdate, BeginDelete, Begin, MarkBeforeInsert, Insert, FindDraft, Write,
     MarkAfterWrite, RecordOld, Record, Delete, RecordQuarantined, Crash
<1>. QED
  BY <1>1, <1>2, <1>3, <1>4, <1>5, <1>6, <1>7, <1>8 DEF Next, Step, vars

LEMMA StepFresh == TypeOK /\ ControlInv /\ FreshInv /\ [Next]_vars => FreshInv'
<1>. SUFFICES ASSUME TypeOK, ControlInv, FreshInv, [Next]_vars, NEW s \in Requests, Unwritten(s)'
              PROVE  ~Known(PromotedKey(s))' /\ FileReady(s)'
  BY DEF FreshInv
<1>1. ~Known(PromotedKey(s))'
  BY StepUnwritten, StepKnown DEF FreshInv
<1>2. ASSUME pc'[s] \in {"mark_then_insert", "insert", "write"}, key'[s] # NoKey
      PROVE  key'[s] \in files'
  <2>1. ControlInv' /\ TypeOK'
    BY StepControl, StepTypes
  <2>2. key'[s] = PromotedKey(s)
    BY <1>2, <2>1 DEF ControlInv, Control
  <2>3. CASE Promote(s)
    BY <1>2, <2>2, <2>3, KeysHaveType DEF Promote, MoveFile, Rename, TypeOK, ControlInv, Control, At
  <2>4. CASE key'[s] = key[s]
    <3>1. Unwritten(s) /\ key[s] \in files
      BY <1>2, <2>4, StepUnwritten DEF FreshInv, FileReady, Unwritten, ControlInv, Control
    <3>. QED
      BY <2>2, <2>4, <3>1, StepFreshFile DEF FreshInv, Unwritten
  <2>. QED
    BY <1>2, <2>3, <2>4, StepUnwritten DEF Unwritten
<1>. QED
  BY <1>1, <1>2 DEF FileReady

\* Whatever fails or interleaves, the key of a stored bookmark changes to a fresh file
\* that no other row shows and no request remembers, or to none (create.go:90-104,
\* update.go:64-89, screenshots.go:73).
THEOREM KeysGivenOnce == Spec => KeyIsGivenOnce
<1>1. ASSUME TypeOK, ControlInv, FreshInv, [Next]_vars, NEW b \in Ids,
             screenshot'[b] # screenshot[b], screenshot'[b] # NoKey
      PROVE  /\ screenshot'[b] \in files
             /\ \A r \in Requests : current[r].screenshot # screenshot'[b]
             /\ ~Referenced(screenshot'[b])
  <2>1. ASSUME NEW r \in Requests, Delete(r) PROVE FALSE
    BY <1>1, <2>1 DEF Delete, DeleteRow, TypeOK, database
  <2>2. PICK r \in Requests : Insert(r) \/ Write(r)
    BY <1>1, <2>1 DEF Next, Step, vars, database, BeginCreate, BeginUpdate, BeginDelete, Begin, Promote,
       MarkBeforeInsert, Compensate, FindDraft, MarkAfterWrite, RemoveOld, RecordOld, Record, Quarantine, Restore,
       RemoveQuarantined, RecordQuarantined, Crash, CleanUp
  <2>3. screenshot'[b] = key[r]
    BY <1>1, <2>2 DEF Insert, Write, InsertRow, UpdateRow, TypeOK, database
  <2>4. key[r] = PromotedKey(r) /\ Unwritten(r)
    BY <1>1, <2>2, <2>3 DEF Insert, Write, At, ControlInv, Control, Unwritten
  <2>5. ~Known(PromotedKey(r)) /\ key[r] \in files
    BY <1>1, <2>2, <2>3, <2>4 DEF FreshInv, FileReady, Insert, Write, At
  <2>. QED
    BY <1>1, <2>3, <2>4, <2>5 DEF Known, Referenced, Shows, TypeOK
<1>2. TypeOK /\ ControlInv /\ FreshInv /\ [Next]_vars
        => (TypeOK /\ ControlInv /\ FreshInv)' /\
           [\A b \in Ids : screenshot'[b] # screenshot[b] /\ screenshot'[b] # NoKey =>
              /\ screenshot'[b] \in files
              /\ \A r \in Requests : current[r].screenshot # screenshot'[b]
              /\ ~Referenced(screenshot'[b])]_vars
  BY <1>1, StepTypes, StepControl, StepFresh
<1>. QED
  BY InitTypes, InitFresh, <1>2, PTL DEF Spec, KeyIsGivenOnce

-----------------------------------------------------------------------------
(* What a request knows of its bookmark while nobody else works on it: two *)
(* at a time are noticed in contended, so the row of any other bookmark is *)
(* the one that was read.  This holds with every fault.                    *)

Apart == \A r, s \in InFlight : r # s /\ Bookmark(r) = Bookmark(s) => Bookmark(r) \in contended

\* The row is as the request read it until the request has written.
AsRead(r) ==
  /\ Op(r) \in {"update", "delete"}
  /\ pc[r] \in {"find_draft", "promote", "write", "quarantine", "delete"}
  /\ Bookmark(r) \notin contended
  => /\ Bookmark(r) \in bookmarks
     /\ current[r].url = url[Bookmark(r)] /\ current[r].screenshot = screenshot[Bookmark(r)]

\* What a request promotes is a capture of the URL it saves.
OfUrl(r) == pc[r] = "promote" \/ Drew(r) => Capture(r) \in Drafts /\ DraftUrl[Capture(r)] = input[r].url

\* A row names a promoted file or none.
Promoted == \A b \in Ids : screenshot[b] # NoKey => \E s \in Ids : screenshot[b] = PromotedKey(s)

UrlInv == /\ Apart /\ Promoted /\ ScreenshotShowsUrl
          /\ \A r \in Requests : AsRead(r) /\ OfUrl(r)

\* A step of request r leaves the variables of the others alone, changes no row
\* but that of its bookmark, and that one only when it writes.
Others(r) == \A s \in Requests \ {r} :
  pc'[s] = pc[s] /\ input'[s] = input[s] /\ current'[s] = current[s] /\ key'[s] = key[s]
RowsBut(b) == \A c \in Ids \ {b} :
  (c \in bookmarks' <=> c \in bookmarks) /\ url'[c] = url[c] /\ screenshot'[c] = screenshot[c]
SameRows == UNCHANGED <<bookmarks, url, screenshot>>

LEMMA StepOthers == ASSUME TypeOK, NEW r \in Requests, Step(r) PROVE Others(r)
<1>. USE DEF TypeOK, Others, locals, At, Goto
<1>1. CASE BeginCreate(r) \/ BeginUpdate(r) \/ BeginDelete(r)
  BY <1>1 DEF BeginCreate, BeginUpdate, BeginDelete, Begin, Snapshot
<1>2. CASE Promote(r)
  BY <1>2 DEF Promote
<1>3. CASE Quarantine(r)
  BY <1>3 DEF Quarantine
<1>4. CASE Insert(r) \/ Write(r) \/ Delete(r)
  BY <1>4 DEF Insert, Write, Delete, AfterFailedWrite, AfterFailedDelete
<1>. QED
  BY <1>1, <1>2, <1>3, <1>4 DEF Step, MarkBeforeInsert, Compensate, FindDraft, MarkAfterWrite, RemoveOld, RecordOld,
     Record, Restore, RemoveQuarantined, RecordQuarantined, Crash

LEMMA StepRowOf ==
  ASSUME TypeOK, ControlInv, NEW r \in Requests, Step(r)
  PROVE  \/ SameRows
         \/ /\ Insert(r) \/ Write(r) \/ Delete(r)
            /\ r \in InFlight /\ RowsBut(Bookmark(r))
<1>. USE DEF TypeOK, SameRows, RowsBut, database, At
<1>1. CASE Insert(r)
  <2>1. Bookmark(r) = r
    BY <1>1 DEF Insert, ControlInv, Control
  <2>. QED
    BY <1>1, <2>1 DEF Insert, InsertRow, InFlight, Ended
<1>2. CASE Write(r)
  BY <1>2 DEF Write, UpdateRow, InFlight, Ended
<1>3. CASE Delete(r)
  BY <1>3 DEF Delete, DeleteRow, InFlight, Ended
<1>4. Insert(r) \/ Write(r) \/ Delete(r) \/ SameRows
  BY DEF Step, BeginCreate, BeginUpdate, BeginDelete, Begin, Promote, MarkBeforeInsert, Compensate, FindDraft,
     MarkAfterWrite, RemoveOld, RecordOld, Record, Quarantine, Restore, RemoveQuarantined, RecordQuarantined, Crash
<1>. QED
  BY <1>1, <1>2, <1>3, <1>4

\* Two that are in flight together were there before, or one of them begins, and
\* then the other is noticed.
LEMMA StepApart == TypeOK /\ Apart /\ [Next]_vars => Apart' /\ contended \subseteq contended'
<1>. SUFFICES ASSUME TypeOK, Apart, [Next]_vars PROVE Apart' /\ contended \subseteq contended'
  OBVIOUS
<1>1. ASSUME NEW r \in Requests, BeginCreate(r) \/ BeginUpdate(r) \/ BeginDelete(r)
      PROVE  Apart' /\ contended \subseteq contended'
  <2>1. PICK op, b, u, d, label : Begin(r, op, b, u, d, label)
    BY <1>1 DEF BeginCreate, BeginUpdate, BeginDelete
  <2>2. /\ r \notin InFlight /\ InFlight' \subseteq InFlight \cup {r} /\ Bookmark(r)' = b
        /\ \A s \in Requests \ {r} : Bookmark(s)' = Bookmark(s)
        /\ contended' = contended \cup {x \in {b} : \E s \in InFlight : Bookmark(s) = x}
    BY <2>1 DEF Begin, InFlight, At, Goto, TypeOK, Bookmark
  <2>. QED
    BY <2>2 DEF Apart, InFlight
<1>2. ASSUME NEW r \in Requests, Step(r), ~(BeginCreate(r) \/ BeginUpdate(r) \/ BeginDelete(r))
      PROVE  Apart' /\ contended \subseteq contended'
  <2>1. r \in InFlight
    BY <1>2 DEF Step, InFlight, Ended, At, Promote, MarkBeforeInsert, Insert, Compensate, FindDraft, Write,
       MarkAfterWrite, RemoveOld, RecordOld, Record, Quarantine, Delete, Restore, RemoveQuarantined,
       RecordQuarantined, Crash
  <2>2. input' = input /\ contended' = contended
    BY <1>2 DEF Step, locals, Promote, MarkBeforeInsert, Insert, Compensate, FindDraft, Write, MarkAfterWrite,
       RemoveOld, RecordOld, Record, Quarantine, Delete, Restore, RemoveQuarantined, RecordQuarantined, Crash
  <2>3. InFlight' \subseteq InFlight
    BY <1>2, <2>1, StepOthers DEF Others, InFlight
  <2>. QED
    BY <2>2, <2>3 DEF Apart, Bookmark
<1>3. CASE UNCHANGED <<pc, input, contended>>
  BY <1>3 DEF Apart, InFlight, Bookmark
<1>. QED
  BY <1>1, <1>2, <1>3 DEF Next, CleanUp, vars, locals

LEMMA StepAsRead ==
  ASSUME TypeOK, ControlInv, Apart, \A r \in Requests : AsRead(r), [Next]_vars, NEW s \in Requests
  PROVE  AsRead(s)'
<1>. DEFINE Reads == {"find_draft", "promote", "write", "quarantine", "delete"}
<1>. USE DEF TypeOK
<1>1. SUFFICES ASSUME Op(s)' \in {"update", "delete"}, pc'[s] \in Reads, Bookmark(s)' \notin contended'
               PROVE  /\ Bookmark(s)' \in bookmarks'
                      /\ current'[s].url = url'[Bookmark(s)'] /\ current'[s].screenshot = screenshot'[Bookmark(s)']
  BY DEF AsRead, Bookmark
<1>2. contended \subseteq contended'
  BY StepApart
<1>3. ASSUME pc[s] \in Reads, UNCHANGED <<input[s], current[s]>>
      PROVE  /\ s \in InFlight /\ Bookmark(s)' = Bookmark(s) /\ Bookmark(s) \in Ids /\ Bookmark(s) \notin contended
             /\ Bookmark(s) \in bookmarks
             /\ current[s].url = url[Bookmark(s)] /\ current[s].screenshot = screenshot[Bookmark(s)]
  BY <1>1, <1>2, <1>3 DEF AsRead, InFlight, Ended, Op, Bookmark
<1>4. CASE SameRows /\ pc[s] \in Reads /\ UNCHANGED <<input[s], current[s]>>
  BY <1>3, <1>4 DEF SameRows
<1>5. ASSUME NEW r \in Requests \ {s}, Step(r)
      PROVE  /\ Bookmark(s)' \in bookmarks'
             /\ current'[s].url = url'[Bookmark(s)'] /\ current'[s].screenshot = screenshot'[Bookmark(s)']
  <2>1. pc[s] \in Reads /\ UNCHANGED <<input[s], current[s]>>
    BY <1>1, <1>5, StepOthers DEF Others
  <2>2. r \in InFlight => Bookmark(r) # Bookmark(s)
    BY <1>3, <2>1 DEF Apart
  <2>. QED
    BY <1>3, <1>4, <1>5, <2>1, <2>2, StepRowOf DEF RowsBut
<1>6. CASE BeginUpdate(s) \/ BeginDelete(s)
  BY <1>6 DEF BeginUpdate, BeginDelete, Begin, Snapshot, Bookmark, database
<1>7. CASE FindDraft(s) \/ Promote(s) \/ Quarantine(s)
  BY <1>4, <1>7 DEF FindDraft, Promote, Quarantine, SameRows, database, locals, At, Goto
<1>8. CASE Step(s) /\ ~(BeginUpdate(s) \/ BeginDelete(s) \/ FindDraft(s) \/ Promote(s) \/ Quarantine(s))
  <2>1. BeginCreate(s) => Op(s)' = "create"
    BY DEF BeginCreate, Begin, Op
  <2>2. MarkBeforeInsert(s) => Op(s)' = "create"
    BY DEF MarkBeforeInsert, locals, Op, At, ControlInv, Control
  <2>. QED
    BY <1>1, <1>8, <2>1, <2>2 DEF Step, Insert, Compensate, Write, MarkAfterWrite, RemoveOld, RecordOld,
       Record, Delete, Restore, RemoveQuarantined, RecordQuarantined, Crash, AfterFailedWrite, AfterFailedDelete, Goto
<1>9. CASE UNCHANGED <<database, pc, locals>>
  BY <1>1, <1>4, <1>9 DEF database, locals, SameRows
<1>10. ASSUME NEW k \in Keys, CleanUp(k)
       PROVE  /\ Bookmark(s)' \in bookmarks'
              /\ current'[s].url = url'[Bookmark(s)'] /\ current'[s].screenshot = screenshot'[Bookmark(s)']
  BY <1>1, <1>4, <1>10 DEF CleanUp, locals, SameRows
<1>. QED
  BY <1>5, <1>6, <1>7, <1>8, <1>9, <1>10 DEF Next, vars

LEMMA StepOfUrl ==
  ASSUME TypeOK, ControlInv, DraftInv, \A r \in Requests : OfUrl(r), [Next]_vars, NEW s \in Requests
  PROVE  OfUrl(s)'
<1>0. Control(s) /\ Drafting(s) /\ OfUrl(s)
  BY DEF ControlInv, DraftInv
<1>. USE <1>0 DEF TypeOK, OfUrl, Drew, Op, Capture, At, Goto, locals
<1>1. ASSUME NEW r \in Requests \ {s}, Step(r) PROVE OfUrl(s)'
  BY <1>1, StepOthers DEF Others
<1>2. CASE BeginCreate(s)
  BY <1>2 DEF BeginCreate, Begin, Control
<1>3. CASE BeginUpdate(s) \/ BeginDelete(s)
  BY <1>3 DEF BeginUpdate, BeginDelete, Begin, Control
<1>4. CASE FindDraft(s)
  BY <1>4 DEF FindDraft, Usable, Drafting
<1>5. CASE Promote(s)
  BY <1>5 DEF Promote
<1>6. CASE Quarantine(s)
  BY <1>6 DEF Quarantine, Control
<1>7. CASE MarkBeforeInsert(s) \/ Insert(s) \/ Write(s) \/ Delete(s)
  BY <1>7 DEF MarkBeforeInsert, Insert, Write, Delete, AfterFailedWrite, AfterFailedDelete
<1>8. CASE \/ Compensate(s) \/ MarkAfterWrite(s) \/ RemoveOld(s) \/ RecordOld(s) \/ Restore(s)
           \/ RemoveQuarantined(s) \/ RecordQuarantined(s) \/ Crash(s)
  BY <1>8 DEF Compensate, MarkAfterWrite, RemoveOld, RecordOld, Record, Restore, RemoveQuarantined,
     RecordQuarantined, Crash
<1>9. CASE UNCHANGED <<pc, locals>>
  BY <1>9
<1>. QED
  BY <1>1, <1>2, <1>3, <1>4, <1>5, <1>6, <1>7, <1>8, <1>9 DEF Next, Step, CleanUp, vars

\* What a file shows, told with the inputs after a step.
ShownAfter(k) == IF k[2] \in Seeds THEN SeedUrl[k[2]] ELSE DraftUrl[input'[k[2]].capture]

LEMMA ShownUrlOf ==
  ASSUME NEW s
  PROVE  /\ ShownUrl(PromotedKey(s)) = IF s \in Seeds THEN SeedUrl[s] ELSE DraftUrl[Capture(s)]
         /\ ShownAfter(PromotedKey(s)) = IF s \in Seeds THEN SeedUrl[s] ELSE DraftUrl[Capture(s)']
  BY DEF ShownUrl, ShownAfter, PromotedKey, Capture

LEMMA ShowsAfter ==
  ScreenshotShowsUrl' <=> \A b \in bookmarks' \ contended' :
                             screenshot'[b] # NoKey => ShownAfter(screenshot'[b]) = url'[b]
<1>1. \A b : ShownUrl(screenshot[b])' = ShownAfter(screenshot'[b])
  BY DEF ShownUrl, ShownAfter, Capture
<1>. QED
  BY <1>1 DEF ScreenshotShowsUrl

\* A row that a step leaves alone goes on showing what it showed: the request that
\* promoted its file has begun, and its input stays.
LEMMA StepShownRow ==
  ASSUME TypeOK, ControlInv, FreshInv, UrlInv, [Next]_vars, contended \subseteq contended',
         NEW b \in bookmarks', b \notin contended', b \in bookmarks,
         screenshot'[b] = screenshot[b], url'[b] = url[b], screenshot[b] # NoKey
  PROVE  ShownAfter(screenshot[b]) = url'[b]
<1>1. b \in Ids /\ ShownUrl(screenshot[b]) = url[b]
  BY DEF UrlInv, ScreenshotShowsUrl, TypeOK
<1>2. PICK s \in Ids : screenshot[b] = PromotedKey(s)
  BY <1>1 DEF UrlInv, Promoted
<1>3. s \notin Seeds => Capture(s)' = Capture(s)
  <2>. SUFFICES ASSUME s \in Requests PROVE input'[s] = input[s]
    BY DEF Capture, Ids
  <2>1. pc[s] # "idle"
    BY <1>1, <1>2 DEF FreshInv, Unwritten, Known
  <2>. QED
    BY <2>1, StepLasting DEF Lasting
<1>. QED
  BY <1>1, <1>2, <1>3, ShownUrlOf

\* A request writes its URL together with a file of that URL, or keeps both.
LEMMA StepShows ==
  ASSUME TypeOK, ControlInv, DraftInv, FreshInv, UrlInv, [Next]_vars
  PROVE  Promoted' /\ ScreenshotShowsUrl'
<1>. USE DEF TypeOK
<1>0. contended \subseteq contended'
  BY StepApart DEF UrlInv
<1>1. ASSUME NEW r \in Requests, Insert(r) \/ Write(r), key[r] # NoKey
      PROVE  key[r] = PromotedKey(r) /\ ShownAfter(key[r]) = input[r].url /\ r \in Ids
  <2>1. Op(r) \in {"create", "update"} /\ Control(r)
    BY <1>1 DEF Insert, Write, At, ControlInv, Control
  <2>2. key[r] = PromotedKey(r) /\ DraftUrl[Capture(r)] = input[r].url
    BY <1>1, <2>1 DEF Control, UrlInv, OfUrl, Drew
  <2>3. Capture(r)' = Capture(r) /\ key'[r] = key[r]
    BY <1>1 DEF Insert, Write, locals, Capture
  <2>. QED
    BY <2>2, <2>3, ShownUrlOf, ConstantsAssumption DEF Ids
<1>2. ASSUME SameRows PROVE Promoted' /\ ScreenshotShowsUrl'
  <2>1. Promoted'
    BY <1>2 DEF SameRows, UrlInv, Promoted
  <2>2. ScreenshotShowsUrl'
    BY <1>0, <1>2, StepShownRow, ShowsAfter DEF SameRows
  <2>. QED
    BY <2>1, <2>2
<1>3. ASSUME NEW r \in Requests, RowsBut(Bookmark(r)), Bookmark(r) \in Ids,
             screenshot'[Bookmark(r)] # NoKey => \E s \in Ids : screenshot'[Bookmark(r)] = PromotedKey(s),
             Bookmark(r) \in bookmarks' /\ Bookmark(r) \notin contended' /\ screenshot'[Bookmark(r)] # NoKey
               => ShownAfter(screenshot'[Bookmark(r)]) = url'[Bookmark(r)]
      PROVE  Promoted' /\ ScreenshotShowsUrl'
  <2>1. Promoted'
    BY <1>3 DEF RowsBut, UrlInv, Promoted
  <2>2. ASSUME NEW b \in bookmarks', b \notin contended', screenshot'[b] # NoKey
        PROVE  ShownAfter(screenshot'[b]) = url'[b]
    BY <1>0, <1>3, <2>2, StepTypes, StepShownRow DEF RowsBut
  <2>. QED
    BY <2>1, <2>2, ShowsAfter
<1>4. ASSUME NEW r \in Requests, Insert(r), RowsBut(Bookmark(r)) PROVE Promoted' /\ ScreenshotShowsUrl'
  <2>1. Bookmark(r) = r /\ r \in Ids
    BY <1>4 DEF Insert, At, ControlInv, Control, Ids
  <2>2. SameRows \/ (screenshot'[r] = key[r] /\ url'[r] = input[r].url)
    BY <1>4, <2>1 DEF Insert, InsertRow, database, SameRows
  <2>. QED
    BY <1>1, <1>2, <1>3, <1>4, <2>1, <2>2
<1>5. ASSUME NEW r \in Requests, Write(r), RowsBut(Bookmark(r)) PROVE Promoted' /\ ScreenshotShowsUrl'
  <2>1. Bookmark(r) \in Ids /\ Op(r) = "update"
    BY <1>5 DEF Write, At, ControlInv, Control
  <2>2. SameRows \/ UpdateRow(r)
    BY <1>5 DEF Write, database, SameRows
  <2>3. CASE UpdateRow(r) /\ Replaces(r)
    <3>1. screenshot'[Bookmark(r)] = key[r] /\ url'[Bookmark(r)] = input[r].url
      BY <2>1, <2>3 DEF UpdateRow
    <3>. QED
      BY <1>1, <1>3, <1>5, <2>1, <3>1
  <2>4. CASE UpdateRow(r) /\ ~Replaces(r)
    <3>1. /\ screenshot' = screenshot /\ bookmarks' = bookmarks /\ Bookmark(r) \in bookmarks
          /\ url'[Bookmark(r)] = current[r].url
      BY <2>1, <2>4 DEF UpdateRow, Replaces
    <3>2. Bookmark(r) \notin contended => current[r].url = url[Bookmark(r)]
      BY <1>5, <2>1 DEF UrlInv, AsRead, Write, At
    <3>3. ASSUME Bookmark(r) \notin contended', screenshot[Bookmark(r)] # NoKey
          PROVE  ShownAfter(screenshot'[Bookmark(r)]) = url'[Bookmark(r)]
      BY <1>0, <3>1, <3>2, <3>3, StepShownRow
    <3>. QED
      BY <1>3, <1>5, <2>1, <3>1, <3>3 DEF UrlInv, Promoted
  <2>. QED
    BY <1>2, <2>2, <2>3, <2>4
<1>6. ASSUME NEW r \in Requests, Delete(r), RowsBut(Bookmark(r)) PROVE Promoted' /\ ScreenshotShowsUrl'
  <2>1. Bookmark(r) \in Ids
    BY <1>6 DEF Delete, At, ControlInv, Control
  <2>2. SameRows \/ screenshot'[Bookmark(r)] = NoKey
    BY <1>6, <2>1 DEF Delete, DeleteRow, database, SameRows
  <2>. QED
    BY <1>2, <1>3, <1>6, <2>1, <2>2
<1>7. SameRows \/ \E r \in Requests : (Insert(r) \/ Write(r) \/ Delete(r)) /\ RowsBut(Bookmark(r))
  BY StepRowOf DEF Next, CleanUp, vars, database, SameRows
<1>. QED
  BY <1>2, <1>4, <1>5, <1>6, <1>7

LEMMA InitUrl == Init => UrlInv
<1>. SUFFICES ASSUME Init PROVE UrlInv
  OBVIOUS
<1>1. \A b \in Seeds : screenshot[b] = PromotedKey(b) /\ url[b] = SeedUrl[b] /\ b \in Ids
  BY DEF Init, Ids
<1>2. Promoted /\ ScreenshotShowsUrl
  BY <1>1, ShownUrlOf DEF Init, Promoted, ScreenshotShowsUrl
<1>. QED
  BY <1>2 DEF Init, NoInput, UrlInv, Apart, InFlight, Ended, AsRead, OfUrl, Drew, Op

\* The invariants that hold with every fault.
Lasts == TypeOK /\ ControlInv /\ DraftInv /\ FreshInv /\ UrlInv

LEMMA StepLasts == Lasts /\ [Next]_vars => Lasts'
<1>. SUFFICES ASSUME Lasts, [Next]_vars PROVE Lasts'
  OBVIOUS
<1>. USE DEF Lasts
<1>1. TypeOK' /\ ControlInv' /\ DraftInv' /\ FreshInv'
  BY StepTypes, StepControl, StepDrafts, StepFresh
<1>2. UrlInv'
  BY StepApart, StepAsRead, StepOfUrl, StepShows DEF UrlInv
<1>. QED
  BY <1>1, <1>2

LEMMA LastsHolds == Spec => []Lasts
<1>1. Init => Lasts
  BY InitTypes, InitDrafts, InitFresh, InitUrl DEF Lasts
<1>. QED
  BY <1>1, StepLasts, PTL DEF Spec

\* Whatever fails, and also when a write takes effect without a reply, a stored
\* screenshot shows the page its bookmark points to, as long as no two requests
\* work on that bookmark at a time (update.go:43-77, create.go:95).
THEOREM ScreenshotsShowUrls == Spec => []ScreenshotShowsUrl
<1>1. Lasts => ScreenshotShowsUrl
  BY DEF Lasts, UrlInv
<1>. QED
  BY <1>1, LastsHolds, PTL

-----------------------------------------------------------------------------
(* Nothing is left behind by one kind of fault.  Each file belongs to a    *)
(* row, to a draft, to a cleanup record, or is in the hand of a request    *)
(* that will put it there or remove it; a repair fails only by a kind of   *)
(* fault other than the one that made it necessary.                        *)

Mild == contended = {} /\ Cardinality(faults) <= 1 /\ faults \cap {"crash", "lost_reply"} = {}

\* Request r will write the file k to a row, put it back, remove it or record it.
InHand(r, k) ==
  \/ /\ pc[r] \in {"mark_then_insert", "insert", "write", "compensate",
                   "delete", "restore", "remove_quarantined", "record_quarantined"}
     /\ k = key[r]
  \/ /\ pc[r] \in {"mark", "remove_old", "record_old"}
     /\ Replaces(r) /\ k = current[r].screenshot

\* Why a request repairs, and that it can: the fault it repairs is the only kind.
Repairing(r) ==
  /\ pc[r] \in {"compensate", "restore"} => "db" \in faults
  /\ pc[r] \in {"record_old", "record_quarantined"} => "unlink" \in faults
  /\ pc[r] \in {"delete", "restore"} =>
       IF key[r] = NoKey THEN current[r].screenshot = NoKey
       ELSE key[r] \in files /\ current[r].screenshot \notin files
  /\ pc[r] = "restore" => /\ Bookmark(r) \in bookmarks
                          /\ screenshot[Bookmark(r)] = current[r].screenshot

Kept(k) == \/ Referenced(k) \/ k \in cleanup \/ k \in Staged
           \/ \E r \in Requests : InHand(r, k)

LeakInv == Mild => /\ \A r \in Requests : Repairing(r)
                   /\ \A k \in files : Kept(k)

\* What is known before a step after which at most one mild kind of fault has happened.
Calm == IInv /\ Lasts /\ Sound /\ Mild /\ (\A r \in Requests : Repairing(r)) /\ \A k \in files : Kept(k)

LEMMA FewFaults ==
  ASSUME NEW F \in SUBSET FaultKinds, NEW G \in SUBSET F, Cardinality(F) <= 1
  PROVE  Cardinality(G) <= 1 /\ \A a, b \in F : a = b
<1>1. IsFiniteSet(FaultKinds)
  <2>1. IsFiniteSet({"db"} \cup {"lost_reply"})
    BY FS_Singleton, FS_AddElement
  <2>2. IsFiniteSet({"db", "lost_reply", "rename"})
    <3>1. {"db", "lost_reply", "rename"} = ({"db"} \cup {"lost_reply"}) \cup {"rename"}
      OBVIOUS
    <3>. QED
      BY <2>1, <3>1, FS_AddElement
  <2>3. IsFiniteSet({"db", "lost_reply", "rename", "restore"})
    <3>1. {"db", "lost_reply", "rename", "restore"} = {"db", "lost_reply", "rename"} \cup {"restore"}
      OBVIOUS
    <3>. QED
      BY <2>2, <3>1, FS_AddElement
  <2>4. IsFiniteSet({"db", "lost_reply", "rename", "restore", "unlink"})
    <3>1. {"db", "lost_reply", "rename", "restore", "unlink"} = {"db", "lost_reply", "rename", "restore"} \cup {"unlink"}
      OBVIOUS
    <3>. QED
      BY <2>3, <3>1, FS_AddElement
  <2>5. FaultKinds = {"db", "lost_reply", "rename", "restore", "unlink"} \cup {"crash"}
    BY DEF FaultKinds
  <2>. QED
    BY <2>4, <2>5, FS_AddElement
<1>2. IsFiniteSet(F)
  BY <1>1, FS_Subset
<1>3. Cardinality(G) <= 1
  BY <1>2, FS_Subset, FS_CardinalityType
<1>4. ASSUME NEW a \in F, NEW b \in F, a # b PROVE FALSE
  <2>. DEFINE P == {a} \cup {b}
  <2>1. IsFiniteSet({a}) /\ Cardinality({a}) = 1
    BY FS_Singleton
  <2>2. Cardinality(P) = 2
    BY <1>4, <2>1, FS_AddElement
  <2>3. P \in SUBSET F
    OBVIOUS
  <2>. HIDE DEF P
  <2>4. Cardinality(P) <= Cardinality(F)
    BY <1>2, <2>3, FS_Subset
  <2>. QED
    BY <1>2, <2>2, <2>4, FS_CardinalityType
<1>. QED
  BY <1>3, <1>4

LEMMA StepMild ==
  ASSUME TypeOK, Apart, [Next]_vars, Mild'
  PROVE  /\ Mild /\ faults \subseteq faults'
         /\ \A a, b \in faults' : a = b
         /\ \A r \in Requests : ~Crash(r) /\ ~Fault("lost_reply")
<1>1. contended = {} /\ faults \subseteq faults'
  BY StepApart, StepFaults DEF Mild
<1>2. TypeOK' => faults' \subseteq FaultKinds
  BY DEF TypeOK
<1>3. faults' \subseteq FaultKinds
  BY StepFaults, ConstantsAssumption DEF TypeOK
<1>4. Cardinality(faults) <= 1 /\ \A a, b \in faults' : a = b
  BY <1>1, <1>3, FewFaults DEF Mild
<1>. QED
  BY <1>1, <1>4 DEF Mild, Crash, Fault

\* A file appears when it is promoted, quarantined or put back.
LEMMA NewFiles ==
  ASSUME Sound, [Next]_vars, NEW k \in files', k \notin files
  PROVE  \/ \E r \in Requests : Promote(r) /\ k = PromotedKey(r) /\ k = key'[r] /\ pc'[r] \in {"mark_then_insert", "write"}
         \/ \E r \in Requests : Quarantine(r) /\ k = QuarantinedKey(r) /\ k = key'[r] /\ pc'[r] = "delete"
         \/ \E r \in Requests : Restore(r) /\ k = current[r].screenshot
<1>. DEFINE Goal == \/ \E r \in Requests : Promote(r) /\ k = PromotedKey(r) /\ k = key'[r] /\ pc'[r] \in {"mark_then_insert", "write"}
                    \/ \E r \in Requests : Quarantine(r) /\ k = QuarantinedKey(r) /\ k = key'[r] /\ pc'[r] = "delete"
                    \/ \E r \in Requests : Restore(r) /\ k = current[r].screenshot
<1>. USE DEF Sound, TypeOK, Goto
<1>1. ASSUME NEW r \in Requests, Promote(r) PROVE Goal
  BY <1>1 DEF Promote, MoveFile, MoveFails, Rename
<1>2. ASSUME NEW r \in Requests, Quarantine(r) PROVE Goal
  BY <1>2 DEF Quarantine, MoveFile, MoveFails, Rename
<1>3. ASSUME NEW r \in Requests, Restore(r) PROVE Goal
  BY <1>3 DEF Restore, MoveFile, MoveFails, Rename
<1>4. \/ files' \subseteq files
      \/ \E r \in Requests : Promote(r) \/ Quarantine(r) \/ Restore(r)
  BY DEF Next, Step, vars, BeginCreate, BeginUpdate, BeginDelete, Begin, MarkBeforeInsert, Insert, Compensate,
     RemoveFile, RemoveFails, Unlink, FindDraft, Write, MarkAfterWrite, RemoveOld, RecordOld, Record, Delete,
     RemoveQuarantined, RecordQuarantined, Crash, CleanUp
<1>. QED
  BY <1>1, <1>2, <1>3, <1>4

\* What a delete has moved to quarantine stays there, and its place stays empty, while
\* others step.
LEMMA HiddenStays ==
  ASSUME Calm, [Next]_vars, NEW s \in Requests, ~Step(s) \/ Delete(s),
         pc[s] \in {"delete", "restore"}, key[s] # NoKey
  PROVE  key[s] \in files' /\ current[s].screenshot \notin files'
<1>. USE DEF Calm
<1>1. /\ key[s] \in files /\ current[s].screenshot \notin files
      /\ key[s] = QuarantinedKey(s) /\ current[s].screenshot # NoKey
      /\ s \in InFlight /\ Op(s) = "delete"
  BY DEF Repairing, Sound, ControlInv, Control, InFlight, Ended
<1>2. <<current[s].screenshot, Bookmark(s)>> \in Given
  BY <1>1 DEF Sound, FilesInv, Memories
<1>3. ASSUME current[s].screenshot \in files' PROVE FALSE
  <2>1. ASSUME NEW r \in Requests, Promote(r), current[s].screenshot = PromotedKey(r) PROVE FALSE
    BY <2>1 DEF Promote, At, Lasts, FreshInv, Unwritten, Known
  <2>2. \A r \in Requests : current[s].screenshot # QuarantinedKey(r)
    BY QuarantinedIsNotGiven
  <2>3. ASSUME NEW r \in Requests, Restore(r), current[s].screenshot = current[r].screenshot PROVE FALSE
    <3>1. r \in InFlight /\ r # s /\ Op(r) = "delete"
      BY <2>3 DEF Restore, At, InFlight, Ended, Sound, ControlInv, Control, Step, Delete
    <3>2. <<current[r].screenshot, Bookmark(r)>> \in Given
      BY <1>1, <2>3, <3>1 DEF Sound, FilesInv, Memories
    <3>3. Bookmark(r) = Bookmark(s)
      BY <1>2, <2>3, <3>2, GivenOnce
    <3>. QED
      BY <1>1, <3>1, <3>3 DEF Lasts, UrlInv, Apart, Mild
  <2>. QED
    BY <1>1, <1>3, <2>1, <2>2, <2>3, NewFiles
<1>4. ASSUME key[s] \notin files' PROVE FALSE
  <2>1. ~Doomed(QuarantinedKey(s))
    <3>1. QuarantinedKey(s) \notin cleanup
      <4>1. \A b : <<QuarantinedKey(s), b>> \notin Given
        BY QuarantinedIsNotGiven
      <4>. QED
        BY <4>1, KeysDiffer DEF Sound, FilesInv, Repairs
    <3>2. \A q \in Requests : current[q].screenshot # QuarantinedKey(s)
      BY QuarantinedIsNotGiven
    <3>3. \A q \in Requests : key[q] = QuarantinedKey(s) => q = s
      BY KeysDiffer, KeysHaveType DEF Sound, ControlInv, Control, Ids
    <3>. QED
      BY <3>1, <3>2, <3>3 DEF Doomed
  <2>2. \A q \in Requests : key[q] = QuarantinedKey(s) => q = s
    BY KeysDiffer, KeysHaveType DEF Sound, ControlInv, Control, Ids
  <2>3. \A q \in Requests : current[q].screenshot # QuarantinedKey(s)
    BY QuarantinedIsNotGiven
  <2>. QED
    BY <1>1, <1>3, <1>4, <2>1, <2>2, <2>3, RemovedFiles, KeysDiffer
<1>. QED
  BY <1>3, <1>4

\* A repair is begun because of the only kind of fault that happens, and what it
\* needs stays as it was until then.
LEMMA StepRepairing ==
  ASSUME Calm, [Next]_vars, Mild', NEW s \in Requests
  PROVE  Repairing(s)'
<1>0. /\ TypeOK /\ Control(s) /\ Repairing(s) /\ AsRead(s) /\ Bookmark(s) \notin contended
      /\ "crash" \notin faults' /\ "lost_reply" \notin faults'
  BY DEF Calm, Sound, ControlInv, Lasts, UrlInv, Mild
<1>1. faults \subseteq faults'
  BY StepMild DEF Calm, Lasts, UrlInv
<1>. USE <1>0 DEF TypeOK, Repairing, Bookmark, Op, At, Goto, locals
<1>2. CASE BeginCreate(s) \/ BeginUpdate(s)
  BY <1>2 DEF BeginCreate, BeginUpdate, Begin
<1>3. CASE BeginDelete(s)
  BY <1>3 DEF BeginDelete, Begin, Snapshot, Control
<1>4. CASE Insert(s) \/ Write(s)
  <2>1. pc'[s] = "compensate" => Fault("db") \/ Fault("lost_reply")
    BY <1>4 DEF Insert, Write, AsRead, Control
  <2>. QED
    BY <1>4, <2>1 DEF Insert, Write, AfterFailedWrite, Fault
<1>5. CASE Quarantine(s)
  <2>1. current[s].screenshot # QuarantinedKey(s)
    BY QuarantinedIsNotGiven DEF Calm
  <2>2. QuarantinedKey(s) # NoKey
    BY KeysHaveType
  <2>. QED
    BY <1>5, <2>1, <2>2 DEF Quarantine, MoveFile, Rename
<1>6. CASE Delete(s)
  <2>1. /\ pc[s] = "delete" /\ UNCHANGED <<files, input, current, key>>
        /\ pc'[s] \in {"saved", "remove_quarantined", "refused", "restore"}
    BY <1>6 DEF Delete, AfterFailedDelete
  <2>2. ASSUME pc'[s] = "restore"
        PROVE  Fault("db") /\ UNCHANGED <<bookmarks, screenshot>> /\ key[s] # NoKey
    BY <1>6, <2>2 DEF Delete, AfterFailedDelete, AsRead, Control, database, Fault
  <2>3. Bookmark(s) \in bookmarks /\ current[s].screenshot = screenshot[Bookmark(s)]
    BY <2>1 DEF AsRead, Control
  <2>. QED
    BY <2>1, <2>2, <2>3 DEF Fault
<1>7. CASE RemoveOld(s) \/ RemoveQuarantined(s)
  BY <1>7 DEF RemoveOld, RemoveQuarantined, RemoveFails, Fault
<1>8. CASE \/ Promote(s) \/ MarkBeforeInsert(s) \/ Compensate(s) \/ FindDraft(s) \/ MarkAfterWrite(s)
           \/ RecordOld(s) \/ Restore(s) \/ RecordQuarantined(s) \/ Crash(s)
  BY <1>8 DEF Promote, MarkBeforeInsert, Compensate, FindDraft, MarkAfterWrite, RecordOld, Record, Restore,
     RecordQuarantined, Crash
<1>9. CASE ~Step(s)
  <2>1. UNCHANGED <<pc[s], input[s], current[s], key[s]>>
    BY <1>9, StepOthers DEF Next, vars, CleanUp, Others
  <2>2. ASSUME pc[s] \in {"delete", "restore"}, key[s] # NoKey
        PROVE  key[s] \in files' /\ current[s].screenshot \notin files'
    BY <1>9, <2>2, HiddenStays
  <2>3. ASSUME pc[s] = "restore"
        PROVE  Bookmark(s) \in bookmarks' /\ screenshot'[Bookmark(s)] = screenshot[Bookmark(s)]
    <3>1. Bookmark(s) \in Ids /\ Bookmark(s) \in bookmarks /\ s \in InFlight
      BY <2>3 DEF Control, InFlight, Ended
    <3>2. CASE SameRows
      BY <3>1, <3>2 DEF SameRows
    <3>3. ASSUME NEW r \in Requests \ {s}, r \in InFlight, RowsBut(Bookmark(r))
          PROVE  Bookmark(s) \in bookmarks' /\ screenshot'[Bookmark(s)] = screenshot[Bookmark(s)]
      <4>1. Bookmark(r) # Bookmark(s)
        BY <3>1, <3>3 DEF Calm, Lasts, UrlInv, Apart
      <4>. QED
        BY <3>1, <3>3, <4>1 DEF RowsBut
    <3>4. \/ SameRows
          \/ \E r \in Requests \ {s} : r \in InFlight /\ RowsBut(Bookmark(r))
      BY <1>9, StepRowOf DEF Next, CleanUp, vars, database, SameRows, Calm, Sound
    <3>. QED
      BY <3>2, <3>3, <3>4
  <2>. QED
    BY <1>1, <2>1, <2>2, <2>3
<1>. QED
  BY <1>2, <1>3, <1>4, <1>5, <1>6, <1>7, <1>8, <1>9 DEF Step

\* The file of a row goes over into the hand of the request that takes it from the row.
LEMMA StepReferenced ==
  ASSUME Calm, [Next]_vars, Mild', NEW k \in files, Referenced(k)
  PROVE  Kept(k)'
<1>0. TypeOK /\ "lost_reply" \notin faults' /\ k # NoKey
  BY KeysHaveType DEF Calm, Sound, Mild, TypeOK
<1>1. PICK b \in bookmarks : screenshot[b] = k /\ b \in Ids
  BY <1>0 DEF Referenced, Shows, TypeOK
<1>2. SUFFICES ASSUME ~Referenced(k)' PROVE \E r \in Requests : InHand(r, k)'
  BY DEF Kept
<1>3. b \notin bookmarks' \/ screenshot'[b] # screenshot[b]
  BY <1>0, <1>1, <1>2 DEF Referenced, Shows
<1>4. PICK r \in Requests : (Insert(r) \/ Write(r) \/ Delete(r)) /\ r \in InFlight /\ RowsBut(Bookmark(r))
  BY <1>0, <1>3, StepRowOf DEF Next, CleanUp, vars, database, SameRows, Calm, Sound
<1>5. /\ Bookmark(r) = b /\ Control(r) /\ Repairing(r) /\ AsRead(r) /\ Bookmark(r) \notin contended
  BY <1>1, <1>3, <1>4 DEF RowsBut, Calm, Sound, ControlInv, Lasts, UrlInv, Mild
<1>. USE DEF At, Goto, TypeOK, locals, database
<1>6. CASE Insert(r)
  <2>1. r \in bookmarks /\ pc[r] = "insert"
    BY <1>1, <1>5, <1>6 DEF Insert, Control
  <2>. QED
    BY <2>1, ConstantsAssumption DEF Calm, Sound, FilesInv, Rows, Inserted
<1>7. CASE Write(r)
  <2>1. UpdateRow(r) /\ UNCHANGED <<input, current, key>> /\ pc[r] = "write"
    BY <1>3, <1>7 DEF Write
  <2>2. pc'[r] \in {"mark", "remove_old"}
    BY <1>0, <1>3, <1>7 DEF Write, Fault
  <2>3. Replaces(r) /\ current[r].screenshot = k
    BY <1>1, <1>3, <1>5, <2>1 DEF UpdateRow, AsRead, Control
  <2>. QED
    BY <1>0, <2>1, <2>2, <2>3 DEF InHand, Replaces, Capture
<1>8. CASE Delete(r)
  <2>1. pc[r] = "delete" /\ current[r].screenshot = k
    BY <1>1, <1>5, <1>8 DEF Delete, AsRead, Control
  <2>. QED
    BY <1>0, <1>5, <2>1 DEF Repairing
<1>. QED
  BY <1>4, <1>6, <1>7, <1>8

\* The request that has a file in its hand gives it to a row, removes it or records
\* it: the repair meets no second kind of fault.
LEMMA StepInHand ==
  ASSUME Calm, [Next]_vars, Mild', NEW k \in files, k \in files', NEW r \in Requests, InHand(r, k)
  PROVE  Kept(k)'
<1>0. /\ TypeOK /\ "lost_reply" \notin faults' /\ "crash" \notin faults' /\ k # NoKey /\ k \in Keys
      /\ Control(r) /\ Repairing(r)
  BY KeysHaveType DEF Calm, Sound, ControlInv, Mild, TypeOK
<1>1. faults \subseteq faults' /\ (\A x, y \in faults' : x = y)
  BY StepMild DEF Calm, Lasts, UrlInv
<1>. USE <1>0 DEF TypeOK, Op, At, Goto, locals, InHand
<1>2. ASSUME InHand(r, k)' PROVE Kept(k)'
  BY <1>2 DEF Kept
<1>3. CASE ~Step(r)
  <2>1. UNCHANGED <<pc[r], input[r], current[r], key[r]>>
    BY <1>3, StepOthers DEF Next, vars, CleanUp, Others
  <2>. QED
    BY <1>2, <2>1 DEF Replaces, Capture
<1>4. CASE BeginCreate(r) \/ BeginUpdate(r) \/ BeginDelete(r) \/ Promote(r) \/ FindDraft(r) \/ Quarantine(r)
  BY <1>4 DEF BeginCreate, BeginUpdate, BeginDelete, Begin, Promote, FindDraft, Quarantine
<1>5. CASE MarkBeforeInsert(r) \/ MarkAfterWrite(r)
  <2>1. InHand(r, k)'
    BY <1>5 DEF MarkBeforeInsert, MarkAfterWrite, Replaces, Capture
  <2>. QED
    BY <1>2, <2>1
<1>6. CASE Insert(r)
  <2>1. k = key[r] /\ pc[r] = "insert" /\ UNCHANGED key
    BY <1>6 DEF Insert
  <2>2. CASE InsertRow(r)
    <3>1. r \in bookmarks' /\ screenshot'[r] = k
      BY <2>1, <2>2 DEF InsertRow, Ids
    <3>. QED
      BY <3>1 DEF Kept, Referenced, Shows
  <2>3. CASE ~InsertRow(r)
    <3>1. pc'[r] = "compensate"
      BY <1>6, <2>1, <2>3 DEF Insert, AfterFailedWrite
    <3>. QED
      BY <1>2, <2>1, <3>1
  <2>. QED
    BY <2>2, <2>3
<1>7. CASE Write(r)
  <2>1. k = key[r] /\ pc[r] = "write" /\ UNCHANGED key
    BY <1>7 DEF Write
  <2>2. CASE UpdateRow(r)
    <3>1. Op(r) = "update" /\ Bookmark(r) \in Ids
      BY <2>1 DEF Control
    <3>2. Capture(r) \in Drafts
      BY <2>1, <3>1 DEF Calm, Lasts, UrlInv, OfUrl, Drew
    <3>3. Replaces(r)
      BY <3>2, ConstantsAssumption DEF Replaces
    <3>4. Bookmark(r) \in bookmarks' /\ screenshot'[Bookmark(r)] = k
      BY <2>1, <2>2, <3>1, <3>3 DEF UpdateRow
    <3>. QED
      BY <3>4 DEF Kept, Referenced, Shows
  <2>3. CASE ~UpdateRow(r)
    <3>1. pc'[r] = "compensate"
      BY <1>7, <2>1, <2>3 DEF Write, AfterFailedWrite
    <3>. QED
      BY <1>2, <2>1, <3>1
  <2>. QED
    BY <2>2, <2>3
<1>8. CASE Compensate(r)
  <2>1. k = key[r] /\ "db" \in faults
    BY <1>8 DEF Compensate, Repairing
  <2>2. RemoveFails
    BY <1>8, <2>1 DEF Compensate, RemoveFile, Unlink
  <2>3. "db" \in faults' /\ "unlink" \in faults'
    BY <1>1, <2>1, <2>2 DEF RemoveFails, Fault
  <2>. QED
    BY <1>1, <2>3
<1>9. CASE Delete(r)
  <2>1. k = key[r] /\ pc[r] = "delete" /\ UNCHANGED key
    BY <1>9 DEF Delete
  <2>2. pc'[r] \in {"remove_quarantined", "restore"}
    BY <1>9, <2>1 DEF Delete, AfterFailedDelete
  <2>. QED
    BY <1>2, <2>1, <2>2
<1>10. CASE Restore(r)
  <2>1. k = key[r] /\ pc[r] = "restore" /\ "db" \in faults
    BY <1>10 DEF Restore, Repairing
  <2>2. k = QuarantinedKey(r)
    BY <2>1 DEF Control
  <2>3. current[r].screenshot # k
    BY <2>2, QuarantinedIsNotGiven DEF Calm
  <2>4. Fault("restore")
    BY <1>10, <2>1, <2>3 DEF Restore, MoveFile, MoveFails, CanRename, Rename
  <2>5. "db" \in faults' /\ "restore" \in faults'
    BY <1>1, <2>1, <2>4 DEF Fault
  <2>. QED
    BY <1>1, <2>5
<1>11. CASE RemoveQuarantined(r)
  <2>1. k = key[r] /\ UNCHANGED key /\ pc'[r] = "record_quarantined"
    BY <1>11 DEF RemoveQuarantined, RemoveFile, Unlink
  <2>. QED
    BY <1>2, <2>1
<1>12. CASE RemoveOld(r)
  <2>1. k = current[r].screenshot /\ Replaces(r) /\ UNCHANGED <<input, current>> /\ pc'[r] = "record_old"
    BY <1>12 DEF RemoveOld, RemoveFile, Unlink
  <2>. QED
    BY <1>2, <2>1 DEF Replaces, Capture
<1>13. CASE RecordOld(r) \/ RecordQuarantined(r)
  BY <1>1, <1>13 DEF RecordOld, RecordQuarantined, Record, Fault, Repairing, Kept
<1>14. ~Crash(r)
  BY StepMild DEF Calm, Lasts, UrlInv
<1>. QED
  BY <1>3, <1>4, <1>5, <1>6, <1>7, <1>8, <1>9, <1>10, <1>11, <1>12, <1>13, <1>14 DEF Step

LEMMA StepKept ==
  ASSUME Calm, [Next]_vars, Mild', NEW k \in files'
  PROVE  Kept(k)'
<1>0. TypeOK /\ ControlInv
  BY DEF Calm, Sound
<1>1. ASSUME NEW r \in Requests, k = key'[r], pc'[r] \in {"mark_then_insert", "write", "delete"}
      PROVE  Kept(k)'
  BY <1>1 DEF Kept, InHand
<1>2. ASSUME NEW r \in Requests, Restore(r), k = current[r].screenshot
      PROVE  Kept(k)'
  <2>1. Bookmark(r) \in bookmarks /\ screenshot[Bookmark(r)] = k /\ k # NoKey
    BY <1>0, <1>2 DEF Restore, At, ControlInv, Control, Calm, Repairing
  <2>. QED
    BY <1>2, <2>1 DEF Restore, database, Kept, Referenced, Shows
<1>3. CASE k \notin files
  BY <1>1, <1>2, <1>3, NewFiles DEF Calm
<1>4. CASE k \in files /\ k \in cleanup
  <2>1. \A c : CleanUp(c) => c # k
    BY DEF CleanUp, Unlink
  <2>2. k \in cleanup'
    BY <1>4, <2>1 DEF Next, Step, vars, database, CleanUp, BeginCreate, BeginUpdate, BeginDelete, Begin, Promote,
       MarkBeforeInsert, Insert, InsertRow, Compensate, FindDraft, Write, UpdateRow, MarkAfterWrite, RemoveOld,
       RecordOld, Record, Quarantine, Delete, DeleteRow, Restore, RemoveQuarantined, RecordQuarantined, Crash
  <2>. QED
    BY <2>2 DEF Kept
<1>5. CASE k \in Staged
  BY <1>5 DEF Kept, Staged
<1>. QED
  BY <1>3, <1>4, <1>5, StepReferenced, StepInHand DEF Calm, Kept

LEMMA StepLeak == IInv /\ Lasts /\ LeakInv /\ [Next]_vars => LeakInv'
<1>. SUFFICES ASSUME IInv, Lasts, LeakInv, [Next]_vars, Mild'
              PROVE  (\A r \in Requests : Repairing(r)') /\ \A k \in files' : Kept(k)'
  BY DEF LeakInv
<1>1. Mild
  BY StepMild DEF Lasts, UrlInv
<1>2. Calm
  BY <1>1 DEF Calm, LeakInv, IInv, Sound, Mild
<1>. QED
  BY <1>2, StepRepairing, StepKept

LEMMA InitLeak == Init => LeakInv
<1>. SUFFICES ASSUME Init PROVE LeakInv
  OBVIOUS
<1>1. \A b \in Seeds : Referenced(PromotedKey(b))
  <2>1. \A b \in Seeds : PromotedKey(b) # NoKey /\ b \in Ids
    BY KeysHaveType DEF Ids
  <2>. QED
    BY <2>1 DEF Init, Referenced, Shows
<1>. QED
  BY <1>1 DEF Init, LeakInv, Repairing, Kept, Staged

\* When the faults of a run are of one kind, except crashes and lost replies, and no two
\* requests have worked on a bookmark at a time, then at rest every file belongs to a
\* row, to a draft that is still ready or to a cleanup record: nothing is left behind
\* (create.go:68-75, update.go:79-86 and 92-100, delete.go:39-56).
THEOREM NothingIsLeftBehind == Spec => []NothingLeaks
<1>1. IInv /\ Lasts /\ LeakInv => NothingLeaks
  <2>. SUFFICES ASSUME Lasts, LeakInv, InFlight = {}, Mild, NEW k \in files
                PROVE  \/ Referenced(k) \/ k \in cleanup
                       \/ \E d \in Drafts : k = StagedKey(d) /\ draft[d] = "ready"
    BY DEF NothingLeaks, Mild
  <2>1. Kept(k)
    BY DEF LeakInv
  <2>2. \A r \in Requests : ~InHand(r, k)
    BY DEF InHand, InFlight, Ended
  <2>3. ASSUME NEW d \in Drafts, k = StagedKey(d) PROVE draft[d] = "ready"
    BY <2>3 DEF Lasts, TypeOK, DraftInv, DraftSpentOnce, ConsumedDraftHasNoStagedFile
  <2>. QED
    BY <2>1, <2>2, <2>3 DEF Kept, Staged
<1>2. Spec => [](IInv /\ Lasts /\ LeakInv)
  <2>1. IInv /\ Lasts /\ LeakInv /\ [Next]_vars => (IInv /\ Lasts /\ LeakInv)'
    BY StepInvariant, StepLasts, StepLeak
  <2>2. Init => IInv /\ Lasts /\ LeakInv
    BY InitInvariant, InitTypes, InitDrafts, InitFresh, InitUrl, InitLeak DEF Lasts
  <2>. QED
    BY <2>1, <2>2, PTL DEF Spec
<1>. QED
  BY <1>1, <1>2, PTL
=============================================================================
