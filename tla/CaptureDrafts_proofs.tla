------------------------- MODULE CaptureDrafts_proofs -------------------------
(***************************************************************************)
(* Proofs about CaptureDrafts for any drafts, requests, faults and bounds. *)
(***************************************************************************)
EXTENDS CaptureDrafts, FiniteSetTheorems, TLAPS

-----------------------------------------------------------------------------
(* Keys.                                                                   *)

\* A capture attempt and a save draw keys of their own.
LEMMA KeysDiffer ==
  ASSUME NEW a, NEW b
  PROVE  /\ StagedKey(a) = StagedKey(b) => a = b
         /\ StagedKey(a) # PromotedKey(b)
  BY DEF StagedKey, PromotedKey

\* The keys the store draws are keys, and the empty staged key is none.
LEMMA KeysHaveType ==
  /\ \A r \in Requests : StagedKey(r) \in StagedKeys /\ PromotedKey(r) \in Keys
  /\ StagedKeys \subseteq Keys
  /\ NoKey \notin Keys
  BY ConstantsAssumption DEF StagedKeys, Keys

-----------------------------------------------------------------------------
(* Types.  TypeOK is inductive.                                            *)

LEMMA InitTypes == Init => TypeOK
  BY ConstantsAssumption DEF Init, TypeOK, Labels, Ended

\* A database call that ends a step writes values of the columns' types.
LEMMA UpdateTypes ==
  ASSUME TypeOK, NEW r \in Requests,
         NEW s \in {"capturing", "ready", "failed", "consumed", "discarded"},
         UpdateDraft(r, s, key[r]) \/ UpdateDraftFails(r)
  PROVE  /\ state' \in [Drafts -> {"none", "capturing", "ready", "failed",
                                   "consumed", "discarded", "expired", "gone"}]
         /\ staged' \in [Drafts -> StagedKeys \cup {NoKey}]
         /\ faults' \subseteq Faults
  BY DEF TypeOK, UpdateDraft, UpdateDraftFails, SetRow, Reaches, Fails, Fault, NoFault, row

\* What a request that begins leaves in its own variables.
LEMMA BeginTypes ==
  ASSUME TypeOK, NEW r \in Requests, NEW d \in Drafts,
         NEW o \in {"start", "retry", "discard", "save"}, NEW label \in Labels,
         Begin(r, o, d, label)
  PROVE  /\ overdue' \subseteq Drafts /\ files' \subseteq Keys /\ pc' \in [Requests -> Labels]
         /\ op' \in [Requests -> {"none", "start", "retry", "discard", "save"}]
         /\ draft' \in [Requests -> Drafts \cup {NoDraft}]
         /\ key' \in [Requests -> StagedKeys \cup {NoKey}]
         /\ left' \subseteq Requests /\ faults' \subseteq Faults /\ overlapped' \subseteq Drafts
  BY DEF TypeOK, Begin, Goto, WorkOn

LEMMA StepTypes == TypeOK /\ [Next]_vars => TypeOK'
<1>. SUFFICES ASSUME TypeOK, [Next]_vars PROVE TypeOK'
  OBVIOUS
<1>. USE KeysHaveType
<1>1. ASSUME NEW r \in Requests, NEW d \in Drafts, BeginStart(r, d) PROVE TypeOK'
  <2>1. Begin(r, "start", d, "capture") /\ SetRow(d, "capturing", NoKey)
    BY <1>1 DEF BeginStart
  <2>2. "capture" \in Labels
    BY DEF Labels
  <2>. QED
    BY <2>1, <2>2, BeginTypes DEF SetRow, TypeOK
<1>2. ASSUME NEW r \in Requests, NEW d \in Drafts, BeginRetry(r, d) PROVE TypeOK'
  <2>1. Begin(r, "retry", d, "restart") /\ UNCHANGED row /\ "restart" \in Labels
    BY <1>2 DEF BeginRetry, Labels
  <2>. QED
    BY <2>1, BeginTypes DEF row, TypeOK
<1>3. ASSUME NEW r \in Requests, NEW d \in Drafts, BeginDiscard(r, d) PROVE TypeOK'
  <2>1. PICK label \in {"mark_discarded", "unlink"} : Begin(r, "discard", d, label)
    BY <1>3 DEF BeginDiscard
  <2>2. label \in Labels /\ UNCHANGED row
    BY <1>3 DEF Labels, BeginDiscard
  <2>. QED
    BY <2>1, <2>2, BeginTypes DEF row, TypeOK
<1>4. ASSUME NEW r \in Requests, NEW d \in Drafts, BeginSave(r, d) PROVE TypeOK'
  <2>1. Begin(r, "save", d, "promote") /\ UNCHANGED row /\ "promote" \in Labels
    BY <1>4 DEF BeginSave, Labels
  <2>. QED
    BY <2>1, BeginTypes DEF row, TypeOK
<1>. USE DEF request, Goto, Labels, Ended
<1>5. ASSUME NEW r \in Requests, Restart(r) PROVE TypeOK'
  <2>1. UpdateDraft(r, "capturing", key[r]) \/ UpdateDraftFails(r)
    BY <1>5 DEF Restart
  <2>. QED
    BY <1>5, <2>1, UpdateTypes DEF Restart, TypeOK
<1>6. ASSUME NEW r \in Requests, Capture(r) PROVE TypeOK'
  <2>1. files' \subseteq Keys /\ key' \in [Requests -> StagedKeys \cup {NoKey}]
    BY <1>6 DEF Capture, TypeOK
  <2>2. pc' \in [Requests -> Labels]
    BY <1>6 DEF Capture, TypeOK
  <2>. QED
    BY <1>6, <2>1, <2>2 DEF Capture, TypeOK, row, NoFault
<1>7. ASSUME NEW r \in Requests, StoreReady(r) \/ StoreFailed(r) PROVE TypeOK'
  <2>1. PICK s \in {"ready", "failed"} : UpdateDraft(r, s, key[r]) \/ UpdateDraftFails(r)
    BY <1>7 DEF StoreReady, StoreFailed, Store
  <2>. QED
    BY <1>7, <2>1, UpdateTypes DEF StoreReady, StoreFailed, Store, TypeOK
<1>8. ASSUME NEW r \in Requests, UnlinkStaged(r) PROVE TypeOK'
  BY <1>8 DEF UnlinkStaged, TypeOK, row, Unlink, NoFault, Fault
<1>9. ASSUME NEW r \in Requests, MarkDiscarded(r) PROVE TypeOK'
  <2>1. UpdateDraft(r, "discarded", key[r]) \/ UpdateDraftFails(r)
    BY <1>9 DEF MarkDiscarded
  <2>. QED
    BY <1>9, <2>1, UpdateTypes DEF MarkDiscarded, TypeOK
<1>10. ASSUME NEW r \in Requests, Promote(r) PROVE TypeOK'
  BY <1>10 DEF Promote, TypeOK, row, Rename, NoFault
<1>11. ASSUME NEW r \in Requests, MarkConsumed(r) PROVE TypeOK'
  <2>1. UpdateDraft(r, "consumed", key[r]) \/ UpdateDraftFails(r)
    BY <1>11 DEF MarkConsumed
  <2>. QED
    BY <1>11, <2>1, UpdateTypes DEF MarkConsumed, TypeOK
<1>12. ASSUME NEW r \in Requests, AbandonSave(r) PROVE TypeOK'
  BY <1>12 DEF AbandonSave, TypeOK, row, Unlink, NoFault, Fault
<1>13. ASSUME NEW r \in Requests, ClientLeaves(r) PROVE TypeOK'
  BY <1>13 DEF ClientLeaves, TypeOK, row, Fault, InFlight
<1>14. ASSUME NEW r \in Requests, Crash(r) PROVE TypeOK'
  BY <1>14 DEF Crash, TypeOK, row, Fault
<1>15. ASSUME NEW d \in Drafts, BecomeOverdue(d) \/ DropSession(d) PROVE TypeOK'
  BY <1>15 DEF BecomeOverdue, DropSession, SetRow, WorkOn, TypeOK, row
<1>16. ASSUME NEW D \in SUBSET Drafts, Expire(D) PROVE TypeOK'
  BY <1>16 DEF Expire, WorkOn, TypeOK
<1>17. CASE UNCHANGED vars
  BY <1>17 DEF vars, row, TypeOK
<1>. QED
  BY <1>1, <1>2, <1>3, <1>4, <1>5, <1>6, <1>7, <1>8, <1>9, <1>10, <1>11, <1>12, <1>13, <1>14,
     <1>15, <1>16, <1>17 DEF Next, BeginSome, Serve

\* Every row, file and request of a behaviour has its type (the columns of
\* capture_drafts and the local variables of capture.go, create.go, update.go).
THEOREM TypesHold == Spec => []TypeOK
  BY InitTypes, StepTypes, PTL DEF Spec

-----------------------------------------------------------------------------
(* The files of a draft.  A key is drawn once, by a capture that can draw  *)
(* no other; a file that has been taken therefore never comes back, and a  *)
(* file that has not been taken stays.                                     *)

\* What the step a request has reached says of its operation.
Control(r) ==
  /\ pc[r] = "idle" => op[r] = "none"
  /\ pc[r] \in {"restart", "capture", "store_ready", "store_failed"} => op[r] \in {"start", "retry"}
  /\ pc[r] \in {"unlink", "mark_discarded"} => op[r] = "discard"
  /\ pc[r] \in {"promote", "mark_consumed", "saved"} => op[r] = "save"

\* The attempt that drew the key k has captured, and will not again.
Past == {"store_ready", "store_failed", "answered", "crashed"}
Drawn(k) == \E q \in Requests : k = StagedKey(q) /\ pc[q] \in Past

\* Whoever knows a key knows one that was drawn.
KeysDrawn == /\ \A d \in Drafts : staged[d] # NoKey => Drawn(staged[d])
             /\ \A r \in Requests : key[r] # NoKey => Drawn(key[r])

\* A save that goes on has moved its file away for good.
Gone(r) == pc[r] \in {"mark_consumed", "saved"} => key[r] \notin files

\* The file of k is there, or a save or a discard has taken it.
Kept(k) == k # NoKey /\ (k \in files \/ \E r \in Requests : Took(r, k))

Outcome(r) == pc[r] = "store_ready" => Kept(key[r])

IInv == /\ TypeOK /\ KeysDrawn /\ PreviewLastsUntilTaken
        /\ \A r \in Requests : Control(r) /\ Gone(r) /\ Outcome(r)

LEMMA InitInvariant == Init => IInv
<1>. SUFFICES ASSUME Init PROVE IInv
  OBVIOUS
<1>1. TypeOK
  BY InitTypes
<1>2. KeysDrawn /\ PreviewLastsUntilTaken
  BY DEF Init, KeysDrawn, PreviewLastsUntilTaken
<1>3. \A r \in Requests : Control(r) /\ Gone(r) /\ Outcome(r)
  BY DEF Init, Control, Gone, Outcome
<1>. QED
  BY <1>1, <1>2, <1>3 DEF IInv

\* The control flow of a request.
LEMMA StepControl ==
  ASSUME TypeOK, \A r \in Requests : Control(r), [Next]_vars
  PROVE  \A r \in Requests : Control(r)'
<1>. USE DEF TypeOK, Control, At, Goto, request
<1>1. ASSUME NEW r \in Requests, BeginSome(r) PROVE \A s \in Requests : Control(s)'
  BY <1>1 DEF BeginSome, BeginStart, BeginRetry, BeginDiscard, BeginSave, Begin
<1>2. ASSUME NEW r \in Requests, Serve(r) PROVE \A s \in Requests : Control(s)'
  <2>1. CASE Restart(r)
    BY <2>1 DEF Restart
  <2>2. CASE Capture(r)
    BY <2>2 DEF Capture
  <2>3. CASE StoreReady(r) \/ StoreFailed(r)
    BY <2>3 DEF StoreReady, StoreFailed, Store
  <2>4. CASE UnlinkStaged(r)
    BY <2>4 DEF UnlinkStaged
  <2>5. CASE MarkDiscarded(r)
    BY <2>5 DEF MarkDiscarded
  <2>6. CASE Promote(r)
    BY <2>6 DEF Promote
  <2>7. CASE MarkConsumed(r)
    BY <2>7 DEF MarkConsumed
  <2>8. CASE AbandonSave(r)
    BY <2>8 DEF AbandonSave
  <2>. QED
    BY <1>2, <2>1, <2>2, <2>3, <2>4, <2>5, <2>6, <2>7, <2>8 DEF Serve
<1>3. ASSUME NEW r \in Requests, ClientLeaves(r) \/ Crash(r) PROVE \A s \in Requests : Control(s)'
  BY <1>3 DEF ClientLeaves, Crash, InFlight
<1>4. ASSUME NEW d \in Drafts, BecomeOverdue(d) \/ DropSession(d) PROVE \A s \in Requests : Control(s)'
  BY <1>4 DEF BecomeOverdue, DropSession
<1>5. ASSUME NEW D \in SUBSET Drafts, Expire(D) PROVE \A s \in Requests : Control(s)'
  BY <1>5 DEF Expire
<1>6. CASE UNCHANGED vars
  BY <1>6 DEF vars
<1>. QED
  BY <1>1, <1>2, <1>3, <1>4, <1>5, <1>6 DEF Next

(* What one step can do, whichever it is.                                  *)

\* A request that has begun keeps its operation, and its key but for a capture;
\* one that has captured or taken its file does not do so again.
Lasting(s) ==
  /\ pc[s] # "idle" => pc'[s] # "idle" /\ op'[s] = op[s]
  /\ pc[s] \notin {"idle", "capture"} => key'[s] = key[s]
  /\ pc[s] \in Past => pc'[s] \in Past
  /\ pc[s] \notin {"idle", "unlink", "promote"} => pc'[s] \notin {"unlink", "promote"}

\* A row gets the key of a request, and is made ready by an outcome only.
RowEffect(d) ==
  /\ \/ staged'[d] \in {staged[d], NoKey}
     \/ \E r \in Requests : staged'[d] = key[r]
  /\ state'[d] = "ready" => \/ state[d] = "ready" /\ staged'[d] = staged[d]
                            \/ \E r \in Requests : pc[r] = "store_ready" /\ staged'[d] = key[r]

\* A request reads its key from a row, or draws it; it reaches the outcome
\* ready, or goes on with a save, only with a file found, or moved, on the way.
KeyEffect(s) ==
  /\ \/ key'[s] = key[s]
     \/ pc[s] = "idle" /\ \E d \in Drafts : key'[s] = staged[d]
     \/ pc[s] = "capture" /\ key'[s] = StagedKey(s) /\ pc'[s] \in Past
  /\ pc'[s] = "store_ready" => \/ pc[s] = "store_ready"
                               \/ key'[s] = StagedKey(s) /\ key'[s] \in files'
  /\ pc'[s] \in {"mark_consumed", "saved"} => \/ pc[s] \in {"mark_consumed", "saved"}
                                              \/ /\ pc[s] = "promote" /\ key'[s] = key[s]
                                                 /\ key[s] \in files \ files'

\* A staged file appears by a capture, and disappears by a save or a discard.
FileEffect(k) ==
  /\ k \in files' \ files => \E q \in Requests : pc[q] = "capture" /\ k = StagedKey(q)
  /\ k \in files \ files' => \E r \in Requests : Took(r, k)'

\* One request moves at a time.
OneMoves == \A r, s \in Requests : pc'[r] # pc[r] /\ pc'[s] # pc[s] => r = s

Effect == /\ OneMoves
          /\ \A s \in Requests : Lasting(s) /\ KeyEffect(s)
          /\ \A d \in Drafts : RowEffect(d)
          /\ \A k \in StagedKeys : FileEffect(k)

LEMMA StepEffect ==
  ASSUME TypeOK, \A r \in Requests : Control(r), [Next]_vars
  PROVE  Effect
<1>. USE DEF TypeOK, Control, At, Goto, request, row, Past, Ended,
             Effect, OneMoves, Lasting, RowEffect, KeyEffect, FileEffect, Took
<1>0. \A k \in StagedKeys, r \in Requests : k # PromotedKey(r)
  BY KeysDiffer DEF StagedKeys
<1>1. ASSUME NEW r \in Requests, BeginSome(r) PROVE Effect
  BY <1>1 DEF BeginSome, BeginStart, BeginRetry, BeginDiscard, BeginSave, Begin, SetRow
<1>2. CASE \E r \in Requests : Restart(r)
  BY <1>2 DEF Restart, UpdateDraft, UpdateDraftFails, SetRow
<1>3. CASE \E r \in Requests : Capture(r)
  BY <1>3, KeysDiffer DEF Capture
<1>4. CASE \E r \in Requests : StoreReady(r)
  BY <1>4 DEF StoreReady, Store, UpdateDraft, UpdateDraftFails, SetRow
<1>5. CASE \E r \in Requests : StoreFailed(r)
  BY <1>5 DEF StoreFailed, Store, UpdateDraft, UpdateDraftFails, SetRow
<1>6. CASE \E r \in Requests : UnlinkStaged(r)
  BY <1>6 DEF UnlinkStaged, Unlink
<1>7. CASE \E r \in Requests : MarkDiscarded(r)
  BY <1>7 DEF MarkDiscarded, UpdateDraft, UpdateDraftFails, SetRow
<1>8. CASE \E r \in Requests : Promote(r)
  BY <1>8, <1>0, KeysHaveType DEF Promote, CanRename, Rename
<1>9. CASE \E r \in Requests : MarkConsumed(r)
  BY <1>9 DEF MarkConsumed, UpdateDraft, UpdateDraftFails, SetRow
<1>10. CASE \E r \in Requests : AbandonSave(r)
  BY <1>10, <1>0 DEF AbandonSave, Unlink
<1>11. CASE \E r \in Requests : ClientLeaves(r) \/ Crash(r)
  BY <1>11 DEF ClientLeaves, Crash, InFlight
<1>12. CASE \E d \in Drafts : BecomeOverdue(d) \/ DropSession(d)
  BY <1>12 DEF BecomeOverdue, DropSession, SetRow
<1>13. CASE \E D \in SUBSET Drafts : Expire(D)
  BY <1>13 DEF Expire
<1>14. CASE UNCHANGED vars
  BY <1>14 DEF vars
<1>. QED
  BY <1>1, <1>2, <1>3, <1>4, <1>5, <1>6, <1>7, <1>8, <1>9, <1>10, <1>11, <1>12, <1>13, <1>14
     DEF Next, Serve

-----------------------------------------------------------------------------
(* The parts of the invariant.                                             *)

LEMMA StepDrawn ==
  ASSUME TypeOK, TypeOK', KeysDrawn, Effect
  PROVE  KeysDrawn'
<1>1. ASSUME NEW k \in StagedKeys, Drawn(k) PROVE Drawn(k)'
  BY <1>1 DEF Drawn, Effect, Lasting
<1>2. ASSUME NEW d \in Drafts, NEW k \in StagedKeys, staged'[d] = k PROVE Drawn(k)'
  <2>1. CASE staged[d] = k
    BY <1>1, <2>1, KeysHaveType DEF KeysDrawn
  <2>2. CASE \E r \in Requests : key[r] = k
    BY <1>1, <2>2, KeysHaveType DEF KeysDrawn
  <2>. QED
    BY <1>2, <2>1, <2>2, KeysHaveType DEF Effect, RowEffect
<1>3. ASSUME NEW s \in Requests, NEW k \in StagedKeys, key'[s] = k PROVE Drawn(k)'
  <2>1. CASE key[s] = k \/ \E d \in Drafts : staged[d] = k
    BY <1>1, <2>1, KeysHaveType DEF KeysDrawn
  <2>2. CASE k = StagedKey(s) /\ pc'[s] \in Past
    BY <2>2 DEF Drawn
  <2>. QED
    BY <1>3, <2>1, <2>2 DEF Effect, KeyEffect
<1>. QED
  BY <1>2, <1>3 DEF KeysDrawn, TypeOK

\* A drawn key's file, once gone, does not come back.
LEMMA GoneForGood ==
  ASSUME Effect, NEW k \in StagedKeys, Drawn(k), k \notin files
  PROVE  k \notin files'
<1>1. PICK q \in Requests : k = StagedKey(q) /\ pc[q] \in Past
  BY DEF Drawn
<1>2. \A p \in Requests : k = StagedKey(p) => pc[p] # "capture"
  BY <1>1, KeysDiffer DEF Past
<1>. QED
  BY <1>2 DEF Effect, FileEffect

LEMMA StepGone ==
  ASSUME TypeOK, KeysDrawn, Effect, NEW s \in Requests, Gone(s), TypeOK'
  PROVE  Gone(s)'
<1>. SUFFICES ASSUME pc'[s] \in {"mark_consumed", "saved"} PROVE key'[s] \notin files'
  BY DEF Gone
<1>1. CASE pc[s] \in {"mark_consumed", "saved"}
  <2>1. key'[s] = key[s] /\ key[s] \notin files
    BY <1>1 DEF Effect, Lasting, Gone
  <2>2. CASE key[s] = NoKey
    BY <2>1, <2>2, KeysHaveType DEF TypeOK
  <2>3. CASE key[s] # NoKey
    <3>1. key[s] \in StagedKeys /\ Drawn(key[s])
      BY <2>3 DEF TypeOK, KeysDrawn
    <3>. QED
      BY <3>1, <2>1, GoneForGood
  <2>. QED
    BY <2>2, <2>3
<1>2. CASE pc[s] \notin {"mark_consumed", "saved"}
  BY <1>2 DEF Effect, KeyEffect
<1>. QED
  BY <1>1, <1>2

\* A file is kept for good: in the directory, or by whoever took it.
LEMMA StepKept ==
  ASSUME TypeOK, \A r \in Requests : Control(r), Effect, NEW k \in StagedKeys, Kept(k)
  PROVE  Kept(k)'
<1>1. k # NoKey
  BY DEF Kept
<1>2. CASE k \in files
  BY <1>1, <1>2 DEF Effect, FileEffect, Kept
<1>3. CASE \E r \in Requests : Took(r, k)
  <2>1. PICK r \in Requests : Took(r, k)
    BY <1>3
  <2>2. pc[r] \notin {"idle", "capture"}
    BY <2>1 DEF Took, Control
  <2>3. Took(r, k)'
    BY <2>1, <2>2 DEF Took, Effect, Lasting
  <2>. QED
    BY <1>1, <2>3 DEF Kept
<1>. QED
  BY <1>2, <1>3 DEF Kept

LEMMA StepOutcome ==
  ASSUME TypeOK, \A r \in Requests : Control(r), Effect, NEW s \in Requests, Outcome(s)
  PROVE  Outcome(s)'
<1>. SUFFICES ASSUME pc'[s] = "store_ready" PROVE Kept(key[s])'
  BY DEF Outcome
<1>1. CASE pc[s] = "store_ready"
  <2>1. key'[s] = key[s] /\ Kept(key[s])
    BY <1>1 DEF Effect, Lasting, Outcome
  <2>2. PICK k \in StagedKeys : k = key[s]
    BY <2>1 DEF Kept, TypeOK
  <2>3. Kept(k)'
    BY <2>1, <2>2, StepKept
  <2>. QED
    BY <2>1, <2>2, <2>3 DEF Kept, Took
<1>2. CASE pc[s] # "store_ready"
  <2>1. key'[s] = StagedKey(s) /\ key'[s] \in files'
    BY <1>2 DEF Effect, KeyEffect
  <2>2. key'[s] # NoKey
    BY <2>1, KeysHaveType
  <2>. QED
    BY <2>1, <2>2 DEF Kept
<1>. QED
  BY <1>1, <1>2

LEMMA StepPreview ==
  ASSUME TypeOK, TypeOK', \A r \in Requests : Control(r) /\ Outcome(r), Effect, PreviewLastsUntilTaken
  PROVE  PreviewLastsUntilTaken'
<1>. SUFFICES ASSUME NEW d \in Drafts, state'[d] = "ready" PROVE Kept(staged[d])'
  BY DEF PreviewLastsUntilTaken, Kept
<1>1. Kept(staged'[d])
  <2>1. CASE state[d] = "ready" /\ staged'[d] = staged[d]
    BY <2>1 DEF PreviewLastsUntilTaken, Kept
  <2>2. CASE \E r \in Requests : pc[r] = "store_ready" /\ staged'[d] = key[r]
    BY <2>2 DEF Outcome
  <2>. QED
    BY <2>1, <2>2 DEF Effect, RowEffect
<1>2. PICK k \in StagedKeys : k = staged'[d]
  BY <1>1 DEF Kept, TypeOK
<1>3. Kept(k)'
  BY <1>1, <1>2, StepKept
<1>. QED
  BY <1>2, <1>3 DEF Kept, Took

LEMMA StepInvariant == IInv /\ [Next]_vars => IInv'
<1>. SUFFICES ASSUME IInv, [Next]_vars PROVE IInv'
  OBVIOUS
<1>1. TypeOK'
  BY StepTypes DEF IInv
<1>2. \A r \in Requests : Control(r)'
  BY StepControl DEF IInv
<1>3. Effect
  BY StepEffect DEF IInv
<1>4. KeysDrawn'
  BY <1>1, <1>3, StepDrawn DEF IInv
<1>5. PreviewLastsUntilTaken'
  BY <1>1, <1>3, StepPreview DEF IInv
<1>6. \A r \in Requests : Gone(r)'
  BY <1>1, <1>3, StepGone DEF IInv
<1>7. \A r \in Requests : Outcome(r)'
  BY <1>3, StepOutcome DEF IInv
<1>. QED
  BY <1>1, <1>2, <1>4, <1>5, <1>6, <1>7 DEF IInv

LEMMA InvariantHolds == Spec => []IInv
  BY InitInvariant, StepInvariant, PTL DEF Spec

\* A draft that is ready has its image until a save or a discard of that image
\* takes it (capture.go:73-94), whatever interleaves or fails.
THEOREM PreviewLasts == Spec => []PreviewLastsUntilTaken
<1>1. IInv => PreviewLastsUntilTaken
  BY DEF IInv
<1>. QED
  BY <1>1, InvariantHolds, PTL

\* Two saves never go on with one image (create.go:90-108, update.go:68-77): the
\* one that promotes second finds that the file has gone.
THEOREM ImagesSavedOnce == Spec => []ImageSavedOnce
<1>1. Init => ImageSavedOnce
  BY DEF Init, ImageSavedOnce
<1>2. IInv /\ ImageSavedOnce /\ [Next]_vars => ImageSavedOnce'
  <2>. SUFFICES ASSUME IInv, ImageSavedOnce, [Next]_vars,
                       NEW r \in Requests, NEW s \in Requests, r # s,
                       {pc'[r], pc'[s]} \subseteq {"mark_consumed", "saved"}
                PROVE  key'[r] # key'[s]
    BY DEF ImageSavedOnce
  <2>. DEFINE Saves(q) == pc[q] \in {"mark_consumed", "saved"}
  <2>1. Effect
    BY StepEffect DEF IInv
  <2>2. \A q \in {r, s} : /\ key'[q] = key[q]
                          /\ Saves(q) => key[q] \notin files
                          /\ ~Saves(q) => pc[q] = "promote" /\ key[q] \in files
    BY <2>1 DEF Effect, KeyEffect, Lasting, IInv, Gone
  <2>3. Saves(r) \/ Saves(s)
    BY <2>1, <2>2 DEF Effect, OneMoves
  <2>. QED
    BY <2>2, <2>3 DEF ImageSavedOnce
<1>. QED
  BY <1>1, <1>2, InvariantHolds, PTL DEF Spec

-----------------------------------------------------------------------------
(* CaptureDrafts implements DraftLifecycle.  A request that has a draft to *)
(* itself finds the row at its write as it has read it at its begin.       *)

\* The states in which a request that is alone may find its draft.
Expected(label) ==
  CASE label = "restart" -> {"failed"}
    [] label \in {"capture", "store_ready", "store_failed"} -> {"capturing"}
    [] label \in {"unlink", "mark_discarded"} -> {"ready", "failed"}
    [] label \in {"promote", "mark_consumed"} -> {"ready"}

Alone == \A r, s \in InFlight : r # s /\ draft[r] = draft[s] => draft[r] \in overlapped

Begun(r) == pc[r] # "idle" => draft[r] \in Drafts /\ state[draft[r]] # "none"

AsRead(r) == r \in InFlight /\ draft[r] \notin overlapped => state[draft[r]] \in Expected(pc[r])

OInv == /\ TypeOK /\ Alone
        /\ \A d \in overlapped : state[d] # "none"
        /\ \A r \in Requests : Begun(r) /\ AsRead(r)

LEMMA InitOInv == Init => OInv
<1>. SUFFICES ASSUME Init PROVE OInv
  OBVIOUS
<1>1. TypeOK
  BY InitTypes
<1>2. Alone /\ \A r \in Requests : Begun(r) /\ AsRead(r)
  BY DEF Init, Alone, Begun, AsRead, InFlight
<1>. QED
  BY <1>1, <1>2 DEF OInv, Init

\* A request that begins marks the draft when somebody else is on it.
LEMMA BeginOInv ==
  ASSUME OInv, TypeOK', NEW r \in Requests, NEW d \in Drafts, NEW o, NEW label \in Labels \ Ended,
         label # "idle", Begin(r, o, d, label),
         state'[d] \in Expected(label), state'[d] # "none",
         \A e \in Drafts \ {d} : state'[e] = state[e],
         Busy(d) => state' = state
  PROVE  OInv'
<1>. USE DEF Begin, At, Goto, OInv, TypeOK
<1>1. InFlight' = InFlight \cup {r} /\ r \notin InFlight
  BY DEF InFlight, Labels, Ended
<1>2. overlapped' = IF Busy(d) THEN overlapped \cup {d} ELSE overlapped
  BY DEF WorkOn
<1>3. draft'[r] = d /\ \A s \in InFlight : draft'[s] = draft[s] /\ pc'[s] = pc[s]
  BY <1>1
<1>4. Alone'
  <2>. SUFFICES ASSUME NEW p \in InFlight', NEW q \in InFlight', p # q, draft'[p] = draft'[q]
                PROVE  draft'[p] \in overlapped'
    BY DEF Alone
  <2>1. CASE p = r \/ q = r
    BY <1>1, <1>2, <1>3, <2>1 DEF Busy
  <2>2. CASE p # r /\ q # r
    BY <1>1, <1>2, <1>3, <2>2 DEF Alone
  <2>. QED
    BY <2>1, <2>2
<1>5. \A e \in overlapped' : state'[e] # "none"
  BY <1>2
<1>6. ASSUME NEW s \in Requests PROVE Begun(s)'
  BY DEF Begun
<1>7. ASSUME NEW s \in Requests PROVE AsRead(s)'
  <2>1. CASE s = r
    BY <2>1 DEF AsRead
  <2>2. ASSUME s # r, s \in InFlight, draft[s] \notin overlapped' PROVE AsRead(s)'
    <3>1. draft[s] # d
      BY <1>2, <2>2 DEF Busy
    <3>2. draft[s] \in Drafts
      BY <2>2 DEF Begun, InFlight
    <3>3. state'[draft[s]] = state[draft[s]] /\ draft[s] \notin overlapped
      BY <1>2, <2>2, <3>1, <3>2
    <3>. QED
      BY <1>3, <2>2, <3>3 DEF AsRead
  <2>. QED
    BY <1>1, <1>3, <2>1, <2>2 DEF AsRead
<1>. QED
  BY <1>4, <1>5, <1>6, <1>7

\* A request in flight that ends, or goes on, writes its own draft only.
LEMMA ServeOInv ==
  ASSUME OInv, TypeOK', NEW r \in InFlight, NEW label \in Labels \ {"idle"}, Goto(r, label),
         UNCHANGED <<draft, overlapped>>,
         \A e \in Drafts \ {draft[r]} : state'[e] = state[e],
         state'[draft[r]] # "none",
         label \in Ended \/ draft[r] \in overlapped \/ state'[draft[r]] \in Expected(label)
  PROVE  OInv'
<1>. USE DEF Goto, OInv, TypeOK
<1>1. r \in Requests /\ draft[r] \in Drafts
  BY DEF InFlight, Begun
<1>2. InFlight' \subseteq InFlight /\ \A s \in InFlight \ {r} : pc'[s] = pc[s]
  BY DEF InFlight
<1>3. Alone'
  BY <1>2 DEF Alone
<1>4. \A e \in overlapped' : state'[e] # "none"
  BY <1>1
<1>5. ASSUME NEW s \in Requests PROVE Begun(s)'
  BY <1>1 DEF Begun, InFlight
<1>6. ASSUME NEW s \in Requests PROVE AsRead(s)'
  <2>1. CASE s = r
    BY <2>1 DEF AsRead, InFlight
  <2>2. CASE s # r
    BY <1>1, <1>2, <2>2 DEF AsRead, Alone, Begun, InFlight
  <2>. QED
    BY <2>1, <2>2
<1>. QED
  BY <1>3, <1>4, <1>5, <1>6

\* The other steps keep every request at its step, but for those that end.
LEMMA OtherOInv ==
  ASSUME OInv, TypeOK', UNCHANGED draft,
         \A s \in Requests : pc'[s] = pc[s] \/ (s \in InFlight /\ pc'[s] = "crashed"),
         overlapped \subseteq overlapped',
         \A e \in Drafts : \/ state'[e] = state[e]
                           \/ state'[e] # "none" /\ (Busy(e) => e \in overlapped'),
         \A e \in overlapped' \ overlapped : state[e] # "none"
  PROVE  OInv'
<1>. USE DEF OInv, TypeOK
<1>1. InFlight' \subseteq InFlight /\ \A s \in InFlight' : pc'[s] = pc[s]
  BY DEF InFlight, Ended
<1>2. Alone'
  BY <1>1 DEF Alone
<1>3. \A e \in overlapped' : state'[e] # "none"
  OBVIOUS
<1>4. ASSUME NEW s \in Requests PROVE Begun(s)'
  BY DEF Begun, InFlight
<1>5. ASSUME NEW s \in Requests PROVE AsRead(s)'
  <2>. SUFFICES ASSUME s \in InFlight', draft[s] \notin overlapped'
                PROVE  state'[draft[s]] \in Expected(pc[s])
    BY <1>1 DEF AsRead
  <2>1. s \in InFlight /\ draft[s] \in Drafts
    BY <1>1 DEF Begun, InFlight
  <2>2. state'[draft[s]] = state[draft[s]]
    BY <2>1 DEF Busy
  <2>. QED
    BY <2>1, <2>2 DEF AsRead
<1>. QED
  BY <1>2, <1>3, <1>4, <1>5

\* The row of a draft that a request updates, or leaves alone.
LEMMA UpdateRow ==
  ASSUME TypeOK, NEW r \in Requests, NEW s \in {"capturing", "ready", "failed", "consumed", "discarded"}
  PROVE  /\ UpdateDraft(r, s, key[r]) =>
              /\ Stored(draft[r]) /\ state' = [state EXCEPT ![draft[r]] = s]
         /\ UpdateDraftFails(r) => state' = state
  BY DEF UpdateDraft, UpdateDraftFails, SetRow, row

LEMMA StepOInv == OInv /\ [Next]_vars => OInv'
<1>. SUFFICES ASSUME OInv, [Next]_vars PROVE OInv'
  OBVIOUS
<1>0. TypeOK /\ TypeOK'
  BY StepTypes DEF OInv
<1>1. ASSUME NEW r \in Requests, NEW d \in Drafts, BeginStart(r, d) PROVE OInv'
  <2>1. ~Busy(d)
    BY <1>1 DEF BeginStart, Busy, OInv, Begun, InFlight
  <2>2. state' = [state EXCEPT ![d] = "capturing"] /\ Begin(r, "start", d, "capture")
    BY <1>1 DEF BeginStart, SetRow
  <2>. QED
    BY <1>0, <2>1, <2>2, BeginOInv DEF Expected, Labels, Ended, TypeOK
<1>2. ASSUME NEW r \in Requests, NEW d \in Drafts,
             BeginRetry(r, d) \/ BeginDiscard(r, d) \/ BeginSave(r, d) PROVE OInv'
  <2>1. state' = state /\ state[d] # "none"
    BY <1>2 DEF BeginRetry, BeginDiscard, BeginSave, row
  <2>2. PICK o \in {"retry", "discard", "save"}, label \in {"restart", "mark_discarded", "unlink", "promote"} :
          Begin(r, o, d, label) /\ state[d] \in Expected(label)
    BY <1>2 DEF BeginRetry, BeginDiscard, BeginSave, Expected
  <2>3. label \in Labels \ Ended /\ label # "idle"
    BY DEF Labels, Ended
  <2>. QED
    BY <1>0, <2>1, <2>2, <2>3, BeginOInv
<1>3. ASSUME NEW r \in Requests, Serve(r) PROVE OInv'
  <2>. USE <1>0, UpdateRow DEF At, request
  <2>1. r \in InFlight /\ draft[r] \in Drafts /\ state[draft[r]] # "none"
    BY <1>3 DEF Serve, Restart, Capture, StoreReady, StoreFailed, Store, UnlinkStaged, MarkDiscarded,
       Promote, MarkConsumed, AbandonSave, InFlight, Ended, OInv, Begun
  <2>2. AsRead(r)
    BY <2>1 DEF OInv, InFlight
  <2>3. PICK label \in Labels \ {"idle"} :
          /\ Goto(r, label) /\ UNCHANGED <<draft, overlapped>>
          /\ \/ state' = state
             \/ \E s : state' = [state EXCEPT ![draft[r]] = s] /\ s # "none"
          /\ label \in Ended \/ state'[draft[r]] \in Expected(label) \/ draft[r] \in overlapped
    <3>1. CASE Restart(r)
      BY <2>1, <3>1 DEF Restart, Labels, Ended, Expected, TypeOK
    <3>2. CASE Capture(r)
      BY <2>1, <2>2, <3>2 DEF Capture, Labels, Ended, Expected, AsRead, row
    <3>3. CASE StoreReady(r)
      BY <2>1, <3>3 DEF StoreReady, Store, Labels, Ended
    <3>4. CASE StoreFailed(r)
      BY <2>1, <3>4 DEF StoreFailed, Store, Labels, Ended
    <3>5. CASE UnlinkStaged(r)
      BY <2>1, <2>2, <3>5 DEF UnlinkStaged, Labels, Ended, Expected, AsRead, row
    <3>6. CASE MarkDiscarded(r)
      BY <2>1, <3>6 DEF MarkDiscarded, Labels, Ended
    <3>7. CASE Promote(r)
      BY <2>1, <2>2, <3>7 DEF Promote, Labels, Ended, Expected, AsRead, row
    <3>8. CASE MarkConsumed(r)
      BY <2>1, <3>8 DEF MarkConsumed, Labels, Ended
    <3>9. CASE AbandonSave(r)
      BY <2>1, <3>9 DEF AbandonSave, Labels, Ended, row
    <3>. QED
      BY <1>3, <3>1, <3>2, <3>3, <3>4, <3>5, <3>6, <3>7, <3>8, <3>9 DEF Serve
  <2>4. state'[draft[r]] # "none" /\ \A e \in Drafts \ {draft[r]} : state'[e] = state[e]
    BY <2>1, <2>3 DEF TypeOK
  <2>. QED
    BY <2>1, <2>3, <2>4, ServeOInv
<1>4. ASSUME NEW r \in Requests, ClientLeaves(r) \/ Crash(r) PROVE OInv'
  BY <1>0, <1>4, OtherOInv DEF ClientLeaves, Crash, Goto, request, row, TypeOK
<1>5. ASSUME NEW d \in Drafts, BecomeOverdue(d) \/ DropSession(d) PROVE OInv'
  <2>1. UNCHANGED <<draft, pc>> /\ overlapped \subseteq overlapped'
    BY <1>5 DEF BecomeOverdue, DropSession, WorkOn, request
  <2>2. \A e \in Drafts : state'[e] = state[e] \/ (state'[e] # "none" /\ (Busy(e) => e \in overlapped'))
    BY <1>0, <1>5 DEF BecomeOverdue, DropSession, WorkOn, SetRow, row, TypeOK
  <2>3. \A e \in overlapped' \ overlapped : state[e] # "none"
    BY <1>5 DEF BecomeOverdue, DropSession, WorkOn, Stored
  <2>. QED
    BY <1>0, <2>1, <2>2, <2>3, OtherOInv
<1>6. ASSUME NEW D \in SUBSET Drafts, Expire(D) PROVE OInv'
  BY <1>0, <1>6, OtherOInv DEF Expire, WorkOn, request, TypeOK
<1>7. CASE UNCHANGED vars
  BY <1>0, <1>7, OtherOInv DEF vars, row, request
<1>. QED
  BY <1>1, <1>2, <1>3, <1>4, <1>5, <1>6, <1>7 DEF Next, BeginSome

\* A draft whose state the lifecycle sees move, and nothing else.
LEMMA ShownMoves ==
  ASSUME TypeOK, TypeOK', NEW d \in Drafts, \A e \in Drafts \ {d} : state'[e] = state[e],
         overlapped' \subseteq overlapped \cup {d}, overlapped \subseteq overlapped'
  PROVE  Shown' = [Shown EXCEPT ![d] = IF d \in overlapped' /\ Stored(d)' THEN "contested" ELSE state'[d]]
<1>. DEFINE new == IF d \in overlapped' /\ Stored(d)' THEN "contested" ELSE state'[d]
<1>1. Shown'[d] = new
  BY DEF Shown
<1>2. ASSUME NEW e \in Drafts, e # d PROVE Shown'[e] = Shown[e]
  BY <1>2 DEF Shown, Stored
<1>3. Shown = [e \in Drafts |-> Shown[e]] /\ Shown' = [e \in Drafts |-> Shown'[e]]
  BY DEF Shown
<1>. QED
  BY <1>1, <1>2, <1>3

\* One more has come to work on d, or not, and the row is as it was.
LEMMA ContestOrNothing ==
  ASSUME TypeOK, TypeOK', NEW d \in Drafts, state' = state, Stored(d),
         overlapped' = overlapped \/ overlapped' = overlapped \cup {d}
  PROVE  Shown' = Shown \/ Lifecycle!Contest(d)
<1>1. CASE d \in overlapped \/ overlapped' = overlapped
  BY <1>1 DEF Shown, Stored
<1>2. CASE d \notin overlapped /\ overlapped' = overlapped \cup {d}
  <2>1. Shown' = [Shown EXCEPT ![d] = "contested"]
    BY <1>2, ShownMoves DEF Stored
  <2>2. Shown[d] \in Lifecycle!Expirable \cup Lifecycle!Terminal
    BY <1>2 DEF Shown, Stored, TypeOK, Lifecycle!Expirable, Lifecycle!Terminal
  <2>. QED
    BY <2>1, <2>2 DEF Lifecycle!Contest, Lifecycle!Becomes
<1>. QED
  BY <1>1, <1>2

\* A request writes s to the row of its draft: a move, unless it is contested.
LEMMA WriteMoves ==
  ASSUME TypeOK, TypeOK', NEW d \in Drafts, Stored(d), overlapped' = overlapped,
         NEW s \in {"capturing", "ready", "failed", "consumed", "discarded"},
         state' = [state EXCEPT ![d] = s]
  PROVE  \/ Shown' = Shown
         \/ d \notin overlapped /\ Shown[d] = state[d] /\ Shown' = [Shown EXCEPT ![d] = s]
<1>1. Shown' = [Shown EXCEPT ![d] = IF d \in overlapped' /\ Stored(d)' THEN "contested" ELSE state'[d]]
  BY ShownMoves DEF TypeOK
<1>2. state'[d] = s
  BY DEF TypeOK
<1>3. CASE d \in overlapped
  <2>1. Shown[d] = "contested" /\ Stored(d)'
    BY <1>2, <1>3 DEF Shown, Stored
  <2>2. Shown = [e \in Drafts |-> Shown[e]]
    BY DEF Shown
  <2>. QED
    BY <1>1, <1>3, <2>1, <2>2
<1>4. CASE d \notin overlapped
  BY <1>1, <1>2, <1>4 DEF Shown
<1>. QED
  BY <1>3, <1>4

LEMMA StepSimulates == OInv /\ OInv' /\ [Next]_vars => [Lifecycle!Next]_Shown
<1>. SUFFICES ASSUME OInv, OInv', [Next]_vars PROVE Lifecycle!Next \/ Shown' = Shown
  OBVIOUS
<1>0. TypeOK /\ TypeOK'
  BY DEF OInv
<1>1. ASSUME NEW r \in Requests, NEW d \in Drafts, BeginStart(r, d) PROVE Lifecycle!Next
  <2>1. ~Busy(d) /\ d \notin overlapped /\ state[d] = "none"
    BY <1>1 DEF BeginStart, Busy, OInv, Begun, InFlight
  <2>2. overlapped' = overlapped /\ state' = [state EXCEPT ![d] = "capturing"]
    BY <1>1, <2>1 DEF BeginStart, Begin, WorkOn, SetRow
  <2>3. Shown' = [Shown EXCEPT ![d] = "capturing"] /\ Shown[d] = "none"
    BY <1>0, <2>1, <2>2, ShownMoves DEF TypeOK, Shown
  <2>. QED
    BY <2>3 DEF Lifecycle!Next, Lifecycle!Start, Lifecycle!Becomes
<1>2. ASSUME NEW r \in Requests, NEW d \in Drafts,
             BeginRetry(r, d) \/ BeginDiscard(r, d) \/ BeginSave(r, d)
      PROVE  Lifecycle!Next \/ Shown' = Shown
  <2>1. state' = state /\ Stored(d)
    BY <1>2 DEF BeginRetry, BeginDiscard, BeginSave, row, Stored
  <2>2. overlapped' = overlapped \/ overlapped' = overlapped \cup {d}
    BY <1>2 DEF BeginRetry, BeginDiscard, BeginSave, Begin, WorkOn
  <2>. QED
    BY <1>0, <2>1, <2>2, ContestOrNothing DEF Lifecycle!Next
<1>3. ASSUME NEW r \in Requests, Serve(r) PROVE Lifecycle!Next \/ Shown' = Shown
  <2>. DEFINE d == draft[r]
  <2>1. r \in InFlight /\ d \in Drafts /\ overlapped' = overlapped
    BY <1>3 DEF Serve, Restart, Capture, StoreReady, StoreFailed, Store, UnlinkStaged, MarkDiscarded,
       Promote, MarkConsumed, AbandonSave, At, InFlight, Ended, OInv, Begun
  <2>2. d \notin overlapped => state[d] \in Expected(pc[r])
    BY <2>1 DEF OInv, AsRead, InFlight
  <2>3. CASE UNCHANGED state
    BY <2>1, <2>3 DEF Shown, Stored
  <2>4. ASSUME NEW s \in {"capturing", "ready", "failed", "consumed", "discarded"},
               UpdateDraft(r, s, key[r]),
               \/ s = "capturing" /\ pc[r] = "restart"
               \/ s \in {"ready", "failed"} /\ pc[r] \in {"store_ready", "store_failed"}
               \/ s = "discarded" /\ pc[r] = "mark_discarded"
               \/ s = "consumed" /\ pc[r] = "mark_consumed"
        PROVE  Lifecycle!Next \/ Shown' = Shown
    <3>. SUFFICES ASSUME d \notin overlapped, Shown[d] = state[d], Shown' = [Shown EXCEPT ![d] = s]
                  PROVE  Lifecycle!Next
      BY <1>0, <2>1, <2>4, UpdateRow, WriteMoves
    <3>1. CASE s = "capturing" /\ pc[r] = "restart"
      <4>1. Shown[d] = "failed"
        BY <2>2, <3>1 DEF Expected
      <4>. QED
        BY <2>1, <3>1, <4>1 DEF Lifecycle!Next, Lifecycle!Retry, Lifecycle!Becomes
    <3>2. CASE s \in {"ready", "failed"} /\ pc[r] \in {"store_ready", "store_failed"}
      <4>1. Shown[d] = "capturing"
        BY <2>2, <3>2 DEF Expected
      <4>. QED
        BY <2>1, <3>2, <4>1 DEF Lifecycle!Next, Lifecycle!Finish, Lifecycle!Becomes
    <3>3. CASE s = "discarded" /\ pc[r] = "mark_discarded"
      <4>1. Shown[d] \in {"ready", "failed"}
        BY <2>2, <3>3 DEF Expected
      <4>. QED
        BY <2>1, <3>3, <4>1 DEF Lifecycle!Next, Lifecycle!Discard, Lifecycle!Becomes
    <3>4. CASE s = "consumed" /\ pc[r] = "mark_consumed"
      <4>1. Shown[d] = "ready"
        BY <2>2, <3>4 DEF Expected
      <4>. QED
        BY <2>1, <3>4, <4>1 DEF Lifecycle!Next, Lifecycle!Consume, Lifecycle!Becomes
    <3>. QED
      BY <2>4, <3>1, <3>2, <3>3, <3>4
  <2>5. \/ UNCHANGED state
        \/ UpdateDraft(r, "capturing", key[r]) /\ pc[r] = "restart"
        \/ UpdateDraft(r, "ready", key[r]) /\ pc[r] = "store_ready"
        \/ UpdateDraft(r, "failed", key[r]) /\ pc[r] = "store_failed"
        \/ UpdateDraft(r, "discarded", key[r]) /\ pc[r] = "mark_discarded"
        \/ UpdateDraft(r, "consumed", key[r]) /\ pc[r] = "mark_consumed"
    BY <1>3 DEF Serve, Restart, Capture, StoreReady, StoreFailed, Store, UnlinkStaged, MarkDiscarded,
       Promote, MarkConsumed, AbandonSave, At, UpdateDraftFails, row
  <2>. QED
    BY <2>3, <2>4, <2>5
<1>4. ASSUME NEW r \in Requests, ClientLeaves(r) \/ Crash(r) PROVE Shown' = Shown
  BY <1>4 DEF ClientLeaves, Crash, row, Shown, Stored
<1>5. ASSUME NEW d \in Drafts, BecomeOverdue(d) PROVE Shown' = Shown
  BY <1>5 DEF BecomeOverdue, row, Shown, Stored
<1>6. ASSUME NEW d \in Drafts, DropSession(d) PROVE Lifecycle!Next
  <2>1. Stored(d) /\ state' = [state EXCEPT ![d] = "gone"]
        /\ overlapped \subseteq overlapped' /\ overlapped' \subseteq overlapped \cup {d}
    BY <1>6 DEF DropSession, SetRow, WorkOn
  <2>2. state'[d] = "gone" /\ ~Stored(d)'
    BY <1>0, <2>1 DEF TypeOK, Stored
  <2>3. Shown' = [Shown EXCEPT ![d] = "gone"]
    BY <1>0, <2>1, <2>2, ShownMoves DEF TypeOK
  <2>4. Shown[d] \in Lifecycle!Expirable \cup Lifecycle!Terminal \cup {"contested"}
    BY <1>0, <2>1 DEF Shown, Stored, TypeOK, Lifecycle!Expirable, Lifecycle!Terminal
  <2>. QED
    BY <2>3, <2>4 DEF Lifecycle!Next, Lifecycle!Forget, Lifecycle!Becomes
<1>7. ASSUME NEW D \in SUBSET Drafts, Expire(D) PROVE Lifecycle!Next
  <2>. DEFINE E == D \ overlapped
              C == {d \in E : Busy(d)}
  <2>1. \A d \in D : state[d] \in {"capturing", "ready", "failed"}
    BY <1>7 DEF Expire
  <2>2. \A d \in E : Shown[d] \in Lifecycle!Expirable
    BY <2>1 DEF Shown, Lifecycle!Expirable
  <2>3. overlapped' = overlapped \cup {d \in D : Busy(d)}
        /\ state' = [d \in Drafts |-> IF d \in D THEN "expired" ELSE state[d]]
    BY <1>7 DEF Expire, WorkOn
  <2>4. Shown' = [d \in Drafts |-> IF d \in C THEN "contested" ELSE IF d \in E THEN "expired" ELSE Shown[d]]
    BY <2>1, <2>3 DEF Shown, Stored
  <2>. QED
    BY <2>2, <2>4 DEF Lifecycle!Next, Lifecycle!Expire
<1>8. CASE UNCHANGED vars
  BY <1>8 DEF vars, row, Shown, Stored
<1>. QED
  BY <1>1, <1>2, <1>3, <1>4, <1>5, <1>6, <1>7, <1>8 DEF Next, BeginSome

\* Seen from the state column, every behaviour of the use cases, their faults
\* and the retention is one of the lifecycle of model/capture.go, where a draft
\* on which two have worked at a time is contested.
THEOREM Implements == Spec => FollowsLifecycle
<1>1. Init => Lifecycle!Init
  BY DEF Init, Lifecycle!Init, Shown
<1>2. Spec => []OInv
  BY InitOInv, StepOInv, PTL DEF Spec
<1>. QED
  BY <1>1, <1>2, StepSimulates, PTL DEF Spec, FollowsLifecycle, Lifecycle!Spec

-----------------------------------------------------------------------------
(* A draft that nobody overlapped on is saved once: its row, once a save   *)
(* has moved the file, names no other file again.                          *)

AfterSave == {"ready", "consumed", "discarded", "expired", "gone"}
Saves(r) == pc[r] \in {"mark_consumed", "saved"} /\ draft[r] \notin overlapped

\* A save that is alone finds the key it read still in the row.
KeyAsRead(r) ==
  pc[r] \in {"promote", "mark_consumed"} /\ draft[r] \notin overlapped => staged[draft[r]] = key[r]

\* A draft that has been saved is captured no more, and if the row says ready, as after
\* an UpdateDraft that failed, it names the file that has been moved.
LeadsNowhere(r) ==
  Saves(r) => /\ state[draft[r]] \in AfterSave
              /\ state[draft[r]] = "ready" => staged[draft[r]] = key[r]

OneSaver == \A r, s \in Requests : Saves(r) /\ Saves(s) /\ draft[r] = draft[s] => r = s

SaveInv == OneSaver /\ \A r \in Requests : KeyAsRead(r) /\ LeadsNowhere(r)

\* What a step does to the row of a draft: nothing, or retention has it for itself,
\* or a request writes the outcome of its step.
WriteSteps == {<<"restart", "capturing">>, <<"store_ready", "ready">>, <<"store_failed", "failed">>,
               <<"mark_discarded", "discarded">>, <<"mark_consumed", "consumed">>}
RowKept(d) == state'[d] = state[d] /\ staged'[d] = staged[d]
RowRetired(d) == ~Busy(d) /\ state'[d] \in {"expired", "gone"}
RowWritten(d) == \E r \in InFlight : /\ draft[r] = d /\ pc'[r] \in {"capture", "answered", "saved"}
                                     /\ <<pc[r], state'[d]>> \in WriteSteps

LEMMA StepRow ==
  ASSUME OInv, [Next]_vars, NEW d \in Drafts, state[d] # "none", d \notin overlapped'
  PROVE  RowKept(d) \/ RowRetired(d) \/ RowWritten(d)
<1>. USE DEF OInv, TypeOK, RowKept, row
<1>1. ASSUME NEW r \in Requests, BeginSome(r) PROVE RowKept(d)
  BY <1>1 DEF BeginSome, BeginStart, BeginRetry, BeginDiscard, BeginSave, SetRow
<1>2. ASSUME NEW r \in Requests, NEW s \in {"capturing", "ready", "failed", "consumed", "discarded"},
             UpdateDraft(r, s, key[r]), r \in InFlight, <<pc[r], s>> \in WriteSteps,
             pc'[r] \in {"capture", "answered", "saved"}
      PROVE  RowKept(d) \/ RowWritten(d)
  BY <1>2 DEF UpdateDraft, SetRow, RowWritten
<1>3. ASSUME NEW r \in Requests, Serve(r) PROVE RowKept(d) \/ RowWritten(d)
  <2>. USE DEF At, Goto, WriteSteps, InFlight, Ended, UpdateDraftFails
  <2>1. CASE Restart(r)
    BY <1>2, <2>1 DEF Restart
  <2>2. CASE StoreReady(r)
    BY <1>2, <2>2 DEF StoreReady, Store
  <2>3. CASE StoreFailed(r)
    BY <1>2, <2>3 DEF StoreFailed, Store
  <2>4. CASE MarkDiscarded(r)
    BY <1>2, <2>4 DEF MarkDiscarded
  <2>5. CASE MarkConsumed(r)
    BY <1>2, <2>5 DEF MarkConsumed
  <2>6. CASE Capture(r) \/ UnlinkStaged(r) \/ Promote(r) \/ AbandonSave(r)
    BY <2>6 DEF Capture, UnlinkStaged, Promote, AbandonSave
  <2>. QED
    BY <1>3, <2>1, <2>2, <2>3, <2>4, <2>5, <2>6 DEF Serve
<1>4. ASSUME NEW r \in Requests, ClientLeaves(r) \/ Crash(r) PROVE RowKept(d)
  BY <1>4 DEF ClientLeaves, Crash
<1>5. ASSUME NEW e \in Drafts, BecomeOverdue(e) \/ DropSession(e) PROVE RowKept(d) \/ RowRetired(d)
  BY <1>5 DEF BecomeOverdue, DropSession, SetRow, WorkOn, RowRetired
<1>6. ASSUME NEW D \in SUBSET Drafts, Expire(D) PROVE RowKept(d) \/ RowRetired(d)
  BY <1>6 DEF Expire, WorkOn, RowRetired
<1>. QED
  BY <1>1, <1>3, <1>4, <1>5, <1>6 DEF Next, vars

\* A request keeps its draft, one that is about to promote has read the key from the
\* row, and a save takes its steps in order.
SaveEffect(s) ==
  /\ pc[s] # "idle" => draft'[s] = draft[s]
  /\ pc'[s] = "promote" /\ pc[s] # "promote" => staged'[draft'[s]] = key'[s] /\ draft'[s] \in Drafts
  /\ pc'[s] = "mark_consumed" => pc[s] \in {"promote", "mark_consumed"}
  /\ pc[s] = "mark_consumed" => pc'[s] \notin {"capture", "answered"}
  /\ pc'[s] = "saved" => pc[s] \in {"mark_consumed", "saved"}

LEMMA StepSaveEffect ==
  ASSUME TypeOK, [Next]_vars
  PROVE  overlapped \subseteq overlapped' /\ \A s \in Requests : SaveEffect(s)
<1>. USE DEF TypeOK, SaveEffect, At, Goto, row, request
<1>1. ASSUME NEW r \in Requests, BeginSome(r)
      PROVE  overlapped \subseteq overlapped' /\ \A s \in Requests : SaveEffect(s)
  BY <1>1 DEF BeginSome, BeginStart, BeginRetry, BeginDiscard, BeginSave, Begin, WorkOn, SetRow
<1>2. ASSUME NEW r \in Requests, Serve(r)
      PROVE  overlapped \subseteq overlapped' /\ \A s \in Requests : SaveEffect(s)
  BY <1>2 DEF Serve, Restart, Capture, StoreReady, StoreFailed, Store, UnlinkStaged, MarkDiscarded, Promote,
     MarkConsumed, AbandonSave
<1>3. ASSUME NEW r \in Requests, ClientLeaves(r) \/ Crash(r)
      PROVE  overlapped \subseteq overlapped' /\ \A s \in Requests : SaveEffect(s)
  BY <1>3 DEF ClientLeaves, Crash, InFlight, Ended
<1>4. ASSUME NEW d \in Drafts, BecomeOverdue(d) \/ DropSession(d)
      PROVE  overlapped \subseteq overlapped' /\ \A s \in Requests : SaveEffect(s)
  BY <1>4 DEF BecomeOverdue, DropSession, WorkOn
<1>5. ASSUME NEW D \in SUBSET Drafts, Expire(D)
      PROVE  overlapped \subseteq overlapped' /\ \A s \in Requests : SaveEffect(s)
  BY <1>5 DEF Expire, WorkOn
<1>. QED
  BY <1>1, <1>2, <1>3, <1>4, <1>5 DEF Next, vars

LEMMA StepSaves == IInv /\ OInv /\ SaveInv /\ [Next]_vars => SaveInv'
<1>. SUFFICES ASSUME IInv, OInv, SaveInv, [Next]_vars PROVE SaveInv'
  OBVIOUS
<1>1. Effect /\ overlapped \subseteq overlapped' /\ \A s \in Requests : SaveEffect(s)
  BY StepEffect, StepSaveEffect DEF IInv
<1>2. ASSUME NEW x \in Requests, pc[x] # "idle", draft'[x] \notin overlapped'
      PROVE  /\ draft'[x] = draft[x] /\ draft[x] \in Drafts /\ draft[x] \notin overlapped
             /\ RowKept(draft[x]) \/ RowRetired(draft[x]) \/ RowWritten(draft[x])
  BY <1>1, <1>2, StepRow DEF SaveEffect, OInv, Begun
\* A save under way that is alone is the only one to touch the row.
<1>3. ASSUME NEW x \in Requests, pc[x] \in {"promote", "mark_consumed"}, draft'[x] \notin overlapped',
             pc'[x] # "saved"
      PROVE  RowKept(draft[x]) /\ state[draft[x]] = "ready" /\ staged[draft[x]] = key[x]
  <2>1. x \in InFlight /\ Busy(draft[x]) /\ draft[x] \notin overlapped
    BY <1>2, <1>3 DEF InFlight, Ended, Busy
  <2>2. state[draft[x]] = "ready" /\ staged[draft[x]] = key[x]
    BY <1>3, <2>1 DEF OInv, AsRead, Expected, SaveInv, KeyAsRead
  <2>3. ~RowWritten(draft[x])
    <3>. SUFFICES ASSUME NEW r \in InFlight, draft[r] = draft[x], pc'[r] \in {"capture", "answered", "saved"},
                         <<pc[r], state'[draft[x]]>> \in WriteSteps
                  PROVE  FALSE
      BY DEF RowWritten
    <3>1. r = x
      BY <2>1 DEF OInv, Alone
    <3>2. pc[x] = "mark_consumed"
      BY <1>3, <3>1 DEF WriteSteps
    <3>3. pc'[x] \in {"capture", "answered"}
      BY <1>3, <3>1
    <3>. QED
      BY <1>1, <3>2, <3>3 DEF SaveEffect
  <2>. QED
    BY <1>2, <1>3, <2>1, <2>2, <2>3 DEF RowRetired
<1>4. ASSUME NEW x \in Requests PROVE KeyAsRead(x)'
  <2>. SUFFICES ASSUME pc'[x] \in {"promote", "mark_consumed"}, draft'[x] \notin overlapped'
                PROVE  staged'[draft'[x]] = key'[x]
    BY DEF KeyAsRead
  <2>1. CASE pc[x] \in {"promote", "mark_consumed"}
    <3>1. RowKept(draft[x]) /\ staged[draft[x]] = key[x] /\ draft'[x] = draft[x]
      BY <1>2, <1>3, <2>1
    <3>2. key'[x] = key[x]
      BY <1>1, <2>1 DEF Effect, Lasting
    <3>. QED
      BY <3>1, <3>2 DEF RowKept
  <2>. QED
    BY <1>1, <2>1 DEF SaveEffect
\* A save that goes on did so before, or moves its file now.
<1>5. ASSUME NEW x \in Requests, Saves(x)'
      PROVE  \/ Saves(x) /\ key'[x] = key[x]
             \/ pc[x] = "promote" /\ key'[x] = key[x] /\ key[x] \in files /\ pc'[x] = "mark_consumed"
  <2>1. CASE pc[x] \in {"mark_consumed", "saved"}
    BY <1>1, <1>2, <1>5, <2>1 DEF Saves, Effect, Lasting
  <2>2. CASE pc[x] \notin {"mark_consumed", "saved"}
    <3>1. pc[x] = "promote" /\ key'[x] = key[x] /\ key[x] \in files
      BY <1>1, <1>5, <2>2 DEF Saves, Effect, KeyEffect
    <3>2. pc'[x] # "saved"
      BY <1>1, <3>1 DEF SaveEffect
    <3>. QED
      BY <1>5, <3>1, <3>2 DEF Saves
  <2>. QED
    BY <2>1, <2>2
<1>6. ASSUME NEW x \in Requests PROVE LeadsNowhere(x)'
  <2>. SUFFICES ASSUME Saves(x)'
                PROVE  /\ state'[draft'[x]] \in AfterSave
                       /\ state'[draft'[x]] = "ready" => staged'[draft'[x]] = key'[x]
    BY DEF LeadsNowhere
  <2>0. draft'[x] = draft[x] /\ draft'[x] \notin overlapped' /\ draft[x] \in Drafts
    BY <1>2, <1>5 DEF Saves
  <2>1. CASE Saves(x) /\ key'[x] = key[x]
    <3>1. state[draft[x]] \in AfterSave /\ (state[draft[x]] = "ready" => staged[draft[x]] = key[x])
      BY <2>1 DEF SaveInv, LeadsNowhere
    <3>2. ASSUME RowWritten(draft[x]) PROVE state'[draft[x]] \in {"discarded", "consumed"}
      <4>1. PICK r \in InFlight : draft[r] = draft[x] /\ <<pc[r], state'[draft[x]]>> \in WriteSteps
        BY <3>2 DEF RowWritten
      <4>2. state[draft[x]] \in Expected(pc[r])
        BY <2>1, <4>1 DEF Saves, OInv, AsRead, InFlight
      <4>. QED
        BY <3>1, <4>1, <4>2 DEF WriteSteps, Expected, AfterSave
    <3>. QED
      BY <1>2, <2>0, <2>1, <3>1, <3>2 DEF Saves, RowKept, RowRetired, AfterSave
  <2>2. CASE pc[x] = "promote" /\ key'[x] = key[x] /\ pc'[x] = "mark_consumed"
    BY <1>3, <2>0, <2>2 DEF RowKept, AfterSave
  <2>. QED
    BY <1>5, <2>1, <2>2
<1>7. OneSaver'
  <2>. SUFFICES ASSUME NEW x \in Requests, NEW y \in Requests, Saves(x)', Saves(y)', draft'[x] = draft'[y], x # y
                PROVE  FALSE
    BY DEF OneSaver
  <2>1. draft[x] = draft[y] /\ ~(Saves(x) /\ Saves(y))
    BY <1>2, <1>5 DEF Saves, SaveInv, OneSaver
  <2>2. Saves(x) \/ Saves(y)
    BY <1>1, <1>5 DEF Effect, OneMoves
  \* The row still names the file that the first of them has moved.
  <2>3. ASSUME NEW p \in Requests, NEW q \in Requests, Saves(p), draft[p] = draft[q],
               pc[q] = "promote", key[q] \in files, pc'[q] = "mark_consumed", Saves(q)'
        PROVE  FALSE
    <3>1. state[draft[q]] = "ready" /\ staged[draft[q]] = key[q]
      BY <1>3, <2>3 DEF Saves
    <3>2. staged[draft[p]] = key[p]
      BY <2>3, <3>1 DEF SaveInv, LeadsNowhere
    <3>3. key[p] \notin files
      BY <2>3 DEF IInv, Gone, Saves
    <3>. QED
      BY <2>3, <3>1, <3>2, <3>3
  <2>. QED
    BY <1>5, <2>1, <2>2, <2>3
<1>. QED
  BY <1>4, <1>6, <1>7 DEF SaveInv

\* A draft is saved once, although the error of marking it consumed is ignored and it
\* may be read as ready again, as long as no two have worked on it at a time
\* (create.go:90-110, update.go:64-97).
THEOREM DraftsSavedOnce == Spec => []DraftSavedOnce
<1>1. Init => SaveInv
  BY DEF Init, SaveInv, OneSaver, KeyAsRead, LeadsNowhere, Saves
<1>2. ASSUME OneSaver PROVE DraftSavedOnce
  <2>. SUFFICES ASSUME NEW d \in Drafts \ overlapped PROVE Cardinality(Savers(d)) <= 1
    BY DEF DraftSavedOnce
  <2>1. \A r, s \in Savers(d) : r = s
    BY <1>2 DEF Savers, OneSaver, Saves
  <2>2. CASE Savers(d) = {}
    BY <2>2, FS_EmptySet
  <2>3. CASE Savers(d) # {}
    <3>1. PICK r : Savers(d) = {r}
      BY <2>1, <2>3
    <3>2. Cardinality({r}) = 1
      BY FS_Singleton
    <3>. QED
      BY <3>1, <3>2
  <2>. QED
    BY <2>2, <2>3
<1>3. Spec => []OInv
  BY InitOInv, StepOInv, PTL DEF Spec
<1>. QED
  BY <1>1, <1>2, <1>3, InvariantHolds, StepSaves, PTL DEF Spec, SaveInv
=============================================================================
