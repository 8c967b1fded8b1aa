---------------------------- MODULE CaptureDrafts ----------------------------
(***************************************************************************)
(* Capture drafts: the use cases Start, Retry and Discard of               *)
(* bookmarker/usecase/capture.go, the part of create.go and update.go that *)
(* consumes a draft, and the retention statements that end one.  Every     *)
(* request is a sequence of calls; the row it read at its begin is written *)
(* back whole by UpdateDraft, which compares nothing but the id.           *)
(*                                                                         *)
(* All drafts here are owned by sessions that may use them and have the    *)
(* URL that is saved; a request that the code refuses at its first read    *)
(* (wrong owner, state or URL, expired) has not begun.                     *)
(***************************************************************************)
EXTENDS Naturals, FiniteSets, ScreenshotStore

CONSTANTS
  Drafts,
  Requests,
  Faults,         \* the kinds of fault that may happen, of FaultKinds
  MaxFaults,      \* bound: kinds of fault in one behaviour
  NoKey, NoDraft

(***************************************************************************)
(* client: the client disconnects, net/http cancels the request context,   *)
(* and from then on every database call of the request and the browser it  *)
(* started fail; file operations ignore the context.  db: one database     *)
(* call fails.  unlink: Discard cannot remove a file.  crash: the process  *)
(* that serves the request dies.                                           *)
(***************************************************************************)
FaultKinds == {"client", "db", "unlink", "crash"}

StagedKeys == {StagedKey(r) : r \in Requests}
Keys == StagedKeys \cup {PromotedKey(r) : r \in Requests}

ASSUME ConstantsAssumption ==
  /\ Faults \subseteq FaultKinds /\ MaxFaults \in Nat
  /\ NoKey \notin Keys /\ NoDraft \notin Drafts

VARIABLES
  state,        \* table capture_drafts: the state column, "none" before the
                \* row exists and "gone" after it was deleted
  staged,       \* ... and the column staged_key
  overdue,      \* the drafts whose expires_at has passed
  files,        \* the screenshot directory: the keys that name a file
  pc,           \* the next step of a request
  op, draft,    \* what it does, and to which draft
  key,          \* the staged key it works with: the one it read, or captured
  left,         \* the requests whose client has disconnected
  faults,       \* the kinds of fault that have happened so far
  overlapped    \* drafts that two requests, or a request and the retention of
                \* a process that starts, have worked on at a time

row == <<state, staged>>
request == <<op, draft, key, left>>
vars == <<row, overdue, files, pc, request, faults, overlapped>>

Ended == {"answered", "saved", "refused", "crashed"}
InFlight == {r \in Requests : pc[r] \notin Ended \cup {"idle"}}
Busy(d) == \E r \in InFlight : draft[r] = d
WorkOn(D) == overlapped' = overlapped \cup {d \in D : Busy(d)}

Fault(kind) == /\ kind \in Faults
               /\ faults' = faults \cup {kind}
               /\ Cardinality(faults') <= MaxFaults
NoFault == UNCHANGED faults
At(r, label) == pc[r] = label
Goto(r, label) == pc' = [pc EXCEPT ![r] = label]

Stored(d) == state[d] \notin {"none", "gone"}

\* A database call of the request: it reaches the database, or it fails.
Reaches(r) == r \notin left /\ NoFault
Fails(r) == (r \in left /\ NoFault) \/ Fault("db")

SetRow(d, s, k) == /\ state' = [state EXCEPT ![d] = s]
                   /\ staged' = [staged EXCEPT ![d] = k]

\* UpdateDraft: it fails on a row that is gone, and writes any other.
UpdateDraft(r, s, k) == Stored(draft[r]) /\ Reaches(r) /\ SetRow(draft[r], s, k)
UpdateDraftFails(r) == /\ UNCHANGED row
                       /\ Fails(r) \/ (~Stored(draft[r]) /\ NoFault)

-----------------------------------------------------------------------------
Init ==
  /\ state = [d \in Drafts |-> "none"]
  /\ staged = [d \in Drafts |-> NoKey]
  /\ overdue = {}
  /\ files = {}
  /\ pc = [r \in Requests |-> "idle"]
  /\ op = [r \in Requests |-> "none"]
  /\ draft = [r \in Requests |-> NoDraft]
  /\ key = [r \in Requests |-> NoKey]
  /\ left = {}
  /\ faults = {}
  /\ overlapped = {}

Begin(r, o, d, label) ==
  /\ At(r, "idle")
  /\ op' = [op EXCEPT ![r] = o]
  /\ draft' = [draft EXCEPT ![r] = d]
  /\ key' = [key EXCEPT ![r] = staged[d]]
  /\ Goto(r, label)
  /\ WorkOn({d})
  /\ UNCHANGED <<overdue, files, left, faults>>

-----------------------------------------------------------------------------
(* Start and Retry.                                                        *)

\* CreateDraft with a new id, in state capturing.
BeginStart(r, d) ==
  /\ state[d] = "none"
  /\ Begin(r, "start", d, "capture")
  /\ SetRow(d, "capturing", NoKey)

\* Mutant: CanRetry holds of a ready draft, too.
BeginRetryReady(r, d) ==
  /\ state[d] \in {"failed", "ready"} /\ d \notin overdue
  /\ Begin(r, "retry", d, "restart")
  /\ UNCHANGED row

\* CanRetry and not IsExpired.
BeginRetry(r, d) ==
  /\ state[d] = "failed" /\ d \notin overdue
  /\ Begin(r, "retry", d, "restart")
  /\ UNCHANGED row

\* UpdateDraft to capturing; the request ends with its error.
Restart(r) ==
  /\ At(r, "restart")
  /\ \/ UpdateDraft(r, "capturing", key[r]) /\ Goto(r, "capture")
     \/ UpdateDraftFails(r) /\ Goto(r, "refused")
  /\ UNCHANGED <<overdue, files, request, overlapped>>

\* Mutant: the error of Validate is ignored.
CaptureUnvalidated(r) ==
  /\ At(r, "capture") /\ NoFault
  /\ \/ /\ r \notin left
        /\ files' \in {files, files \cup {StagedKey(r)}}
        /\ key' = [key EXCEPT ![r] = StagedKey(r)]
        /\ Goto(r, "store_ready")
     \/ UNCHANGED <<files, key>> /\ Goto(r, "store_failed")
  /\ UNCHANGED <<row, overdue, op, draft, left, overlapped>>

\* Capture and Validate.  The browser may fail (or find no free slot) without
\* a file, after it has written one, or with one that is no PNG image.
Capture(r) ==
  /\ At(r, "capture") /\ NoFault
  /\ \/ /\ r \notin left
        /\ files' = files \cup {StagedKey(r)}
        /\ key' = [key EXCEPT ![r] = StagedKey(r)]
        /\ Goto(r, "store_ready")
     \/ /\ files' \in {files, files \cup {StagedKey(r)}}
        /\ Goto(r, "store_failed") /\ UNCHANGED key
  /\ UNCHANGED <<row, overdue, op, draft, left, overlapped>>

\* UpdateDraft with the outcome; its error is ignored.
Store(r, label, s) ==
  /\ At(r, label)
  /\ UpdateDraft(r, s, key[r]) \/ UpdateDraftFails(r)
  /\ Goto(r, "answered")
  /\ UNCHANGED <<overdue, files, request, overlapped>>

StoreReady(r) == Store(r, "store_ready", "ready")
\* Mutant: a failed capture returns without UpdateDraft.
FailSilently(r) ==
  /\ At(r, "store_failed")
  /\ Goto(r, "answered")
  /\ UNCHANGED <<row, overdue, files, request, faults, overlapped>>

StoreFailed(r) == Store(r, "store_failed", "failed")

-----------------------------------------------------------------------------
(* Discard: CanDiscard, whether the draft is expired or not.               *)

BeginDiscard(r, d) ==
  /\ state[d] \in {"ready", "failed"}
  /\ Begin(r, "discard", d, IF staged[d] = NoKey THEN "mark_discarded" ELSE "unlink")
  /\ UNCHANGED row

\* The error of Files.Discard is ignored.
UnlinkStaged(r) ==
  /\ At(r, "unlink")
  /\ \/ files' = Unlink(files, key[r]) /\ NoFault
     \/ UNCHANGED files /\ Fault("unlink")
  /\ Goto(r, "mark_discarded")
  /\ UNCHANGED <<row, overdue, request, overlapped>>

MarkDiscarded(r) ==
  /\ At(r, "mark_discarded")
  /\ \/ UpdateDraft(r, "discarded", key[r]) /\ Goto(r, "answered")
     \/ UpdateDraftFails(r) /\ Goto(r, "refused")
  /\ UNCHANGED <<overdue, files, request, overlapped>>

-----------------------------------------------------------------------------
(* Saving a bookmark with the draft: CanConsume and not IsExpired.         *)

BeginSave(r, d) ==
  /\ state[d] = "ready" /\ d \notin overdue
  /\ Begin(r, "save", d, "promote")
  /\ UNCHANGED row

\* Mutants: the staged file is copied, or the error of Promote is ignored.
PromoteByCopy(r) ==
  /\ At(r, "promote") /\ NoFault
  /\ \/ CanRename(files, key[r]) /\ files' = files \cup {PromotedKey(r)} /\ Goto(r, "mark_consumed")
     \/ ~CanRename(files, key[r]) /\ UNCHANGED files /\ Goto(r, "refused")
  /\ UNCHANGED <<row, overdue, request, overlapped>>

PromoteIgnoringError(r) ==
  /\ At(r, "promote") /\ NoFault
  /\ files' = IF CanRename(files, key[r]) THEN Rename(files, key[r], PromotedKey(r)) ELSE files
  /\ Goto(r, "mark_consumed")
  /\ UNCHANGED <<row, overdue, request, overlapped>>

Promote(r) ==
  /\ At(r, "promote") /\ NoFault
  /\ \/ /\ CanRename(files, key[r])
        /\ files' = Rename(files, key[r], PromotedKey(r))
        /\ Goto(r, "mark_consumed")
     \/ ~CanRename(files, key[r]) /\ UNCHANGED files /\ Goto(r, "refused")
  /\ UNCHANGED <<row, overdue, request, overlapped>>

\* UpdateDraft to consumed; its error is ignored.
MarkConsumed(r) ==
  /\ At(r, "mark_consumed")
  /\ UpdateDraft(r, "consumed", key[r]) \/ UpdateDraftFails(r)
  /\ Goto(r, "saved")
  /\ UNCHANGED <<overdue, files, request, overlapped>>

\* In an Update the write of the bookmark comes first: when it fails, the
\* promoted file is removed (or stays, when that fails) and the draft is not
\* marked.
AbandonSave(r) ==
  /\ At(r, "mark_consumed")
  /\ \/ files' = Unlink(files, PromotedKey(r)) /\ NoFault
     \/ UNCHANGED files /\ Fault("unlink")
  /\ Goto(r, "refused")
  /\ UNCHANGED <<row, overdue, request, overlapped>>

-----------------------------------------------------------------------------
(* Time, and the retention of a process that starts.                       *)

BecomeOverdue(d) ==
  /\ Stored(d) /\ d \notin overdue
  /\ overdue' = overdue \cup {d}
  /\ UNCHANGED <<row, files, pc, request, faults, overlapped>>

\* ExpireCaptureDrafts: one statement.  Its LIMIT, and SKIP LOCKED, may leave
\* due drafts for the next start; it leaves staged_key and the file alone.
Expire(D) ==
  /\ D # {} /\ D \subseteq overdue
  /\ \A d \in D : state[d] \in {"capturing", "ready", "failed"}
  /\ WorkOn(D)
  /\ state' = [d \in Drafts |-> IF d \in D THEN "expired" ELSE state[d]]
  /\ UNCHANGED <<staged, overdue, files, pc, request, faults>>

\* DeleteExpiredSessions: ON DELETE CASCADE removes the draft of the session.
DropSession(d) ==
  /\ Stored(d)
  /\ WorkOn({d})
  /\ SetRow(d, "gone", NoKey)
  /\ UNCHANGED <<overdue, files, pc, request, faults>>

-----------------------------------------------------------------------------
ClientLeaves(r) ==
  /\ r \in InFlight \ left /\ Fault("client")
  /\ left' = left \cup {r}
  /\ UNCHANGED <<row, overdue, files, pc, op, draft, key, overlapped>>

Crash(r) ==
  /\ r \in InFlight /\ Fault("crash")
  /\ Goto(r, "crashed")
  /\ UNCHANGED <<row, overdue, files, request, overlapped>>

BeginSome(r) == \E d \in Drafts :
  BeginStart(r, d) \/ BeginRetry(r, d) \/ BeginDiscard(r, d) \/ BeginSave(r, d)

\* The steps a server takes by itself once a request has begun.
Serve(r) ==
  \/ Restart(r) \/ Capture(r) \/ StoreReady(r) \/ StoreFailed(r)
  \/ UnlinkStaged(r) \/ MarkDiscarded(r)
  \/ Promote(r) \/ MarkConsumed(r) \/ AbandonSave(r)

Next ==
  \/ \E r \in Requests : BeginSome(r) \/ Serve(r) \/ ClientLeaves(r) \/ Crash(r)
  \/ \E d \in Drafts : BecomeOverdue(d) \/ DropSession(d)
  \/ \E D \in SUBSET Drafts : Expire(D)

\* The Go scheduler runs every goroutine, the database answers, and the
\* capture ends (CapturePool says when it does).
Fairness == \A r \in Requests : WF_vars(Serve(r))

Spec == Init /\ [][Next]_vars
FairSpec == Spec /\ Fairness

-----------------------------------------------------------------------------
(* Properties.                                                             *)

Labels == Ended \cup {"idle", "restart", "capture", "store_ready", "store_failed",
                      "unlink", "mark_discarded", "promote", "mark_consumed"}

\* The row, the file and the requests have the types their declarations say.
TypeOK ==
  /\ state \in [Drafts -> {"none", "capturing", "ready", "failed",
                           "consumed", "discarded", "expired", "gone"}]
  /\ staged \in [Drafts -> StagedKeys \cup {NoKey}]
  /\ overdue \subseteq Drafts
  /\ files \subseteq Keys
  /\ pc \in [Requests -> Labels]
  /\ op \in [Requests -> {"none", "start", "retry", "discard", "save"}]
  /\ draft \in [Requests -> Drafts \cup {NoDraft}]
  /\ key \in [Requests -> StagedKeys \cup {NoKey}]
  /\ left \subseteq Requests
  /\ faults \subseteq Faults
  /\ overlapped \subseteq Drafts

\* Has moved or removed the file k, whatever became of the request later.
Took(r, k) == /\ op[r] \in {"discard", "save"} /\ key[r] = k
              /\ pc[r] \notin {"unlink", "promote"}

\* A draft that the form shows as ready has its image: capture.go:73-94 writes
\* "ready" only after Validate saw the file, and nothing but a save or a
\* discard of that very image takes it away, in any interleaving and after
\* any fault.
PreviewLastsUntilTaken == \A d \in Drafts :
  state[d] = "ready" =>
    /\ staged[d] # NoKey
    /\ staged[d] \in files \/ \E r \in Requests : Took(r, staged[d])

\* Two saves never go on with the same image: both may have read the draft as
\* ready (create.go:90-100, update.go:68-77), but only one rename of the staged
\* file finds it.
ImageSavedOnce == \A r, s \in Requests :
  r # s /\ {pc[r], pc[s]} \subseteq {"mark_consumed", "saved"} => key[r] # key[s]

\* A draft is saved once, whatever fails: the error of the UpdateDraft that
\* marks it consumed is ignored (create.go:110, update.go:94-97) and it may be
\* read as ready again, but its image is gone.  Requests at the same time excepted.
Savers(d) == {r \in Requests : pc[r] = "saved" /\ draft[r] = d}
DraftSavedOnce == \A d \in Drafts \ overlapped : Cardinality(Savers(d)) <= 1

\* data-model.md:172: a draft is consumed by one bookmark, then terminal: two
\* saves of one draft never both succeed, in any interleaving.
DraftIsConsumedByOne == \A d \in Drafts : Cardinality(Savers(d)) <= 1

\* The state column moves along the edges of the lifecycle, for as long as no two
\* have worked on the draft at a time: UpdateDraft writes what a request read back
\* whole (capture.go:127-133, 141-154).  A deleted row never comes back even then.
Shown == [d \in Drafts |-> IF d \in overlapped /\ Stored(d) THEN "contested" ELSE state[d]]
Lifecycle == INSTANCE DraftLifecycle WITH state <- Shown
FollowsLifecycle == Lifecycle!Spec

\* A capture does not stay in progress: the form that polls GET /captures/{id}
\* gets an outcome (capture.go:73-94 stores one on every path), unless the call
\* that stores it failed or its process died.
CapturingEnds == \A d \in Drafts :
  state[d] = "capturing" ~> state[d] # "capturing" \/ faults \cap {"client", "db", "crash"} # {}
=============================================================================
