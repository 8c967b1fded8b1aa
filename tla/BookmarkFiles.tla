---------------------------- MODULE BookmarkFiles ----------------------------
(***************************************************************************)
(* Creating, updating and deleting bookmarks that have a screenshot: the   *)
(* use cases of bookmarker/usecase/create.go, update.go and delete.go over *)
(* the PostgreSQL tables bookmarks, screenshots, capture_drafts and        *)
(* screenshot_cleanup and the screenshot directory.  The database and the  *)
(* directory share no transaction: a request is a sequence of database     *)
(* calls and file operations, each of them one action here, and requests   *)
(* of the web server and of the command-line program interleave.           *)
(*                                                                         *)
(* A request that the code refuses before it has changed anything (invalid *)
(* input, no bookmark, an unusable draft, no SaveWithoutScreenshot, a      *)
(* failed first read) is a request that has not begun.                     *)
(***************************************************************************)
EXTENDS Naturals, FiniteSets, ScreenshotStore

CONSTANTS
  Requests,       \* the requests that will be made
  Seeds,          \* bookmarks stored before, each with a screenshot
  Drafts,         \* capture drafts in state ready, each with a staged file
  Urls,
  SeedUrl,        \* the URL of each seed, which its screenshot shows
  DraftUrl,       \* the target URL of each draft
  DraftBookmark,  \* the bookmark a draft was started for, or NoBookmark
  Faults,         \* the kinds of fault that may happen, of FaultKinds
  MaxFaults,      \* bound: kinds of fault in one behaviour
  NoKey, NoDraft, NoBookmark

(***************************************************************************)
(* db: a database call fails and changes nothing (an error, or the request *)
(* context cancelled by a client that went away).  lost_reply: it changes  *)
(* the database and still returns an error (the connection breaks during   *)
(* COMMIT).  rename: Promote or Quarantine fails.  restore: Restore fails. *)
(* unlink: Remove fails.  crash: the process that serves the request dies. *)
(***************************************************************************)
FaultKinds == {"db", "lost_reply", "rename", "restore", "unlink", "crash"}

Ids == Requests \cup Seeds      \* a bookmark is created under its request
Keys == {"staging"} \X Drafts \cup {"promoted"} \X Ids
          \cup {"quarantine"} \X Requests

ASSUME ConstantsAssumption ==
  /\ Requests \cap Seeds = {}
  /\ SeedUrl \in [Seeds -> Urls]
  /\ DraftUrl \in [Drafts -> Urls]
  /\ DraftBookmark \in [Drafts -> Seeds \cup {NoBookmark}]
  /\ Faults \subseteq FaultKinds
  /\ Urls # {} /\ MaxFaults \in Nat
  /\ NoKey \notin Keys /\ NoDraft \notin Drafts /\ NoBookmark \notin Ids

VARIABLES
  bookmarks,    \* table bookmarks: the stored ids
  url,          \* ... and the url column
  screenshot,   \* table screenshots: the storage_key of a bookmark, or NoKey
  draft,        \* table capture_drafts: the state column
  cleanup,      \* table screenshot_cleanup: the keys still to be removed
  files,        \* the screenshot directory: the keys that name a file
  pc,           \* the next step of a request
  input,        \* the request: operation, bookmark, url, capture id
  current,      \* what FindBookmark returned to it: url and storage key
  key,          \* storageKey or quarantinedKey, once it has been drawn
  faults,       \* the kinds of fault that have happened so far
  contended     \* bookmarks that two requests have worked on at a time

database == <<bookmarks, url, screenshot, draft, cleanup>>
locals == <<input, current, key>>
vars == <<database, files, pc, locals, faults, contended>>

Ended == {"saved", "refused", "crashed"}
InFlight == {r \in Requests : pc[r] \notin Ended \cup {"idle"}}

Fault(kind) == /\ kind \in Faults
               /\ faults' = faults \cup {kind}
               /\ Cardinality(faults') <= MaxFaults
NoFault == UNCHANGED faults
At(r, label) == pc[r] = label
Goto(r, label) == pc' = [pc EXCEPT ![r] = label]

\* Mutant: the file is copied and the old one stays.
CopyFile(from, to) == CanRename(files, from) /\ files' = files \cup {to} /\ NoFault

\* A rename that finds its file, and one that fails and moves nothing.
MoveFile(from, to) == CanRename(files, from) /\ files' = Rename(files, from, to) /\ NoFault
MoveFails(from, kind) == /\ UNCHANGED files
                         /\ (~CanRename(files, from) /\ NoFault) \/ Fault(kind)

\* A removal, and one that fails.
RemoveFile(k) == files' = Unlink(files, k) /\ NoFault
RemoveFails == UNCHANGED files /\ Fault("unlink")

Op(r) == input[r].op
Capture(r) == input[r].capture
Bookmark(r) == input[r].bookmark
\* Mutant: EnsureUsableBy does not compare the URL.
UsableForAnyUrl(d, u) == draft[d] = "ready"

Usable(d, u) == draft[d] = "ready" /\ DraftUrl[d] = u

\* UpdateBookmarkInput with a capture id or a changed url replaces the
\* screenshot; a changed url without a capture replaces it by none.
Replaces(r) == Capture(r) # NoDraft \/ input[r].url # current[r].url

-----------------------------------------------------------------------------
AnyUrl == CHOOSE u \in Urls : TRUE
NoInput == [op |-> "none", bookmark |-> NoBookmark, url |-> AnyUrl, capture |-> NoDraft]

Init ==
  /\ bookmarks = Seeds
  /\ url = [b \in Ids |-> IF b \in Seeds THEN SeedUrl[b] ELSE AnyUrl]
  /\ screenshot = [b \in Ids |-> IF b \in Seeds THEN PromotedKey(b) ELSE NoKey]
  /\ draft = [d \in Drafts |-> "ready"]
  /\ cleanup = {}
  /\ files = {PromotedKey(b) : b \in Seeds} \cup {StagedKey(d) : d \in Drafts}
  /\ pc = [r \in Requests |-> "idle"]
  /\ input = [r \in Requests |-> NoInput]
  /\ current = [r \in Requests |-> [url |-> AnyUrl, screenshot |-> NoKey]]
  /\ key = [r \in Requests |-> NoKey]
  /\ faults = {}
  /\ contended = {}

Begin(r, op, b, u, d, label) ==
  /\ At(r, "idle")
  /\ input' = [input EXCEPT ![r] = [op |-> op, bookmark |-> b, url |-> u, capture |-> d]]
  /\ Goto(r, label)
  /\ contended' = contended \cup {x \in {b} : \E s \in InFlight : Bookmark(s) = x}
  /\ UNCHANGED <<database, files, key, faults>>

\* FindBookmark: the row the request goes on with, whatever happens to it.
Snapshot(r, b) ==
  /\ b \in bookmarks
  /\ current' = [current EXCEPT ![r] = [url |-> url[b], screenshot |-> screenshot[b]]]

-----------------------------------------------------------------------------
(* Create: FindDraft is its first call.  Without a capture id, or with a   *)
(* draft that cannot be consumed, it goes on only when the caller asked to *)
(* save without a screenshot.                                              *)

BeginCreate(r) == \E u \in Urls :
  /\ \/ Begin(r, "create", r, u, NoDraft, "insert")
     \/ \E d \in Drafts :
          /\ DraftUrl[d] = u
          /\ Begin(r, "create", r, u, d, IF Usable(d, u) THEN "promote" ELSE "insert")
  /\ UNCHANGED current

\* UpdateDraft to consumed; its error is ignored.
MarkBeforeInsert(r) ==
  /\ At(r, "mark_then_insert")
  /\ \/ draft' = [draft EXCEPT ![Capture(r)] = "consumed"] /\ NoFault
     \/ UNCHANGED draft /\ Fault("db")
  /\ Goto(r, "insert")
  /\ UNCHANGED <<bookmarks, url, screenshot, cleanup, files, locals, contended>>

InsertRow(r) ==
  /\ bookmarks' = bookmarks \cup {r}
  /\ url' = [url EXCEPT ![r] = input[r].url]
  /\ screenshot' = [screenshot EXCEPT ![r] = key[r]]
  /\ UNCHANGED <<draft, cleanup>>

\* Mutant: a failed write is not compensated.
Uncompensated(r) == Goto(r, "refused")

AfterFailedWrite(r) == Goto(r, IF key[r] = NoKey THEN "refused" ELSE "compensate")

\* CreateBookmark, one transaction.
Insert(r) ==
  /\ At(r, "insert")
  /\ \/ InsertRow(r) /\ NoFault /\ Goto(r, "saved")
     \/ UNCHANGED database /\ Fault("db") /\ AfterFailedWrite(r)
     \/ InsertRow(r) /\ Fault("lost_reply") /\ AfterFailedWrite(r)
  /\ UNCHANGED <<files, locals, contended>>

-----------------------------------------------------------------------------
(* Steps that Create and Update share.                                     *)

\* Mutant: the error of Promote is ignored.
PromoteIgnoringError(r) ==
  /\ At(r, "promote")
  /\ \/ MoveFile(StagedKey(Capture(r)), PromotedKey(r))
     \/ MoveFails(StagedKey(Capture(r)), "rename")
  /\ key' = [key EXCEPT ![r] = PromotedKey(r)]
  /\ Goto(r, IF Op(r) = "create" THEN "mark_then_insert" ELSE "write")
  /\ UNCHANGED <<database, input, current, contended>>

Promote(r) ==
  /\ At(r, "promote")
  /\ \/ /\ MoveFile(StagedKey(Capture(r)), PromotedKey(r))
        /\ key' = [key EXCEPT ![r] = PromotedKey(r)]
        /\ Goto(r, IF Op(r) = "create" THEN "mark_then_insert" ELSE "write")
     \/ /\ MoveFails(StagedKey(Capture(r)), "rename")
        /\ Goto(r, "refused") /\ UNCHANGED key
  /\ UNCHANGED <<database, input, current, contended>>

\* The write failed: Remove the promoted file, and ignore an error.
Compensate(r) ==
  /\ At(r, "compensate")
  /\ RemoveFile(key[r]) \/ RemoveFails
  /\ Goto(r, "refused")
  /\ UNCHANGED <<database, locals, contended>>

-----------------------------------------------------------------------------
(* Update.                                                                 *)

BeginUpdate(r) == \E b \in bookmarks, u \in Urls, d \in Drafts \cup {NoDraft} :
  /\ Snapshot(r, b)
  /\ Begin(r, "update", b, u, d, IF d = NoDraft THEN "write" ELSE "find_draft")

\* FindDraft, EnsureUsableBy and the check that the draft is bound to this
\* bookmark.  Deleting a bookmark sets the column bookmark_id of its drafts
\* to NULL.
FindDraft(r) ==
  /\ At(r, "find_draft")
  /\ LET d == Capture(r)
         bound == DraftBookmark[d] = Bookmark(r) /\ Bookmark(r) \in bookmarks
     IN  \/ Usable(d, input[r].url) /\ bound /\ Goto(r, "promote") /\ NoFault
         \/ ~(Usable(d, input[r].url) /\ bound) /\ Goto(r, "refused") /\ NoFault
         \/ Fault("db") /\ Goto(r, "refused")
  /\ UNCHANGED <<database, files, locals, contended>>

\* Mutant: the screenshot row is rewritten when nothing replaces it, too.
UpdateRowAlwaysReplacing(r) ==
  /\ Bookmark(r) \in bookmarks
  /\ url' = [url EXCEPT ![Bookmark(r)] = input[r].url]
  /\ screenshot' = [screenshot EXCEPT ![Bookmark(r)] = IF Replaces(r) THEN key[r] ELSE current[r].screenshot]
  /\ UNCHANGED <<bookmarks, draft, cleanup>>

UpdateRow(r) ==
  /\ Bookmark(r) \in bookmarks
  /\ url' = [url EXCEPT ![Bookmark(r)] = input[r].url]
  /\ screenshot' = IF Replaces(r) THEN [screenshot EXCEPT ![Bookmark(r)] = key[r]] ELSE screenshot
  /\ UNCHANGED <<bookmarks, draft, cleanup>>

\* Mutant: the request goes on as if a failed UpdateBookmark had succeeded.
WriteIgnoringError(r) ==
  /\ At(r, "write")
  /\ \/ UpdateRow(r) /\ NoFault
     \/ UNCHANGED database /\ Bookmark(r) \notin bookmarks /\ NoFault
     \/ UNCHANGED database /\ Fault("db")
  /\ Goto(r, IF Capture(r) # NoDraft THEN "mark" ELSE "remove_old")
  /\ UNCHANGED <<files, locals, contended>>

\* UpdateBookmark, one transaction: it ends with an error and no effect when
\* the row is gone.
Write(r) ==
  /\ At(r, "write")
  /\ \/ UpdateRow(r) /\ NoFault /\ Goto(r, IF Capture(r) # NoDraft THEN "mark" ELSE "remove_old")
     \/ /\ UNCHANGED database
        /\ (Bookmark(r) \notin bookmarks /\ NoFault) \/ Fault("db")
        /\ AfterFailedWrite(r)
     \/ UpdateRow(r) /\ Fault("lost_reply") /\ AfterFailedWrite(r)
  /\ UNCHANGED <<files, locals, contended>>

MarkAfterWrite(r) ==
  /\ At(r, "mark")
  /\ \/ draft' = [draft EXCEPT ![Capture(r)] = "consumed"] /\ NoFault
     \/ UNCHANGED draft /\ Fault("db")
  /\ Goto(r, "remove_old")
  /\ UNCHANGED <<bookmarks, url, screenshot, cleanup, files, locals, contended>>

\* Remove the screenshot that FindBookmark returned.
RemoveOld(r) ==
  /\ At(r, "remove_old")
  /\ IF Replaces(r) /\ current[r].screenshot # NoKey
     THEN \/ RemoveFile(current[r].screenshot) /\ Goto(r, "saved")
          \/ RemoveFails /\ Goto(r, "record_old")
     ELSE UNCHANGED files /\ NoFault /\ Goto(r, "saved")
  /\ UNCHANGED <<database, locals, contended>>

-----------------------------------------------------------------------------
(* Delete.                                                                 *)

BeginDelete(r) == \E b \in bookmarks :
  /\ Snapshot(r, b)
  /\ Begin(r, "delete", b, url[b], NoDraft, IF screenshot[b] = NoKey THEN "delete" ELSE "quarantine")

Quarantine(r) ==
  /\ At(r, "quarantine")
  /\ \/ /\ MoveFile(current[r].screenshot, QuarantinedKey(r))
        /\ key' = [key EXCEPT ![r] = QuarantinedKey(r)]
        /\ Goto(r, "delete")
     \/ /\ MoveFails(current[r].screenshot, "rename")
        /\ Goto(r, "refused") /\ UNCHANGED key
  /\ UNCHANGED <<database, input, current, contended>>

\* ON DELETE CASCADE removes the row of table screenshots too.
DeleteRow(r) ==
  /\ Bookmark(r) \in bookmarks
  /\ bookmarks' = bookmarks \ {Bookmark(r)}
  /\ screenshot' = [screenshot EXCEPT ![Bookmark(r)] = NoKey]
  /\ UNCHANGED <<url, draft, cleanup>>

\* Mutants: a failed delete leaves the file in quarantine, or removes it there.
Unrestored(r) == Goto(r, "refused")
UnlinkAfterFailedDelete(r) == Goto(r, IF key[r] = NoKey THEN "refused" ELSE "remove_quarantined")

AfterFailedDelete(r) == Goto(r, IF key[r] = NoKey THEN "refused" ELSE "restore")

Delete(r) ==
  /\ At(r, "delete")
  /\ \/ DeleteRow(r) /\ NoFault /\ Goto(r, IF key[r] = NoKey THEN "saved" ELSE "remove_quarantined")
     \/ /\ UNCHANGED database
        /\ (Bookmark(r) \notin bookmarks /\ NoFault) \/ Fault("db")
        /\ AfterFailedDelete(r)
     \/ DeleteRow(r) /\ Fault("lost_reply") /\ AfterFailedDelete(r)
  /\ UNCHANGED <<files, locals, contended>>

\* The error of Restore is ignored.
Restore(r) ==
  /\ At(r, "restore")
  /\ MoveFile(key[r], current[r].screenshot) \/ MoveFails(key[r], "restore")
  /\ Goto(r, "refused")
  /\ UNCHANGED <<database, locals, contended>>

RemoveQuarantined(r) ==
  /\ At(r, "remove_quarantined")
  /\ \/ RemoveFile(key[r]) /\ Goto(r, "saved")
     \/ RemoveFails /\ Goto(r, "record_quarantined")
  /\ UNCHANGED <<database, locals, contended>>

-----------------------------------------------------------------------------
(* Removals that failed.                                                   *)

\* CreateScreenshotCleanup; its error is ignored.
Record(r, label, k) ==
  /\ At(r, label)
  /\ \/ cleanup' = cleanup \cup {k} /\ NoFault
     \/ UNCHANGED cleanup /\ Fault("db")
  /\ Goto(r, "saved")
  /\ UNCHANGED <<bookmarks, url, screenshot, draft, files, locals, contended>>

RecordOld(r) == Record(r, "record_old", current[r].screenshot)
RecordQuarantined(r) == Record(r, "record_quarantined", key[r])

\* A cleanup record is worked off when a process starts.  A failed attempt
\* keeps the record: CleanupQueue models attempts and workers.
CleanUp(k) ==
  /\ k \in cleanup
  /\ files' = Unlink(files, k)
  /\ cleanup' = cleanup \ {k}
  /\ UNCHANGED <<bookmarks, url, screenshot, draft, pc, locals, faults, contended>>

Crash(r) ==
  /\ r \in InFlight /\ Fault("crash")
  /\ Goto(r, "crashed")
  /\ UNCHANGED <<database, files, locals, contended>>

-----------------------------------------------------------------------------
Step(r) ==
  \/ BeginCreate(r) \/ BeginUpdate(r) \/ BeginDelete(r)
  \/ Promote(r) \/ MarkBeforeInsert(r) \/ Insert(r) \/ Compensate(r)
  \/ FindDraft(r) \/ Write(r) \/ MarkAfterWrite(r) \/ RemoveOld(r) \/ RecordOld(r)
  \/ Quarantine(r) \/ Delete(r) \/ Restore(r) \/ RemoveQuarantined(r) \/ RecordQuarantined(r)
  \/ Crash(r)

Next == (\E r \in Requests : Step(r)) \/ (\E k \in Keys : CleanUp(k))

Spec == Init /\ [][Next]_vars

-----------------------------------------------------------------------------
(* Properties.                                                             *)

Labels == Ended \cup {"idle", "promote", "mark_then_insert", "insert", "compensate",
            "find_draft", "write", "mark", "remove_old", "record_old",
            "quarantine", "delete", "restore", "remove_quarantined", "record_quarantined"}

\* Every table, file and request has the type its declaration says.
TypeOK ==
  /\ bookmarks \subseteq Ids
  /\ url \in [Ids -> Urls]
  /\ screenshot \in [Ids -> Keys \cup {NoKey}]
  /\ draft \in [Drafts -> {"ready", "consumed"}]
  /\ cleanup \subseteq Keys
  /\ files \subseteq Keys
  /\ pc \in [Requests -> Labels]
  /\ input \in [Requests -> [op : {"none", "create", "update", "delete"}, bookmark : Ids \cup {NoBookmark},
                             url : Urls, capture : Drafts \cup {NoDraft}]]
  /\ current \in [Requests -> [url : Urls, screenshot : Keys \cup {NoKey}]]
  /\ key \in [Requests -> Keys \cup {NoKey}]
  /\ faults \subseteq FaultKinds
  /\ contended \subseteq Ids

Shows(b, k) == b \in bookmarks /\ screenshot[b] = k /\ k # NoKey
Referenced(k) == \E b \in bookmarks : Shows(b, k)

\* The delete that moved the screenshot k away has not ended; a crash, or a
\* Restore that fails, leaves the file in quarantine for good.
HidingLabels == {"delete", "restore"} \cup (IF "crash" \in faults THEN {"crashed"} ELSE {})
                                      \cup (IF "restore" \in faults THEN {"refused"} ELSE {})
HiddenBy(r, k) == /\ Op(r) = "delete" /\ current[r].screenshot = k
                  /\ key[r] = QuarantinedKey(r) /\ key[r] \in files
                  /\ pc[r] \in HidingLabels

\* The image of a stored bookmark is never destroyed: as long as the row
\* names a key, the file lies under it or in the quarantine of a delete that
\* moved it (update.go:88-102 removes the old file after the write, delete.go:34-47
\* unlinks after the row is gone, create.go:68-75 compensates failed writes).  A
\* write that took effect and reports an error is compensated, too: excepted.
ReferencedImageSurvives ==
  "lost_reply" \notin faults =>
     \A b \in bookmarks : screenshot[b] # NoKey =>
        screenshot[b] \in files \/ \E r \in Requests : HiddenBy(r, screenshot[b])

\* A file that some request or some cleanup record will still remove belongs
\* to no stored bookmark, whichever requests ran in between (update.go:89-100,
\* create.go:72, delete.go:47-49, cleanup.go:42).
Doomed(k) ==
  \/ k \in cleanup
  \/ \E r \in Requests :
       \/ pc[r] \in {"compensate", "remove_quarantined", "record_quarantined"} /\ key[r] = k
       \/ pc[r] \in {"mark", "remove_old", "record_old"} /\ Replaces(r) /\ current[r].screenshot = k
DoomedFilesAreUnreferenced ==
  "lost_reply" \notin faults => \A k \in Keys : Doomed(k) => ~Referenced(k)

\* A staged file is promoted by one request only, also when several have read
\* the draft as ready (create.go:90-110, update.go:64-77).
DraftPromotedOnce ==
  \A r, s \in Requests :
     /\ Op(r) \in {"create", "update"} /\ Op(s) \in {"create", "update"}
     /\ key[r] # NoKey /\ key[s] # NoKey /\ Capture(r) = Capture(s)
     => r = s

\* A draft that the table calls consumed has no staged file any more: nothing
\* is left that only its row could lead to (create.go:105-110, update.go:74-96).
ConsumedDraftHasNoStagedFile ==
  \A d \in Drafts : draft[d] = "consumed" => StagedKey(d) \notin files

\* A draft is spent by one request, and spent completely, however many have read
\* it as ready and whatever fails on the way.
DraftSpentOnce == DraftPromotedOnce /\ ConsumedDraftHasNoStagedFile

\* The URL of the page that a promoted file shows.
ShownUrl(k) == IF k[2] \in Seeds THEN SeedUrl[k[2]] ELSE DraftUrl[Capture(k[2])]

\* A stored screenshot shows the page its bookmark points to.  update.go:43-45: "A
\* changed URL requires either a bound ready replacement or explicit screenshot omission."
\* Two updates at once can each replace one half: update.go decides on the URL it read.
ScreenshotShowsUrl ==
  \A b \in bookmarks \ contended : screenshot[b] # NoKey => ShownUrl(screenshot[b]) = url[b]

\* Once every request has ended, each file is the screenshot of a bookmark,
\* the staged file of a draft that is still ready, or due to be removed: one
\* kind of fault, however often, is compensated (create.go:68-75, update.go:79-86,
\* 92-100, delete.go:39-56), except a crash and a write with a lost reply.
NothingLeaks ==
  /\ InFlight = {} /\ contended = {}
  /\ Cardinality(faults) <= 1 /\ faults \cap {"crash", "lost_reply"} = {}
  => \A k \in files : \/ Referenced(k) \/ k \in cleanup
                      \/ \E d \in Drafts : k = StagedKey(d) /\ draft[d] = "ready"

\* Once every request has ended, each stored bookmark's file lies under its key: it
\* can be served, and the bookmark can be deleted (Quarantine needs the file).
NothingDangles ==
  /\ InFlight = {} /\ faults \cap {"crash", "lost_reply", "restore"} = {}
  => \A b \in bookmarks : screenshot[b] # NoKey => screenshot[b] \in files

\* A delete is stopped at its screenshot only by a rename that fails or by a request
\* that replaced the screenshot or deleted the bookmark meanwhile: that the file of the
\* bookmark is missing is no reason (delete.go:33-38 makes it one).
MissingFileDoesNotStopDelete ==
  [][\A r \in Requests : At(r, "quarantine") /\ pc'[r] = "refused" =>
        \/ current[r].screenshot \in files
        \/ Bookmark(r) \notin bookmarks
        \/ screenshot[Bookmark(r)] # current[r].screenshot]_vars

\* The key of a stored bookmark changes to a fresh file or to none, never
\* back to a file that was given up before or that belonged to another.
KeyIsGivenOnce ==
  [][\A b \in Ids : screenshot'[b] # screenshot[b] /\ screenshot'[b] # NoKey =>
        /\ screenshot'[b] \in files
        /\ \A r \in Requests : current[r].screenshot # screenshot'[b]
        /\ ~Referenced(screenshot'[b])]_vars
=============================================================================
