# A TLA+ model of La Memoria

La Memoria ("Bookmarker" in its source) is a Go program that keeps bookmarks with
screenshots. A web server and a command-line program share one PostgreSQL database, one
directory of screenshots and one `config.yaml`; an external `agent-browser` takes the
screenshots. This directory holds TLA+ models of the parts where steps of several actors
interleave or fail half-way, the TLC configurations that check them, and machine-checked
proofs about them.

    tlc -config BookmarkFiles_requests.cfg MCBookmarkFiles.tla     # any run of the table below
    tlapm BookmarkFiles_proofs.tla                                 # any module *_proofs

Source paths are relative to the repository root; `specs/` abbreviates
`specs/001-bookmark-administration/`.

## 1. Inventory

There is little shared memory in this program (one semaphore, one cookie). What makes it hard is that
a request is a sequence of calls to *two stores that share no transaction* — the database
and the directory — and that the use cases read a row, decide, and write it back without a
lock or a version: two requests, a retention run, a lost connection or a dying process can
fall between any two calls.

| Component | State it keeps | Operations | Interacts with | What is hard; what makes it correct |
|---|---|---|---|---|
| Bookmark administration (`bookmarker/usecase/create.go`, `update.go`, `delete.go`) | tables `bookmarks`, `screenshots` | Create, Update, Delete | drafts (consumes), screenshot store (promotes, quarantines, removes), cleanup queue (records removals that failed) | The compensation of every failure, stale reads. The image of a stored bookmark is never destroyed; nothing else stays behind; the image shows the bookmark's URL. |
| Screenshot store (`adapters/filesystem/screenshots.go`) | directory with `staging`, `promoted`, `quarantine` | StagingPath, Promote, Quarantine, Restore, Remove, Discard, Validate, Read | used by everybody | One rename or unlink each, with no context. |
| Capture drafts (`usecase/capture.go`, `model/capture.go`, `postgres/capture_draft_store.go`) | table `capture_drafts` | Start, Retry, Status, Discard, consumption by a save | pool, screenshot store, sessions (cascade), retention | `UpdateDraft` writes the whole row read before. A lifecycle, a preview that exists, an image saved once, a capture that ends. |
| Capture pool (`adapters/agentbrowser/capture.go`, `processRunner` in `cmd/*/main.go`) | the semaphore, external browser sessions | Capture | called by capture drafts | Hanging commands, deadlines, deferred close. Bounded browsers; slots come back. |
| Screenshot cleanup queue (`usecase/cleanup.go`, `postgres/retention.go`) | table `screenshot_cleanup` | create, claim, complete | every process runs it once, at its start | Claims of processes that start together, crash after a claim. One worker per record; no record lost; the outcome is true. |
| Retention (`usecase/retention.go`) | — | expire drafts, delete sessions and throttle rows, cleanup | drafts, sessions, queue | Runs while requests do. |
| Sign-in (`usecase/auth.go`, `postgres/auth_store.go`, `httpweb/auth_handlers.go`) | tables `web_sessions`, `login_throttle_pairs`, the cookie | login page, SignIn, SignOut, Authorize | every protected handler | Statements without a transaction, tabs that interleave, windows. Guesses are bounded, sessions rotate, what is revoked writes nothing. |
| Configuration administration (`usecase/configuration.go`, `configyaml/update.go`) | `config.yaml`, the settings a server has read | Validate, Update | operator's editor, restart | Load–edit–replace without a lock, errors after the rename. One whole candidate wins, the operator's groups survive, a restart is announced. |
| Browse and search (`usecase/browse.go`, `search.go`, `postgres/bookmark_query.go`, `model/pagination.go`) | — | count, page and tags queries; the page links | reads the tables; web and stream show the answer | Three snapshots in one answer, and many in a walk through the pages. An answer is true of the collection it was made from; the links account for every page. |
| Tag normalisation and upsert (`model/bookmark.go`, `postgres/bookmark_create.go`, `bookmark_maintain.go`) | tables `tags`, `bookmark_tags` | insert, update, delete of the row, clear and upsert of its tags, commit, rollback | inside the bookmark transactions | Row locks of several tables in one transaction. No circular wait; the tags of a bookmark are those of one write. |
| JSON Lines protocol (`adapters/jsonl`) | the stream's session token | one operation per line, one answer per line | same use cases as the web | Thirty ways through the handlers, a session that ends without notice. One answer per line; the session is what the client was told. |
| Bookmark form script (`web/static/js/bookmark-form.js`, `fragments/capture.html`) | the fields and the status fragment of the page | capture on change of the URL, polling, Retry, Discard, save | capture drafts, saves | Answers that arrive in another order, targets that are gone. A screenshot belongs to the URL it is saved under. |
| HTTP router, CSRF and rendering (`httpweb/router.go`, `auth_handlers.go`) | the browser's cookie, the page of each tab | dispatch, `requireSession`, `VerifyCSRF`, answers | all use cases | Tabs share a cookie and have pages of different sessions. A write comes from a page of the session it runs in. |
| Schema migrations and process start (`postgres/database.go`, `cmd/*/main.go`) | table `schema_migrations` | version, apply, commit, retention, serve | every process, at its start | Several processes on an empty database. The schema is applied once and comes before service; a start ends. |
| Password hashing, configuration loading and validators, logging, layout | — | pure, or I/O without state | — | Unit-testable. |

`PROJECT.json` lists every component with its status, and every hazard at its line with
the properties that cover it.

## 2. Modules

```
ScreenshotStore <-- BookmarkFiles <-- MCBookmarkFiles, BookmarkFiles_proofs
       ^---------- CaptureDrafts <-- MCCaptureDrafts, CaptureDrafts_proofs
                        | implements (outside contention)
                   DraftLifecycle
CleanupQueue  <-- MCCleanupQueue,  CleanupQueue_proofs
SignIn        <-- MCSignIn,        SignIn_proofs
Configuration <-- MCConfiguration, Configuration_proofs
TagWrites     <-- MCTagWrites,     TagWrites_proofs
CapturePool   <-- MCCapturePool   \
ProcessStart  <-- MCProcessStart   } Processes_proofs
StreamSession <-- MCStreamSession /
WebRequests   <-- MCWebRequests   \
CaptureForm   <-- MCCaptureForm    } Pages_proofs
Pagination    <-- BrowseQueries <-- MCBrowseQueries, Pages_proofs
```

`MC...` gives the constants of a run their values; `..._proofs` holds the theorems, for
all values. Two modules of theorems extend several components that share no state: what runs
inside one process, and what a visitor's browser shows. The definitions of these components
therefore have names of their own (`PoolSpec`, `StartSpec`, `StreamSpec`, `WebSpec`, `FormSpec`,
`BrowseSpec` for `Spec`; `phase`, `step` and `query` for `pc`). The groups do not extend each other: each component meets the others only through
the calls its actions make. Where two modules share a table, each says what the other does
to it in one action: WebRequests and StreamSession have a protected operation in one step
(`Act`) whose content is BookmarkFiles or CaptureDrafts; ProcessStart has retention in one
step whose content is CleanupQueue and the `Expire` and `DropSession` of the others.

Conventions of all modules:

* One action is one database call (a transaction or a statement), one file-system call, or
  one external command, with the assignments the code makes before its next call. `pc[r]`
  names the call a request makes next; `Begin...` is the first read of the use case with
  the checks that follow it. A request that the code refuses before it has changed
  anything changes nothing a property could see: it has not begun.
* `faults` is the set of *kinds* of fault that have happened. A kind, once it has
  happened, may happen again, any number of times; `MaxFaults` bounds how many kinds one
  behaviour combines. It is a history variable: properties say which faults they exclude.
* The other history variables are `contended` and `overlapped` (two have worked on a
  bookmark or draft at a time), `elsewhere` (cleanup), `raced` and `wrong` (overlapping attempts
  to sign in, and wrong passwords), `leftOpen` (pool), `author`, `edits`, `crossed`, `announced`,
  `silent` (configuration), `lastWrite` (tags), `moved`, `walked`, `owed`, `shrunk` (browsing),
  `troubled` and `told` (stream), `late` (web), `unseen` (form).
  No guard of a code action reads one, except those that bound their growth.
* The definitions under a comment "Mutant" are not part of a specification. Each is one
  action or operator with a plausible bug, and some property fails when it takes the place
  of the original; they document which line a property guards.
* A statement of the documentation that the code does not keep is a definition at the end
  of its module, without a run (section 3).

**ScreenshotStore** — a file is its key: a directory and whoever drew the UUID. The three
operations are a rename that needs its file, a new key, and an unlink that does not
(`os.Remove` with `ErrNotExist` accepted).

**BookmarkFiles** — Create, Update and Delete, call by call. `input`, `current`, `key` are
the local variables of the use case (the request, what `FindBookmark` returned, and
`storageKey` or `quarantinedKey`). `Insert`, `Write`, `Delete` are the transactions of the
repository: each succeeds, fails without effect, or takes effect and still returns an
error (`lost_reply`: the connection breaks during COMMIT). `Compensate`, `Restore`,
`RecordOld`, `RecordQuarantined` are the failure paths. `CleanUp` is a successful repair;
CleanupQueue models it in detail. Titles, descriptions, tags and dates are left out.

**CaptureDrafts** — Start, Retry, Discard, and the consumption of a draft by a save, over
the columns `state`, `staged_key`, `expires_at`. A request carries the key it read and
writes it back whole. A client that leaves cancels the request's context: every later
database call of the request fails, file operations go on. `Expire` and `DropSession` are
the retention of a starting process; `overdue` replaces the clock.

**DraftLifecycle** — the abstract specification: the states and edges that the predicates
of `model/capture.go` and the retention statement allow.
`CaptureDrafts!FollowsLifecycle` is the refinement: its mapping sends the state of a draft
to itself, and to "contested" once two have worked on the draft at a time and its row
exists. So it says that outside contention only the edges of the lifecycle are taken,
through every fault and crash, and that under contention at least a deleted row never
comes back.

**CapturePool** — `Capture` of agentbrowser: slot, three commands under one deadline,
close without one, release. Retries of a draft share the browser session, which is named
by the draft's id. A close may fail: its error is dropped and the browser stays open
(`leftOpen`) until the session is used again.

**CleanupQueue** — records with their file, state, attempts and next attempt; workers that read
the clock once, claim a batch, and work it off record by record. Several records may name one
file, since a request records the key it read first (`CreateScreenshotCleanup`); other requests
remove a file meanwhile or move it into the quarantine (`TakeAway`) and back (`Restore`).

**SignIn** — one browser with several tabs, the throttle row of a pair with the window
arithmetic of `RecordFailure`, the table of sessions.

**Configuration** — Update with its *two* loads (Validate reads the file, then Update
reads it again), Activate up to and after the rename, an operator who edits his groups of
the file, and restarts. An update runs in the server, where a restart interrupts it, or in a
command line (`process`), which goes on across restarts and ends by a signal of its own (`Kill`).
The settings are three groups, by what a server does with them.

**TagWrites** — the transactions that BookmarkFiles takes as one step each, statement by
statement under READ COMMITTED: who holds and who waits for the row of a bookmark and of a
tag. `UpsertTag` is `INSERT ... ON CONFLICT DO UPDATE`; the tags are taken in the order of
`sort.Strings`, which is the order of numbers here. Normalisation is abstracted to a tag
(the normalized name) with several spellings (the display forms).

**WebRequests** — one browser. A request carries the cookie of the moment it was sent,
passes `requireSession` (`Write`), `VerifyCSRF` (`WriteCSRF`) and acts (`Act`), and its
answer arrives later (`Arrive`), when it sets or clears the cookie and shows a page.
Sign-in is here in four calls as in SignIn, without its throttle. `DropSession` is the retention
of another process, which deletes sessions that are in use like any other.

**Pagination** — the arithmetic of `model/pagination.go` as operators, and
**BrowseQueries** — list and search as the three queries they make, with
writes that commit between any two, over a collection where ids and creation times order
bookmarks differently. The visitor follows the links of the answers: `asked` is what he
entered, `walked` and `owed` are a history of a walk through the plain list.

**StreamSession** — `Serve` and `handle`: a line is read, classified, handled and answered
before the next one. An operation is the control it takes (protected, public, malformed, too
long...). Several streams on one database, with signals and with the retention of processes
that start. `Act` and `Public` stand for the code behind an operation that is authorised or public
and write one answer each: that each of its paths does so was read from the handlers and is assumed.

**ProcessStart** — Launch, SchemaVersion, Apply, Commit, Report, Open, Retention of any
number of web servers and command lines. The one migration file is one transaction, whose
`CREATE TABLE` makes the second process wait and then fail. A process whose working directory has no
migrations (`fileless`) finds none, and goes on without an error.

**CaptureForm** — the add page and the edit page (variable `bookmark`), with the server
side of a capture, a retry, a discard and a save as one step each (their interleavings are
in CaptureDrafts), which may fail after each write they make: a retry that stores its outcome and
is refused, a discard that has removed the file only, a save that consumed the draft and wrote no
bookmark. Of htmx (vendored, `web/static/vendor`) the model has one request per element with one
queued behind it, targets found when a request is asked for and inherited from the elements around,
and no swap of an error. So the answer to a poll takes the place of the form (`formPage` "replaced"):
what is left is the fragment, whose own polls replace it from then on, and the answers that are
still on their way. The refusal of a poll or of a button changes nothing in the page, so it is one step with the
server's: only when the button can be pressed again would depend on when it comes; and once a save was accepted the
page is left, with its form, its fragment and its polls (`LeavePage`).

## 3. Runs

States are distinct states. Every run passes.

| Run | Instance | Checks |
|---|---|---|
| `BookmarkFiles_requests` | 3 requests, 1 stored bookmark, 2 drafts, 2 URLs, all 6 kinds of fault, 2 together; 1.0M states | The images of stored bookmarks survive (`ReferencedImageSurvives`), what will be removed belongs to nobody (`DoomedFilesAreUnreferenced`), a draft is promoted once and leaves no staged file (`DraftSpentOnce`), the screenshot shows the URL, nothing leaks, nothing dangles, a bookmark never returns to a key that was given up. |
| `CaptureDrafts_requests` | 1 draft, 5 requests, one of 4 kinds of fault at a time, under `FairSpec`; 0.5M | A ready draft has its image until somebody takes it, an image is saved once, a draft is saved once unless two work on it at a time, refinement of DraftLifecycle; a capture leaves the state "capturing" unless a call failed or the process died. |
| `TagWrites_requests` | 3 transactions, 2 bookmarks, 2 tags, under `FairSpec`; 0.3M | Nobody waits in a circle for row locks, the tags of a bookmark are those of the one request that wrote it last, every transaction ends. |
| `CleanupQueue_workers` | 3 records of 2 files, 2 workers, batches of 2, 2 attempts, clock 0–2, requests that take a file away or bring it back; 1.0M | One worker per record, the outcome in the table is true of the directory, also when several records name one file, no record is left running before a first fault. |
| `SignIn_requests` | 1 pair, 3 sessions, 2 tabs, limit 3 in a window of 2, block of 3, clock 0–4; 2.0M | At most 2F−2 wrong guesses in any stretch of one window's length, a blocked pair verifies nothing, a block stands, sign-in leaves no usable old session. |
| `WebRequests_guards` | 2 tabs, 5 sessions, failing calls, retention of sessions in use; 1.0M | A write runs in the session of the page it comes from, and a request sent after its session was revoked or deleted writes nothing. |
| `CapturePool_slots` | 4 captures of 3 drafts, 2 slots; 0.1M | Browsers are bounded by slots, but for those whose close failed; a taken slot comes back unless a close hangs. |
| `Configuration_updates` | 2 updates, each of the server or of a command line, 2 edits, restarts, signals; 1.0M | The file holds one whole candidate, the operator's edits survive, a refusal before the rename changes nothing, a change of the database settings is announced. |
| `BrowseQueries_answers` | 3 bookmarks, pages of 2 and of 1, at most 2 results, pages 0–3, and for the page links every collection of 0–19 in pages of 1, 2 and 10; 1.3M | An answer that no write disturbed is exact and in order, what a tag filter found shows the tag (`AnswersAreTrue`); first, last, selected and neighbouring pages are linked and gaps are marked; a walk from the first page to the last misses nothing unless a bookmark was deleted. |
| `ProcessStart_starts` | 3 processes, each with or without the migration file, under `FairStartSpec`; 32k | The schema is applied once and comes before the service of whoever migrates and finds the file; every start comes to serve or ends. |
| `StreamSession_streams` | 2 streams of 5 lines, 3 sessions, failing calls; 0.7M | One answer per line on every path; a protected operation runs only while the client was told it is signed in, nobody who was told so is refused without a cause, no session is left that nobody holds (`SessionIsAsTold`). |
| `CaptureForm_pages` | the add page, and the edit page of a bookmark with one of 2 URLs; 2 captures, every call may fail; 1.8M | A saved screenshot is of the URL it was saved under and is saved once, whether the draft is consumed before the write or after it (`ShotsBelong`); when nothing is under way, the fragment shows the state its draft has (`ShownIsStored`). |

Type invariants: most are theorems of their own (`TypesHold`, `TypeCorrect`, `PoolTypes`) and
are not repeated by a run; those of the other four modules are the first conjunct of
`AnswersAreTrue`, `SchemaBeforeService`, `SessionIsAsTold` and `ShotsBelong`.

### Statements of the documentation that the code does not keep

Each of them is a definition in its module. Put in the place of the properties of the
configuration named, TLC refutes it; no run keeps it, since it does not hold.

| Definition, configuration | Statement | What the counterexample shows |
|---|---|---|
| `MissingFileDoesNotStopDelete`, `BookmarkFiles_requests` (action property) | `specs/data-model.md:92` "Missing or unreadable files do not invalidate the bookmark." | A process dies between Quarantine and DeleteBookmark. The bookmark is still stored; from then on every delete of it fails at Quarantine (`delete.go:34`), because its file is not there. |
| `DraftIsConsumedByOne`, `CaptureDrafts_requests` | `specs/data-model.md:266` "A capture draft can be consumed once and only by its owning authenticated session." | Two retries read "failed"; the faster is saved; the slower stores "ready" over "consumed" (`capture.go:130`), and the draft is saved again with another image. |
| `RunningIsWorkedOn`, `CleanupQueue_workers` | `specs/tasks.md:226` "cleanup retries remain durable" | A worker dies after its claim. The claim (`retention.go:60`) takes pending records only: this one is never retried. |
| `LimitPerWindow`, `SignIn_requests` | `specs/spec.md:141`, 5 failures within 10 minutes block | The window is counted from its first failure and restarted whole (`auth_store.go:102`), so failures on both sides of its end exceed the limit within one window's length. |
| `RefusedChangesNothing`, `Configuration_updates` | `specs/data-model.md:239` "preserves the previous in-memory and on-disk configuration on any failure" | Chmod, Open or Sync fails after the rename (`configyaml/update.go:58`): the update is refused and the file is replaced. |
| `SuccessTellsRestart`, `Configuration_updates` | `specs/contracts/http.md:157` "A successful change is durable before its redirect and indicates whether restart is required." | A command line finds that its candidate needs no restart; the server applies another one, announces it and restarts on it; the command line then renames (`configuration.go:82`) and answers with the decision of before. |
| `BrowsersNeverExceedSlots`, `CapturePool_slots` | `adapters/agentbrowser/capture.go:21-22` "bounded timeout, bounded global concurrency, structured JSON output, and a guaranteed close" | The close fails, its error is dropped (`capture.go:52`) and the slot is released: the browser stays open beside that of the next capture. |
| `TrafficNeedsTheSchema`, `ProcessStart_starts` | `specs/002-local-compose-setup/contracts/local-compose.md:78` "Bookmarker runs migrations before accepting traffic." | `Glob` matches nothing (`database.go:90`): the loop is skipped, no error is returned and the server goes on. In the image the working directory has the migrations (`deploy/compose/Dockerfile:57`); a server started elsewhere serves without a schema. |
| `EmptyAnswerIsPageOne`, `BrowseQueries_answers` | `specs/contracts/cli-jsonl.md:113` "An empty collection returns page 1, last page 1, and no items." | The bookmarks are deleted between the count and the page query (`bookmark_query.go:31`): no items, on a page counted before. |
| `PagesKeepCriteria`, `BrowseQueries_answers` | `specs/spec.md:35` a selected tag shows only its bookmarks "and provides pagination when needed" | A page link is `?page=n` (`bookmark_results.html:25`) and replaces the whole query, so the second page of a tag or of a search is one of the plain list or of an empty search. |
| `EndRevokes`, `StreamSession_streams` | `specs/contracts/cli-jsonl.md:63` "EOF, signal termination, or process exit revokes and clears the stream session" | `Serve` returns (`protocol.go:60`) and the session stays authenticated. |
| `ContinuesWithout`, `CaptureForm_pages` (action property) | `specs/contracts/http.md:123` `save_without_screenshot` continues after a failed or discarded capture | The form still has the id of that capture, and the edit page refuses it whatever the box says (`update.go:71`). |
| `HeldIsOfUrl`, `CaptureForm_pages` | `specs/contracts/http.md:126` "Changing a URL invalidates any prior `capture_id` in the rendered form" | The capture of a second change is queued with a target that the answer to the first one removes (`bookmark-form.js:93`): the form keeps the capture of the URL before. The save is then refused; `ShotsBelong` says that nothing worse comes of it. |
| `FormIsKept`, `CaptureForm_pages` | `specs/spec.md:140` capture feedback "without losing valid user-entered form data" | The fragment of a capture in state "capturing" polls without an `hx-target` (`capture.html:1`) and inherits `#content` from the form (`add.html:4`): the answer replaces the form with what was entered in it. |
| `NoWriteOnceSignedOut`, `WebRequests_guards` (action property) | `specs/spec.md:103` signing out "requires sign-in again before a write operation can complete" | A write was authorised (`auth.go:95`) before the sign-out of another tab, and completes after it. |
| `StaysSignedIn`, `WebRequests_guards` (action property) | `specs/spec.md:150` signed in "until the browser session closes, the administrator signs out, or the session becomes invalid" | The login page, opened in another tab, replaces the cookie of a sign-in with an anonymous one (`auth_handlers.go:67` and the handler above it set it unconditionally). |
| `ClearedIsRevoked`, `WebRequests_guards` (action property) | `specs/contracts/http.md:39` "Sign-out revokes server state before clearing the cookie." | The sign-out revokes the session it was sent with and clears whatever cookie the browser has when its answer arrives (`auth_handlers.go:128`), or the revocation failed. |

Read from the code while modelling, without a property of their own: retention deletes a
session by its age, also one that is in use (`retention.go:34`; `specs/data-model.md:208`
speaks of inaccessible rows); `handleLogout` verifies no CSRF token;
`system.migrate` (`specs/contracts/cli-jsonl.md:85`) is answered `unknown_operation`; the page links
have no Previous and Next (`specs/contracts/http.md:97`); of two buttons pressed together on a
capture fragment the second answer is lost; a form submitted twice with the box ticked
creates two bookmarks; a refused save (422) is never shown, since htmx does not swap it.

### Conditions in the passing properties

Several properties hold under a condition that names what is excluded. The condition is
there because without it TLC finds a counterexample, which is a behaviour of the code:

* `NothingLeaks`, `contended = {}`: two updates that replace the screenshot of one
  bookmark remove the *same* old file; the slower write orphans the faster one's file
  (`update.go:98`; `specs/plan.md:82` wants a compensation or a record).
* `NothingLeaks`, one kind of fault: `Remove` fails and the error of
  `CreateScreenshotCleanup` is dropped (`update.go:100`, `create.go:72`).
* `ReferencedImageSurvives`, no `lost_reply`: a COMMIT that took effect is compensated as
  if it had not, which removes the image of a stored bookmark (`update.go:88`,
  `create.go:68–73`; `specs/data-model.md:261`).
* `ScreenshotShowsUrl`, not contended: an update decides on the URL it read first
  (`update.go:79`), so one update can set the URL and another the screenshot of the old one.
* `FollowsLifecycle`, not overlapped: `UpdateDraft` (`capture_draft_store.go:84`) has no
  condition on the state, so a retry brings a draft back that was expired, discarded or
  consumed meanwhile (`specs/data-model.md:172`).
* `CapturingEnds`, no client that leaves: the outcome is stored with the request's context
  (`capture.go:80`), so the draft of a client that went away stays "capturing" until it
  expires (`specs/contracts/http.md:142`).
* `BlockedPairVerifiesNothing`, `BlockStands`, not raced: the check and the recording of a
  failure are separate statements (`auth.go:69`; `specs/data-model.md:223`).
* `SignInRotates`, no fault: the errors of finding and of revoking the old session are dropped
  (`auth.go:79`).
* `OutcomeIsTrue`, second half: an abandoned record still has its file unless a request, or another
  record of the same file, has taken it away. `update.go:98–100` records the key that was read first,
  so two updates can record one key.
* `BrowsersBounded`, not counting `leftOpen`: the browsers whose close failed.
* `ServesOnSchema`, processes that find the migration file (not `fileless`).
* `OnlyAHungCloseKeepsASlot`: the close runs on `context.Background()`
  (`agentbrowser/capture.go:52`) before the slot is released, and has no deadline.
* `OperatorEditKept`, not crossed: an operator who saves the file between the load of an
  update and its rename loses his edit (`configuration.go:71`; `specs/spec.md:143`).
* `DatabaseChangeIsAnnounced` speaks of the database settings only: `default_view`,
  `screenshots` and `search` are read once at the start, too, and their change is not
  announced (`configuration.go:88`, `cmd/bookmarker-web/main.go:64,108,110`). And it leaves out (`silent`)
  an update of the command line that was in progress when the server started, and one that ends, or
  fails, between its rename and its answer.
* `SessionIsAsTold`, streams that were not `troubled`: a failing call, or retention, takes
  the session of a stream away without telling its client.
* `WalkMissesNothing`: a bookmark that is deleted moves the later ones one place forward,
  past the visitor. `FoundTagIsShown`: a write between the page query and the tag query
  shows a bookmark without the tag it was found by.
* `ShownIsStored`, no draft in `unseen`: when both buttons of a fragment are pressed together, the
  answer that comes second finds no target; a save, also one that is refused after it has consumed the
  draft (`create.go:109`), and a retry or discard that is refused after a state was stored
  (`capture.go:134`, answered 409, which htmx does not swap) leave the page with what it showed.
* `StartEnds`: not if migrations fail one after the other for ever while another process
  waits each time.

### Bounds, and why they are enough

* *BookmarkFiles.* Three requests on one bookmark: every pair of operations with a third
  that falls between them. The two drafts give a matching and a changed URL. Requests
  share nothing but a bookmark, a draft and the tables; a fourth adds no new kind of
  neighbour to any two of them. All properties of the run are proved without bounds.
* *CaptureDrafts.* Five requests on one draft are a start, two retries and two saves,
  which is what the longest known interference takes. Drafts are independent of each other
  apart from `Expire`, whose one statement for several drafts is the same as one for each.
* *CleanupQueue.* More records than a batch and than files, so that two records name one file and
  a third another; two workers, two attempts, and a clock that reaches the backoff of the first
  failure. All three invariants of the run are proved without bounds.
* *SignIn.* Limit 3, window 2 and block 3 keep the order of the code's 5 failures,
  10 minutes and 15 minutes; the clock passes the end of a window and of a block.
  The bound 2F−2 is exact: TLC refutes 2F−3.
* *CapturePool.* One capture more than two slots and one more session shared by a retry.
* *Configuration.* Two updates, each of the server or of a command line, and two edits of the
  operator; two values of each group. All four invariants are proved without bounds.
* *TagWrites.* Three transactions make circles of two and of three; two tags, since a wait
  out of order needs two; two bookmarks, since rows and tags are locked together. All three
  safety properties of the module are proved without bounds.
* *WebRequests.* Two tabs: one request in flight and another that changes the session or
  the cookie meanwhile. Five sessions are two sign-ins with their login pages, and a third
  login page. Both properties are proved without bounds.
* *BrowseQueries.* Three bookmarks, two of them with one creation time: pages of 2 and of
  1 give a full page, a partial one and one beyond the end. 19 bookmarks in pages of 1
  reach an ellipsis on both sides; 10 is the page size of the list. The three invariants of the
  run are proved for every collection, finite at each moment, and every page size.
* *ProcessStart.* One process that applies, one that waits, and a third that comes later, does not
  migrate, or has no migrations. `SchemaBeforeService` is proved without bounds.
* *StreamSession.* Five lines: sign in twice, something protected, sign out, something
  protected. Streams meet only through retention.
* *CaptureForm.* Two captures: one in the form and one under way, or one under way and one
  queued behind it. Edit and add page differ in the variable `bookmark`, which is chosen at the
  start. Both invariants are proved without bounds.

Symmetry is used only where requests, records, workers, sessions, captures, tabs or the
URLs of a form are interchangeable, and never in a run that checks liveness, where TLC does not allow it.
CaptureDrafts and TagWrites use a constraint instead (`BegunInOrder`): requests differ in
nothing but their names and none is obliged to begin, so it is enough to let them begin in
one order. In MCCaptureDrafts it is also a bound: once all five have begun, nothing fails; up to
four are combined with every fault. `CHECK_DEADLOCK FALSE` is in the runs whose requests,
captures, sessions or clock are used up: the model then stops.

### Fairness

* `CaptureDrafts!FairSpec`: weak fairness of the steps a server takes by itself once a
  request has begun, one conjunct per request. The Go scheduler runs every goroutine, each
  call returns, and the capture itself ends by its deadline (CapturePool). Not fair: that
  clients begin requests, faults, retention, crashes.
* `CapturePool!PoolSpec`: the deadline passes, the runtime kills what has expired and returns,
  and a close ends or hangs. A command need not end by itself.
* `TagWrites!FairSpec`: a statement that waits for nobody is carried out, by the database.
  Weak fairness is enough because `NoCircularWait` and the order of the locks let the one
  who is waited for go on; a row that is freed may be taken by another, but each
  transaction takes it once, and there are finitely many in a run.
* `ProcessStart!FairStartSpec`: a process that starts takes its next step unless it waits for
  the tables of another. No process is obliged to be launched, to fail or to end.

## 4. Proofs

Every theorem holds for all values of the constants that satisfy the assumption its component
states (`ConstantsAssumption` or one named after the component, and nothing else): any number of requests, drafts, records,
workers, slots, sessions, transactions, tags, tabs, any limits and any kinds of fault.

| Module | Theorem | States |
|---|---|---|
| all eight | `TypesHold`, `TypeCorrect` or `PoolTypes` | `Spec => []TypeOK` (of ProcessStart, StreamSession, CaptureForm and BrowseQueries: in the properties below) |
| `BookmarkFiles_proofs` | `ImageSurvives` | `Spec => []ReferencedImageSurvives` |
| | `DoomedAreUnreferenced` | `Spec => []DoomedFilesAreUnreferenced` |
| | `NothingIsLeftHidden` | `Spec => []NothingDangles` |
| | `DraftsSpentOnce` | `Spec => []DraftSpentOnce` |
| | `KeysGivenOnce` | `Spec => KeyIsGivenOnce` |
| | `ScreenshotsShowUrls` | `Spec => []ScreenshotShowsUrl` |
| | `NothingIsLeftBehind` | `Spec => []NothingLeaks` |
| `CaptureDrafts_proofs` | `PreviewLasts` | `Spec => []PreviewLastsUntilTaken` |
| | `ImagesSavedOnce` | `Spec => []ImageSavedOnce` |
| | `DraftsSavedOnce` | `Spec => []DraftSavedOnce` |
| | `Implements` | `Spec => FollowsLifecycle` (refinement of DraftLifecycle) |
| `CleanupQueue_proofs` | `RecordsClaimedOnce` | `Spec => []ClaimedOnce` |
| | `OutcomesAreTrue` | `Spec => []OutcomeIsTrue` |
| | `NothingLeftRunning` | `Spec => []UndisturbedRunningIsWorkedOn` |
| `SignIn_proofs` | `BlocksAreEnforced` | `Spec => BlockedPairVerifiesNothing` |
| | `BlocksLast` | `Spec => BlockStands` |
| | `SignInsRotate` | `Spec => SignInRotates` |
| | `GuessesAreBounded` | `Spec => []GuessesBounded` |
| `Configuration_proofs` | `WholeCandidate` | `Spec => []OneCandidateWins` |
| | `OperatorKeepsGroups` | `Spec => []OperatorEditKept` |
| | `EarlyRefusal` | `Spec => []RefusedBeforeRenameChangesNothing` |
| | `RestartIsAnnounced` | `Spec => []DatabaseChangeIsAnnounced` |
| `TagWrites_proofs` | `NobodyWaitsInACircle` | `Spec => []NoCircularWait` |
| | `TagsOfLastWrite` | `Spec => []TagsAreOfLastWrite` |
| | `FirstSpelling` | `Spec => FirstSpellingStays`: the display form of a tag is the first one committed |
| `Processes_proofs` | `BrowsersAreBounded` | `PoolSpec => []BrowsersBounded` |
| | `SchemaComesFirst` | `StartSpec => []SchemaBeforeService` |
| | `LinesAreAnswered` | `StreamSpec => []OneAnswerPerLine` |
| | `SessionsAreAsTold` | `StreamSpec => []SessionIsAsTold` |
| `Pages_proofs` | `OwnPages` | `WebSpec => []WritesFromOwnPages` |
| | `Revoked` | `WebSpec => RevokedWritesNothing` |
| | `ShotsAreOwn` | `FormSpec => []ShotsBelong` |
| | `FragmentsShowWhatIsStored` | `FormSpec => []ShownIsStored` |
| | `AnswersAreExact` | `BrowseSpec => []AnswersAreTrue` |
| | `NothingIsMissed` | `BrowseSpec => []WalkMissesNothing` |
| | `LinksCoverAll` | `BrowseSpec => []PageLinksCoverPages` |

In each module `IInv` (`PoolInv`, `StartInv`, `StreamInv`, `WebInv`, `FormInv`, `BrowseInv`) is the inductive
invariant: `Init => IInv`, `IInv /\ [Next]_vars => IInv'`, and the theorems follow.

### BookmarkFiles

`TypeOK` is not inductive: that Restore and Record are given a key rests on
what the step reached says of the request. `Control` says it (operation, key and snapshot
per label), and `TypeOK /\ ControlInv` is inductive. None of the file properties is
inductive either. That a stored image survives needs that nobody is about to unlink it,
which needs to know what a request *remembers*. The strengthening is

    Sound == TypeOK /\ ControlInv /\ FilesInv
    IInv  == TypeOK /\ ControlInv /\ ("lost_reply" \notin faults => FilesInv)

with the parts of `FilesInv`

* *Rows*: only bookmarks that were inserted are stored, and the key of a row was promoted
  by a request that has written it to that very bookmark (`Given`), or is a seed's;
* *Memories*: the key a request has read was given to the bookmark it works on;
* *Repairs*: a cleanup record names a key that was given, or the quarantine of a delete
  that has ended;
* *FileReady*: a promoted file that is about to be written to a row is in the directory;
* `DoomedFilesAreUnreferenced` and `ReferencedImageSurvives` themselves, which need each
  other: a removal is harmless because what is doomed is unreferenced.

A key, once given up, is never given again (`StepLasting`, `GivenOnce`): that is what makes
it safe to unlink a key read long ago, and it is why the bookkeeping of the code, which
compares nothing, still never removes a live file. There is one lemma for each part, with
a step per action it can be disturbed by. `InitInvariant` and `StepInvariant` combine them.
The invariant is conditional on no lost reply because such a reply breaks it (section 3);
types and control hold regardless.

The next two theorems hold with lost replies as well and have invariants of their own.
`DraftInv`: a staged file never comes back (`StagedOnlyGo`: no row and no memory names one, so
Restore brings none), and who has promoted it has moved it. `FreshInv`: as long as a request has
not written, nobody knows its key, so its file is there when it writes; and a write that
took effect, reported or not, is not repeated.

That a screenshot shows the URL (`UrlInv`) holds in the same way, whatever fails. *Apart*: two
requests at a time on one bookmark are noticed. So as long as a bookmark is not contended, its
row is what the request on it has read (`AsRead`), until that request writes; and what a request
promotes is a capture of the URL it saves (`OfUrl`), because the draft is compared with it first.
An update then keeps both halves of the row or replaces both.

`NothingLeaks` speaks of the moment when every request has ended, and its condition on the
faults is one on the whole history. `LeakInv` says what holds meanwhile, as long as at most one
mild kind of fault has happened (`Mild`): each file is `Kept`, that is referenced, due to be
removed, staged, or in the hands of a request (`InHand` lists, per step reached, which file that
step or the repair after it takes care of); and a request that repairs does so because of the one kind of
fault that has happened (`Repairing`), so that the repair itself succeeds or falls back on a
record. All earlier invariants are used: the file of a request that is about to write is
nobody else's (`FreshInv`), and what a delete or an update read is still the row (`AsRead`).

### CaptureDrafts

A request finishes with a key that it read long before, and `UpdateDraft` writes it back
whatever the row says by then. That a ready draft still has its image therefore rests on
the keys, not on the states:

* *KeysDrawn*: a key that a row or a request knows was drawn by one capture, once, and its
  file has already been there: no later capture brings a file back that somebody took;
* *Gone*: the file of a save that goes on has been moved away, so a second rename of the
  same key fails (this gives `ImageSavedOnce`);
* *Outcome*: a capture about to store "ready" has its file, or somebody has taken it.

Steps are summarised once (`Effect`: one request moves at a time; what it may do to a row,
a key and a file), and each part is shown from that summary.

The refinement needs an invariant of its own, `OInv`. As long as nobody else works on a
draft, its row still has a state in which the request read it or into which the request
itself brought it: `Expected(label)` lists those per step reached (`AsRead`), and `Alone`
says that two at a time are noticed in `overlapped`. `StepSimulates` then maps every action
to an edge of DraftLifecycle or to a stutter.

`DraftSavedOnce` combines both invariants with `SaveInv`: a save that is alone finds the key it
read still in the row, and after a save the row says "ready" at most with the key of the file
that has been moved (an UpdateDraft to "consumed" that failed), where the next save finds no file.

### TagWrites

Two orders exclude a circle. *RowOrder*: who holds the row of a bookmark is past the only
wait for a row it has, so rows come before tags. *TagOrder*: who holds a tag wants only
later ones, because `NormalizeTags` sorts. So in a set of transactions that all wait, everyone
waits for a tag; the one who holds the last of these tags waits for a later one, which is
a contradiction. That there is a last one is the lemma `LastTag`, by the number of tags
above each: the set of tags is finite, but no induction is needed.

`TagsAreOfLastWrite` needs to know what a transaction has not committed yet: *Creating*, the
bookmark of a create is nobody else's; *Updating*, an update has locked the row *before* it
deletes the links, so those it has deleted are all there are when it commits.

### The other modules

* *CleanupQueue.* A record in a batch is running (`WorkedOn`), a claim takes pending ones
  only, so batches are disjoint. That an outcome is true needs to know where a file can
  have gone (`FileGone`): a request has taken it away, or some record that names it accounts for it
  (`GoneBy`), which has succeeded, or is running with the removal not written back yet, or for good.
* *CapturePool* (`Processes_proofs`). Each open browser, but for those whose close failed, belongs to a capture that has not closed it (`Owned`),
  those captures hold slots, and the semaphore counts the holders: an argument about
  cardinalities, with sessions shared by retries.
* *SignIn.* A handler reads the clock and the throttle once and acts later. `Unblocked`:
  past the throttle no block of its pair reaches beyond the instant it read. It is kept
  because only a request of that pair changes the row, and two of them are noticed
  (`Alone`); both temporal theorems on blocks are corollaries. `Rotated` says that the old
  session is revoked before the new one is made; revoked is for good.
  `GuessesBounded` is an argument about cardinalities. The row, or the one that RecordFailure is
  about to write, counts the wrong attempts of one window (`Stands`): since the window started
  there are as many as its counter says, and of the attempts before, a stretch that reaches into the window has
  at most F−2, since it has neither the first of its own window nor the one that would have blocked.
  A full row blocks until every attempt it counts is older than a window, so the next window
  starts afresh. The sum over a stretch is the cardinality of a set of (instant, number) pairs,
  which needs no induction.
* *Configuration.* `Renamed` and `Current` relate what an update has loaded to the file as
  long as nobody crossed it; `Noticed` is the heart of `RestartIsAnnounced`: an update
  compares with the file, not with the server, so it may rightly see no difference, but then
  some other update has announced the restart or will (`Pending`); as long as nothing was `silent`, each
  update in progress has compared with a file no older than the server.
* *ProcessStart* (`Processes_proofs`). One writer at a time, and only while the schema is not there (`OneWriter`);
  whoever found the migrations and is past them has seen the schema (`Migrated`).
* *StreamSession* (`Processes_proofs`). What a stream was told and the session it holds part for the
  length of a sign-in: `Renewing` are the steps after the old session is revoked and before the new one
  is made. Outside them, who was told to be signed in holds a usable session (`ToldIsUsable`); within them the old
  one is revoked (`OldIsRevoked`), so when the token is overwritten nothing usable is lost.
* *CaptureForm* (`Pages_proofs`). That a capture is saved once rests on the rename, not on the state of
  the draft, whose update may fail: the file of a saved capture is gone (`ShotsGone`), and nothing brings it
  back. What the fragment shows rests on the page: while a button's request is under way the draft has
  moved on and the fragment has not, but the answer that will replace it is attached to it
  (`FragmentIsTrue`); one that is detached is that of an earlier capture (`ButtonIsSound`); and the capture of a
  start that has not been answered is unknown to the page (`SentIsNew`). A poll is asked for only while
  the fragment says capturing, and a draft the page shows so is in that state, which it never leaves by
  a button (`CapturingIsTrue`): so what a late poll brings, of this capture or an earlier one, is still
  true of its draft when it is swapped in (`PollIsSound`).
* *WebRequests* (`Pages_proofs`). `Guarded` says what a write knows after each check. A request sent late
  carries a session that is ended, revoked or deleted, and that is for good (`RowsOnlyAdvance`), so
  `requireSession` finds no administrator; and a request that passes `VerifyCSRF` has the
  token of its own page.

### BrowseQueries (`Pages_proofs`)

`NewestFirst` is a CHOOSE of a sorted arrangement of a set of any size, and a page is a part of
it; `AnswersAreTrue` describes a page by ranks: the rank of a bookmark is the number of newer ones.
That the two agree needs that a sorted arrangement exists and has each bookmark at its rank, which
one would expect to prove by induction on the set. It follows from cardinalities instead:

* the rank is below the number of bookmarks (`RankBound`) and grows from newer to older (`RankOrder`),
  so ranks are an injection of a finite set into a set of the same size, hence onto it (`RankOnto`);
* so the bookmark of each rank, in order, is an arrangement (`RowsAreSorted`), and an arrangement that
  is sorted is onto, so that its first i rows are those newer than the next one (`RowAtRank`);
* `RanksOfPage` cuts the page out of it: a rank lies on page p exactly if its quotient by the page
  size is p−1 (`QuotientIs`).

`BrowseInv` carries this through the three queries. `CountIsTrue`, `PageIsTrue` and `TagsAreTrue` say what
each has found, as long as no write has come between. `OwedIsAhead` is the heart of the walk: what a
visitor has not seen of the plain list has a rank behind the pages he has read. Creations only raise
ranks (`RankGrows`); a deletion lowers them, and the walk no longer counts. On the last page no rank is left
(`WalkIsDone`). `LinksCoverAll` is about the arithmetic alone and holds for every request
(`EveryAnswerCovers`): the links are concatenated from three parts, and `LinksByPlace` tells which link
is where.

### Only model-checked

Liveness (`CapturingEnds`, `TransactionsEnd`, `StartEnds`, `OnlyAHungCloseKeepsASlot`), which
is out of the prover's reach. Every invariant and every other action property that a run checks is
also proved.

## 5. Not modelled

Password hashing (a pure function whose verdict is a choice), loading and validation of the
configuration, logging, layout, CSS and the code of the vendored htmx, whose behaviour CaptureForm states as
far as the pages rely on it (reasons in `PROJECT.json`). Within the modelled parts: the
in-memory stores of the tests, titles and descriptions, the origin check and headers, the
parsing of a browser command's output, the tag list and the menu of the form script, the
number of database connections, the order of the retention statements, and the deletion
of throttle rows. Staged files of expired drafts and dropped sessions stay in the
directory; the store has no operation that lists them, and the model leaves them as the
code does.

## 6. Plan

1. The pruning of throttle rows against sign-ins, with the in-memory store and its limit.
2. A composition of WebRequests with CaptureDrafts: drafts belong to a session, and a
   sign-in that rotates it loses them.
