------------------------------ MODULE CaptureForm ------------------------------
(***************************************************************************)
(* The add and the edit page in the browser: the form, its capture-status  *)
(* element, and the requests they make (web/static/js/bookmark-form.js,    *)
(* fragments/capture.html), with what the server does with them            *)
(* (httpweb/create_handlers.go, maintain_handlers.go and their use cases). *)
(*                                                                         *)
(* The requests go through htmx (external), of which the model keeps what  *)
(* the pages rely on: an element has one request at a time and remembers   *)
(* one more, the last asked for; the target of a request is the element    *)
(* found when it was asked for, which an element inherits from those around *)
(* it; an answer is swapped in for its target only while that is in the    *)
(* page, and only when it is not an error.                                 *)
(* htmx.ajax without a source uses the body element for all URL changes.   *)
(*                                                                         *)
(* Interleavings inside the server, expiry and lost sessions are the       *)
(* subject of CaptureDrafts and WebRequests, the lost reply to the commit  *)
(* of a bookmark that of BookmarkFiles.                                    *)
(***************************************************************************)
EXTENDS Naturals, Sequences, FiniteSets

CONSTANTS
  Urls,
  Captures,      \* bound: the capture drafts the page can start
  BookmarkUrls,  \* of the bookmark that may be edited; NoUrl for the add page
  Refusals,      \* {"refusal"} when the server refuses captures and its database
                 \* and its files can fail, {} when none of this happens
  NoUrl, NoCapture, NoRequest

\* The states of a draft, and the requests with their answers.
States == {"none", "capturing", "ready", "failed", "discarded", "consumed"}
StartRequest == [url : Urls, attached : BOOLEAN, answer : Captures \cup {"none", "refused"}, state : States]
ButtonRequest == [capture : Captures, attached : BOOLEAN, answer : Captures \cup {"none"}, state : States]
PollRequest == [whole : BOOLEAN, answer : Captures \cup {"none"}, state : States]
SaveRequest == [url : Urls, capture : Captures \cup {NoCapture}, without : BOOLEAN, answer : {"none"}]
SaveAnswer == [answer : {"accepted", "refused"}]

\* A bookmark that was written, with the screenshot of a capture, none, or its own.
Written == [url : Urls, shot : Captures \cup {NoCapture, "kept"}]

ASSUME FormAssumption ==
  /\ NoUrl \notin Urls /\ BookmarkUrls \subseteq Urls \cup {NoUrl}
  /\ Refusals \subseteq {"refusal"}
  /\ Captures \cap {NoCapture, "none", "refused", "kept"} = {} /\ NoCapture # "kept"
  /\ NoRequest \notin StartRequest \cup ButtonRequest \cup PollRequest \cup SaveRequest \cup SaveAnswer

VARIABLES
  bookmark,  \* the URL of the bookmark when it was rendered; NoUrl on the add page
  formPage,  \* "open", "replaced" when a poll has put the fragment in the place of
             \* the form and all around it, "left" once a save was accepted
  url,       \* the URL field
  last,      \* lastValue
  held,      \* the capture_id in the form
  shown,     \* the state its fragment was rendered with
  original,  \* whether the element that setupCaptureTrigger found is in the page
  sent,      \* the request of the body element, for a new capture
  queued,    \* the one htmx sends after it
  pressed,   \* the requests of the fragment's buttons
  poll,      \* the request of the fragment of a capture for its state; whole: its
             \* target is the main element of the page, not the fragment
  saving,    \* the request of the form, or the answer to it
  again,     \* whether htmx submits the form once more after it
  draft,     \* table capture_drafts
  gone,      \* the captures whose staged file was promoted or removed
  saved,     \* the bookmarks written by the page, in order
  unseen     \* history: the captures of whose draft the page may miss a change: by a
             \* save, by a request that was refused, or by the second of its buttons

field == <<url, last>>
status == <<held, shown, original>>
tables == <<draft, gone, saved, unseen>>
formVars == <<bookmark, formPage, field, status, sent, queued, pressed, poll, saving, again, tables>>

Buttons == {"retry", "discard"}
NoDraft == [url |-> NoUrl, state |-> "none"]
Detached(r) == IF r = NoRequest THEN r ELSE [r EXCEPT !.attached = FALSE]
Open == formPage = "open"
MayFail == "refusal" \in Refusals
InFlight(r) == r # NoRequest /\ r.answer = "none"
Answered(r) == r # NoRequest /\ r.answer # "none"
Settled == /\ sent = NoRequest /\ queued = NoRequest
           /\ \A b \in Buttons : pressed[b] = NoRequest

FormInit ==
  /\ bookmark \in BookmarkUrls
  /\ formPage = "open" /\ url = bookmark /\ last = bookmark
  /\ held = NoCapture /\ shown = "pending" /\ original = TRUE
  /\ sent = NoRequest /\ queued = NoRequest
  /\ pressed = [b \in Buttons |-> NoRequest]
  /\ poll = [c \in Captures |-> NoRequest]
  /\ saving = NoRequest /\ again = FALSE
  /\ draft = [c \in Captures |-> NoDraft] /\ gone = {}
  /\ saved = <<>> /\ unseen = {}

-----------------------------------------------------------------------------
(* The URL field and its captures.                                         *)

\* Bound: no change that the captures do not suffice for.
CaptureLeft ==
  Cardinality({r \in {<<"sent", sent>>, <<"queued", queued>>} : InFlight(r[2])})
    < Cardinality({c \in Captures : draft[c] = NoDraft})

\* The listener of "change".  It empties the element it found when the form was
\* set up, which has the form's capture_id only until the first answer.
ChangeUrl(u) ==
  /\ Open /\ u # url /\ url' = u
  /\ IF u \in {last, NoUrl}
     THEN UNCHANGED <<last, status, sent, queued>>
     ELSE /\ CaptureLeft /\ last' = u
          /\ held' = IF original THEN NoCapture ELSE held
          /\ LET r == [url |-> u, attached |-> TRUE, answer |-> "none", state |-> "none"]
             IN IF sent = NoRequest THEN sent' = r /\ UNCHANGED queued
                                    ELSE queued' = r /\ UNCHANGED sent
          /\ UNCHANGED <<shown, original>>
  /\ UNCHANGED <<bookmark, formPage, pressed, poll, saving, again, tables>>

\* The outcomes of a capture that is run; without storing it the draft stays capturing.
Outcomes == {"ready", "failed"} \cup IF MayFail THEN {"capturing"} ELSE {}

Refused(r) == [r EXCEPT !.answer = "refused"]

\* POST /captures: a draft, its capture, and the fragment of what was stored; a
\* draft that cannot be read back is one of which the page does not know.
Start ==
  /\ InFlight(sent)
  /\ \/ \E c \in Captures, s \in Outcomes :
          /\ draft[c] = NoDraft
          /\ draft' = [draft EXCEPT ![c] = [url |-> sent.url, state |-> s]]
          /\ \/ sent' = [sent EXCEPT !.answer = c, !.state = s]
             \/ MayFail /\ sent' = Refused(sent)
     \/ MayFail /\ sent' = Refused(sent) /\ UNCHANGED draft
  /\ UNCHANGED <<bookmark, formPage, field, status, queued, pressed, poll, saving, again, gone, saved, unseen>>

\* The answer r takes the place of its target; the targets of other requests go.
Swap(r) ==
  /\ held' = r.answer /\ shown' = r.state /\ original' = FALSE

Arrives(r) == r.attached /\ r.answer # "refused"

\* Answered by the server, and the queued request follows.
StartAnswered ==
  /\ Answered(sent) /\ queued' = NoRequest
  /\ IF Arrives(sent)
     THEN /\ Swap(sent) /\ sent' = Detached(queued)
          /\ pressed' = [b \in Buttons |-> Detached(pressed[b])]
     ELSE /\ sent' = queued /\ UNCHANGED <<status, pressed>>
  /\ UNCHANGED <<bookmark, formPage, field, poll, saving, again, tables>>

\* Every 500 ms while the fragment says capturing: GET /captures/{id}.  The
\* element names no target: inside the form it inherits the form's, which is the
\* main element of the page.
AskPoll(c) ==
  /\ held = c /\ shown = "capturing" /\ poll[c] = NoRequest
  /\ poll' = [poll EXCEPT ![c] = [whole |-> Open, answer |-> "none", state |-> "none"]]
  /\ UNCHANGED <<bookmark, formPage, field, status, sent, queued, pressed, saving, again, tables>>

\* One that is refused changes nothing, and the next one follows.
ServePoll(c) ==
  /\ InFlight(poll[c])
  /\ \/ poll' = [poll EXCEPT ![c].answer = c, ![c].state = draft[c].state]
     \/ MayFail /\ poll' = [poll EXCEPT ![c] = NoRequest]
  /\ UNCHANGED <<bookmark, formPage, field, status, sent, queued, pressed, saving, again, tables>>

\* The first answer that arrives replaces the form and its fragment, whichever
\* capture that is of by now; the new fragment replaces itself.
PollAnswered(c) ==
  LET r == poll[c] IN
  /\ Answered(r) /\ poll' = [poll EXCEPT ![c] = NoRequest]
  /\ IF r.whole => Open
     THEN /\ Swap(r) /\ sent' = Detached(sent) /\ queued' = Detached(queued)
          /\ pressed' = [b \in Buttons |-> Detached(pressed[b])]
          /\ formPage' = "replaced" /\ url' = NoUrl /\ last' = NoUrl
     ELSE UNCHANGED <<formPage, field, status, sent, queued, pressed>>
  /\ UNCHANGED <<bookmark, saving, again, tables>>

-----------------------------------------------------------------------------
(* The buttons of the fragment.                                            *)

Offers(b) == \/ shown = "failed"
             \/ b = "discard" /\ shown = "ready"

Press(b) ==
  /\ Open /\ held \in Captures /\ Offers(b) /\ pressed[b] = NoRequest
  /\ pressed' = [pressed EXCEPT ![b] =
       [capture |-> held, attached |-> TRUE, answer |-> "none", state |-> "none"]]
  /\ unseen' = unseen \cup {c \in {held} : \E o \in Buttons :
                              pressed[o] # NoRequest /\ pressed[o].capture = c}
  /\ UNCHANGED <<bookmark, formPage, field, status, sent, queued, poll, saving, again, draft, gone, saved>>

Put(c, s) == draft' = [draft EXCEPT ![c].state = s]
Reply(b, s) == pressed' = [pressed EXCEPT ![b].answer = pressed[b].capture, ![b].state = s]

\* An error is not swapped in.  All it does when it comes is that the button can be
\* pressed again, which is one step with the refusal here.
Refuse(b) == pressed' = [pressed EXCEPT ![b] = NoRequest]

\* A state that is stored and answered, one that is stored behind a refusal, and
\* a refusal that stores nothing.
Store(b, s) == Put(pressed[b].capture, s) /\ Reply(b, s) /\ UNCHANGED unseen
Lose(b, s) == Put(pressed[b].capture, s) /\ Refuse(b) /\ unseen' = unseen \cup {pressed[b].capture}
Reject(b) == Refuse(b) /\ UNCHANGED <<draft, unseen>>

\* Mutant: the draft is answered as it was before its capture ran.
RetryUnread ==
  LET c == pressed["retry"].capture IN
  /\ InFlight(pressed["retry"])
  /\ \/ /\ draft[c].state = "failed" /\ \E s \in Outcomes : Put(c, s)
        /\ Reply("retry", "capturing") /\ UNCHANGED unseen
     \/ draft[c].state # "failed" /\ Reject("retry")
  /\ UNCHANGED <<bookmark, formPage, field, status, sent, queued, poll, saving, again, gone, saved>>

\* POST /captures/{id}/retry: CanRetry is checked, the draft is capturing, and
\* after that what the capture gave.  Reading it back may fail, and every write.
Retry ==
  LET c == pressed["retry"].capture IN
  /\ InFlight(pressed["retry"])
  /\ \/ draft[c].state = "failed" /\ \E s \in Outcomes : Store("retry", s)
     \/ draft[c].state = "failed" /\ MayFail /\ \E s \in {"capturing", "ready"} : Lose("retry", s)
     \/ (draft[c].state # "failed" \/ MayFail) /\ Reject("retry")
  /\ UNCHANGED <<bookmark, formPage, field, status, sent, queued, poll, saving, again, gone, saved>>

\* CanDiscard, and the staged file, which only a ready draft has.
CanDiscard(c) == draft[c].state \in {"ready", "failed"}
RemoveStaged(c) ==
  \/ gone' = gone \cup {d \in {c} : draft[d].state = "ready"}
  \/ MayFail /\ UNCHANGED gone

\* POST /captures/{id}/discard: the file first, then the row, which may fail.
Discard ==
  LET c == pressed["discard"].capture IN
  /\ InFlight(pressed["discard"])
  /\ IF CanDiscard(c)
     THEN /\ RemoveStaged(c)
          /\ \/ Store("discard", "discarded")
             \/ MayFail /\ (Lose("discard", "discarded") \/ Reject("discard"))
     ELSE Reject("discard") /\ UNCHANGED gone
  /\ UNCHANGED <<bookmark, formPage, field, status, sent, queued, poll, saving, again, saved>>

ButtonAnswered(b) ==
  LET r == pressed[b] IN
  /\ Answered(r)
  /\ IF r.attached
     THEN /\ Swap(r) /\ sent' = Detached(sent) /\ queued' = Detached(queued)
          /\ pressed' = [o \in Buttons |-> IF o = b THEN NoRequest ELSE Detached(pressed[o])]
     ELSE /\ pressed' = [pressed EXCEPT ![b] = NoRequest] /\ UNCHANGED <<status, sent, queued>>
  /\ UNCHANGED <<bookmark, formPage, field, poll, saving, again, tables>>

-----------------------------------------------------------------------------
(* Saving.                                                                 *)

\* The form's values, taken when its request is sent; w: the box is ticked.
Values(w) == [url |-> url, capture |-> held, without |-> w, answer |-> "none"]

\* A press while a request is under way is queued by htmx.
Submit(w) ==
  /\ Open /\ url # NoUrl
  /\ IF saving = NoRequest THEN saving' = Values(w) /\ UNCHANGED again
                           ELSE again' = TRUE /\ UNCHANGED saving
  /\ UNCHANGED <<bookmark, formPage, field, status, sent, queued, pressed, poll, tables>>

Writes(shot) == /\ saved' = Append(saved, [url |-> saving.url, shot |-> shot])
                /\ saving' = [answer |-> "accepted"]
Refuses == saving' = [answer |-> "refused"] /\ UNCHANGED saved
TouchesNoCapture == UNCHANGED <<draft, gone, unseen>>

\* CaptureDraft.EnsureUsableBy and CanConsume.
IsOf(c, u) == draft[c].url = u
CanConsume(c) == draft[c].state = "ready"
Usable(c) == c \in Captures /\ IsOf(c, saving.url) /\ CanConsume(c)

\* Mutant: the staged file is copied, and left to the retention.
PromoteCopy(c) == c \notin gone /\ UNCHANGED gone

\* Promote: the staged file is renamed.
Promote(c) == c \notin gone /\ gone' = gone \cup {c}

\* The draft is marked consumed; an error of that is dropped.
Consume(c) == \/ Put(c, "consumed") /\ unseen' = unseen \cup {c}
              \/ MayFail /\ UNCHANGED <<draft, unseen>>

\* Creator.Create with resolveScreenshot: the draft is consumed before the bookmark
\* is inserted, which may fail.
Create ==
  LET c == saving.capture IN
  IF Usable(c)
  THEN \/ Promote(c) /\ Consume(c) /\ (Writes(c) \/ (MayFail /\ Refuses))
       \/ (c \in gone \/ MayFail) /\ Refuses /\ TouchesNoCapture
  ELSE /\ IF (c = NoCapture \/ IsOf(c, saving.url)) /\ saving.without
          THEN Writes(NoCapture) \/ (MayFail /\ Refuses)
          ELSE Refuses
       /\ TouchesNoCapture

\* The URL of the bookmark that Update reads: the last one written.
Current == IF saved = <<>> THEN bookmark ELSE saved[Len(saved)].url

\* Maintainer.Update, which consumes the draft after the write; "kept": the
\* bookmark's screenshot stays.
Update ==
  LET c == saving.capture IN
  IF Usable(c)
  THEN \/ Promote(c) /\ \/ Writes(c) /\ Consume(c)
                        \/ MayFail /\ Refuses /\ UNCHANGED <<draft, unseen>>
       \/ (c \in gone \/ MayFail) /\ Refuses /\ TouchesNoCapture
  ELSE /\ IF c \in Captures \/ (saving.url # Current /\ ~saving.without)
          THEN Refuses
          ELSE Writes(IF saving.url = Current THEN "kept" ELSE NoCapture) \/ (MayFail /\ Refuses)
       /\ TouchesNoCapture

\* POST /bookmarks or /bookmarks/{id}.
Save ==
  /\ InFlight(saving)
  /\ IF bookmark = NoUrl THEN Create ELSE Update
  /\ UNCHANGED <<bookmark, formPage, field, status, sent, queued, pressed, poll, again>>

\* The page is gone, with its fields, its fragment and what was queued; the server
\* goes on with what was sent, of which the polls write nothing.
LeavePage ==
  /\ formPage' = "left" /\ url' = NoUrl /\ last' = NoUrl
  /\ held' = NoCapture /\ shown' = "pending" /\ original' = FALSE
  /\ sent' = Detached(sent) /\ queued' = NoRequest
  /\ pressed' = [b \in Buttons |-> Detached(pressed[b])]
  /\ poll' = [c \in Captures |-> NoRequest]

\* Accepted: HX-Redirect leaves the page; a queued submit is still sent, or goes with
\* the page or with a form that is replaced.  Refused: a 422 is not swapped in, the
\* page stays as it is.
SaveAnswered ==
  /\ Answered(saving) /\ again' = FALSE
  /\ IF saving.answer = "accepted"
     THEN LeavePage
     ELSE UNCHANGED <<formPage, field, status, sent, queued, pressed, poll>>
  /\ \/ again /\ url # NoUrl /\ Open /\ \E w \in BOOLEAN : saving' = Values(w)
     \/ (~again \/ formPage' # "open" \/ url = NoUrl) /\ saving' = NoRequest
  /\ UNCHANGED <<bookmark, tables>>

FormNext ==
  \/ \E u \in Urls \cup {NoUrl} : ChangeUrl(u)
  \/ Start \/ StartAnswered
  \/ \E c \in Captures : AskPoll(c) \/ ServePoll(c) \/ PollAnswered(c)
  \/ \E b \in Buttons : Press(b) \/ ButtonAnswered(b)
  \/ Retry \/ Discard
  \/ \E w \in BOOLEAN : Submit(w)
  \/ Save \/ SaveAnswered

FormSpec == FormInit /\ [][FormNext]_formVars

-----------------------------------------------------------------------------
(* Properties.                                                             *)

\* The page, its requests and the table have the types their declarations say; a
\* capture is queued only behind another one.
FormTypeOK ==
  /\ bookmark \in BookmarkUrls /\ formPage \in {"open", "replaced", "left"}
  /\ url \in Urls \cup {NoUrl} /\ last \in Urls \cup {NoUrl}
  /\ held \in Captures \cup {NoCapture} /\ shown \in States \cup {"pending"}
  /\ original \in BOOLEAN /\ again \in BOOLEAN
  /\ sent \in StartRequest \cup {NoRequest} /\ queued \in StartRequest \cup {NoRequest}
  /\ queued # NoRequest => sent # NoRequest
  /\ pressed \in [Buttons -> ButtonRequest \cup {NoRequest}]
  /\ poll \in [Captures -> PollRequest \cup {NoRequest}]
  /\ saving \in SaveRequest \cup SaveAnswer \cup {NoRequest}
  /\ draft \in [Captures -> [url : Urls \cup {NoUrl}, state : States]]
  /\ gone \subseteq Captures /\ unseen \subseteq Captures
  /\ saved \in Seq(Written)

\* However changes, answers and saves overlap, a bookmark that was saved with a
\* screenshot has one of the very URL it was saved under (create.go:95, update.go:69),
\* and one whose screenshot was kept still has the URL of before.
ShotIsOfSavedUrl == \A i \in DOMAIN saved :
  /\ saved[i].shot \in Captures => draft[saved[i].shot].url = saved[i].url
  /\ saved[i].shot = "kept" =>
       saved[i].url = IF i = 1 THEN bookmark ELSE saved[i - 1].url

\* A form that is submitted twice puts its capture into one bookmark, also when the
\* error of consuming it was dropped: the first save has renamed its file
\* (create.go:106-112, update.go:74-96).
CaptureSavedOnce == \A i, j \in DOMAIN saved :
  saved[i].shot \in Captures /\ saved[i].shot = saved[j].shot => i = j

\* Every screenshot that was saved is where it belongs, and nowhere else.
ShotsBelong == FormTypeOK /\ ShotIsOfSavedUrl /\ CaptureSavedOnce

\* When no capture is under way and no button's request, the fragment shows the state
\* the draft has, so that its buttons are those the server accepts: whichever answers
\* came late, from polls of this or another capture too, and whatever failed.  Unless
\* both buttons were pressed together, where the answer that comes second finds no
\* target, or a save or an error changed the draft of which the page is not told.
ShownIsStored ==
  Settled /\ held \in Captures \ unseen => draft[held].state = shown

\* http.md, Bookmark Form Contract: with the box ticked, a save is accepted after the
\* capture of its URL failed or was discarded.
ContinuesWithout ==
  [][/\ InFlight(saving) /\ Answered(saving') /\ saving.without /\ saving.capture \in Captures
     /\ draft[saving.capture].state \in {"failed", "discarded"} /\ IsOf(saving.capture, saving.url)
     => saving'.answer = "accepted"]_formVars

\* http.md, Bookmark Form Contract: changing the URL invalidates the capture_id in
\* the form and offers a replacement; so once every request has been answered, what
\* the form holds is a capture of the URL it has.
HeldIsOfUrl == Settled /\ Open /\ url # NoUrl /\ held \in Captures => IsOf(held, url)

\* Not so: capture feedback comes "without losing valid user-entered form data"
\* (specs/001-bookmark-administration/spec.md:140).  The answer to a poll takes the
\* place of the form, with what was entered and the token to save it with.
FormIsKept == formPage # "replaced"
=============================================================================
