----------------------------- MODULE Pages_proofs -----------------------------
(***************************************************************************)
(* Proofs about the pages in the browser: the requests of any tabs and     *)
(* sessions, and what guards them (WebRequests), the form of a bookmark    *)
(* with any URLs and captures (CaptureForm), and the answers to browsing   *)
(* and searching a collection of any size (BrowseQueries).  The names of   *)
(* the three modules are disjoint: each has an initial predicate, a        *)
(* next-state relation and a specification of its own.                     *)
(***************************************************************************)
EXTENDS WebRequests, CaptureForm, BrowseQueries, FiniteSetTheorems, SequenceTheorems, TLAPS

-----------------------------------------------------------------------------
(* WebRequests.                                                            *)

\* A request to write knows at each step what the checks before it have found; that
\* a session has ended is final, so what a late request finds is no administrator.
Guarded == \A t \in Tabs :
  /\ pc[t] = "write" /\ late[t] => token[t] \in Sessions /\ session[token[t]] = "ended"
  /\ pc[t] \in {"csrf", "act"} => /\ ~late[t] /\ token[t] \in Sessions
                                  /\ session[token[t]] \in {"authenticated", "ended"}
  /\ pc[t] = "act" => token[t] = csrf[t]

WebInv == WebTypeOK /\ Guarded

\* The rows of the table that a step of a tab leaves: none is lost, none goes back.
RowsOnlyAdvance == \A s \in Sessions :
  /\ session[s] # "none" => session'[s] # "none"
  /\ session[s] = "ended" => session'[s] = "ended"
  /\ session[s] = "authenticated" => session'[s] \in {"authenticated", "ended"}

LEMMA WebInitInv == WebInit => WebInv
BY WebAssumption DEF WebInit, WebInv, WebTypeOK, Guarded

\* What a step of tab t does to the table and to the other tabs.
LEMMA WebEffect ==
  ASSUME WebInv, NEW t \in Tabs, (\E k \in Asked : Send(t, k)) \/ Serve(t) \/ Arrive(t)
  PROVE  /\ RowsOnlyAdvance
         /\ \A u \in Tabs \ {t} : /\ pc'[u] = pc[u] /\ token'[u] = token[u]
                                  /\ csrf'[u] = csrf[u] /\ late'[u] = late[u]
<1>. DEFINE Goal == /\ RowsOnlyAdvance
                    /\ \A u \in Tabs \ {t} : /\ pc'[u] = pc[u] /\ token'[u] = token[u]
                                             /\ csrf'[u] = csrf[u] /\ late'[u] = late[u]
<1>. USE DEF WebInv, WebTypeOK, RowsOnlyAdvance, At, Goto, screen
<1>1. ASSUME NEW k \in Asked, Send(t, k) PROVE Goal
  BY <1>1 DEF Send
<1>2. ASSUME Arrive(t) PROVE Goal
  BY <1>2 DEF Arrive, Shows
<1>3. ASSUME LoginPage(t) \/ CreateSession(t) PROVE Goal
  BY <1>3 DEF LoginPage, CreateSession, Creates
<1>4. ASSUME RevokeOld(t) \/ Logout(t) PROVE Goal
  BY <1>4 DEF RevokeOld, Logout, Revoke, Ends, Active
<1>5. ASSUME Login(t) \/ Form(t) \/ Write(t) \/ WriteCSRF(t) PROVE Goal
  BY <1>5 DEF Login, Form, Write, WriteCSRF, Check
<1>6. ASSUME Verify(t) \/ Public(t) \/ Act(t) PROVE Goal
  BY <1>6 DEF Verify, Public, Act
<1>. QED
  BY <1>1, <1>2, <1>3, <1>4, <1>5, <1>6 DEF Serve

\* What it does to the tab itself and to the cookie.
Stored(s) == s \in Sessions => session[s] # "none"

LEMMA StoredTokens == WebTypeOK => Stored(cookie) /\ \A t \in Tabs : Stored(csrf[t]) /\ Stored(token[t])
BY DEF WebTypeOK, Stored

OwnTypes(t) ==
  /\ session \in [Sessions -> {"none", "anonymous", "authenticated", "ended"}]
  /\ cookie \in Sessions \cup {NoSession}
  /\ page \in [Tabs -> {"public", "login", "form"}]
  /\ csrf \in [Tabs -> Sessions \cup {NoSession}]
  /\ pc \in [Tabs -> {"idle"} \cup Asked \cup Checking \cup Answers]
  /\ token \in [Tabs -> Sessions \cup {NoSession}]
  /\ late \in [Tabs -> BOOLEAN]
  /\ Stored(cookie) /\ Stored(csrf[t]) /\ Stored(token[t])

OwnGuard(t) ==
  /\ pc[t] = "write" /\ late[t] => token[t] \in Sessions /\ session[token[t]] = "ended"
  /\ pc[t] \in {"csrf", "act"} => /\ ~late[t] /\ token[t] \in Sessions
                                  /\ session[token[t]] \in {"authenticated", "ended"}
  /\ pc[t] = "act" => token[t] = csrf[t]

LEMMA OwnStep ==
  ASSUME WebInv, NEW t \in Tabs, (\E k \in Asked : Send(t, k)) \/ Serve(t) \/ Arrive(t)
  PROVE  OwnTypes(t)' /\ OwnGuard(t)'
<1>1. Stored(cookie) /\ Stored(csrf[t]) /\ Stored(token[t])
  BY StoredTokens DEF WebInv
<1>2. WebTypeOK /\ OwnGuard(t)
  BY DEF WebInv, Guarded, OwnGuard
<1>. USE <1>1, <1>2 DEF WebTypeOK, OwnTypes, OwnGuard, Stored, At, Goto, screen, Asked, Checking, Answers
<1>3. ASSUME NEW k \in Asked, Send(t, k) PROVE OwnTypes(t)' /\ OwnGuard(t)'
  BY <1>3 DEF Send
<1>4. ASSUME Arrive(t) PROVE OwnTypes(t)' /\ OwnGuard(t)'
  <2>1. /\ UNCHANGED <<session, late>>
        /\ cookie' \in {cookie, token[t], NoSession}
        /\ \E s \in {token[t], cookie, NoSession} : token' = [token EXCEPT ![t] = s]
        /\ \E s \in {csrf[t], token[t]} : csrf' = [csrf EXCEPT ![t] = s]
        /\ \E p \in {"public", "login", "form"} : page' = [page EXCEPT ![t] = p]
        /\ \E l \in {"idle", "public", "login_page"} : pc' = [pc EXCEPT ![t] = l]
    <3>1. /\ token = [token EXCEPT ![t] = token[t]] /\ csrf = [csrf EXCEPT ![t] = csrf[t]]
          /\ page = [page EXCEPT ![t] = page[t]] /\ page[t] \in {"public", "login", "form"}
      OBVIOUS
    <3>. QED
      BY <1>4, <3>1 DEF Arrive, Shows
  <2>. QED
    BY <2>1, WebAssumption
<1>5. ASSUME LoginPage(t) \/ CreateSession(t) PROVE OwnTypes(t)' /\ OwnGuard(t)'
  BY <1>5 DEF LoginPage, CreateSession, Creates
<1>6. ASSUME RevokeOld(t) \/ Logout(t) PROVE OwnTypes(t)' /\ OwnGuard(t)'
  <2>1. /\ session' \in [Sessions -> {"none", "anonymous", "authenticated", "ended"}]
        /\ \A s \in Sessions : session[s] # "none" => session'[s] # "none"
    BY <1>6 DEF RevokeOld, Logout, Revoke, Ends, Active
  <2>2. /\ UNCHANGED <<cookie, page, csrf, token, late>>
        /\ \E l \in {"create", "signed_out"} : pc' = [pc EXCEPT ![t] = l]
    BY <1>6 DEF RevokeOld, Logout
  <2>. QED
    BY <2>1, <2>2
<1>7. ASSUME Login(t) \/ Form(t) PROVE OwnTypes(t)' /\ OwnGuard(t)'
  BY <1>7 DEF Login, Form, Check
<1>8. ASSUME Write(t) PROVE OwnTypes(t)' /\ OwnGuard(t)'
  BY <1>8 DEF Write, Check, Principal, Authenticated
<1>9. ASSUME WriteCSRF(t) PROVE OwnTypes(t)' /\ OwnGuard(t)'
  BY <1>9 DEF WriteCSRF, Check, VerifyCSRF
<1>10. ASSUME Verify(t) \/ Public(t) \/ Act(t) PROVE OwnTypes(t)' /\ OwnGuard(t)'
  BY <1>10 DEF Verify, Public, Act
<1>. QED
  BY <1>3, <1>4, <1>5, <1>6, <1>7, <1>8, <1>9, <1>10 DEF Serve

LEMMA WebStepInv == WebInv /\ [WebNext]_webVars => WebInv'
<1>. SUFFICES ASSUME WebInv, [WebNext]_webVars PROVE WebInv'
  OBVIOUS
<1>1. CASE UNCHANGED webVars
  BY <1>1 DEF webVars, screen, WebInv, WebTypeOK, Guarded
<1>2. CASE \E t \in Tabs : (\E k \in Asked : Send(t, k)) \/ Serve(t) \/ Arrive(t)
  <2>1. PICK t \in Tabs : (\E k \in Asked : Send(t, k)) \/ Serve(t) \/ Arrive(t)
    BY <1>2
  <2>2. OwnTypes(t)' /\ OwnGuard(t)'
    BY <2>1, OwnStep
  <2>3. /\ RowsOnlyAdvance
        /\ \A u \in Tabs \ {t} : /\ pc'[u] = pc[u] /\ token'[u] = token[u]
                                 /\ csrf'[u] = csrf[u] /\ late'[u] = late[u]
    BY <2>1, WebEffect
  <2>4. ASSUME NEW u \in Tabs \ {t} PROVE Stored(csrf[u])' /\ Stored(token[u])' /\ OwnGuard(u)'
    <3>1. Stored(csrf[u]) /\ Stored(token[u]) /\ OwnGuard(u)
      BY StoredTokens DEF WebInv, Guarded, OwnGuard
    <3>. QED
      BY <3>1, <2>3 DEF Stored, OwnGuard, RowsOnlyAdvance
  <2>5. WebTypeOK'
    BY <2>2, <2>4 DEF WebTypeOK, OwnTypes, Stored
  <2>6. Guarded'
    BY <2>2, <2>4 DEF Guarded, OwnGuard
  <2>. QED
    BY <2>5, <2>6 DEF WebInv
<1>3. ASSUME NEW s \in Sessions, DropSession(s) PROVE WebInv'
  <2>1. /\ session' \in [Sessions -> {"none", "anonymous", "authenticated", "ended"}] /\ RowsOnlyAdvance
        /\ UNCHANGED <<cookie, page, csrf, pc, token, late>>
    BY <1>3 DEF DropSession, Active, Ends, screen, WebInv, WebTypeOK, RowsOnlyAdvance
  <2>2. WebTypeOK'
    BY <2>1 DEF WebInv, WebTypeOK, RowsOnlyAdvance
  <2>3. Guarded'
    BY <2>1 DEF WebInv, Guarded, RowsOnlyAdvance
  <2>. QED
    BY <2>2, <2>3 DEF WebInv
<1>. QED
  BY <1>1, <1>2, <1>3 DEF WebNext

LEMMA WebInvHolds == WebSpec => []WebInv
BY WebInitInv, WebStepInv, PTL DEF WebSpec

\* The table and the tabs have their types, and the browser knows no token without
\* a row.
THEOREM TypeCorrect == WebSpec => []WebTypeOK
<1>1. WebInv => WebTypeOK
  BY DEF WebInv
<1>. QED
  BY WebInvHolds, <1>1, PTL

\* Whatever the tabs do beside it, a write comes from a form of the session it is
\* sent in, and that session was signed in.
THEOREM OwnPages == WebSpec => []WritesFromOwnPages
<1>1. WebInv => WritesFromOwnPages
  BY DEF WebInv, Guarded, WritesFromOwnPages, At
<1>. QED
  BY WebInvHolds, <1>1, PTL

\* Nothing is written by a request that was sent after its session was revoked or deleted.
THEOREM Revoked == WebSpec => RevokedWritesNothing
<1>1. WebInv /\ [WebNext]_webVars => [\A t \in Tabs : Acts(t) => ~late[t]]_webVars
  BY DEF WebInv, Guarded, Acts, At
<1>. QED
  BY WebInvHolds, <1>1, PTL DEF WebSpec, RevokedWritesNothing

-----------------------------------------------------------------------------
(* CaptureForm.                                                            *)

\* The file of a capture that was saved with a bookmark has been renamed, and stays so.
ShotsGone == \A i \in DOMAIN saved : saved[i].shot \in Captures => saved[i].shot \in gone

\* The answer of a button's request that will take the place of the fragment.
Tells(b) == /\ pressed[b] # NoRequest /\ pressed[b].attached
            /\ pressed[b].answer = pressed[b].capture

\* The fragment shows the state of its draft, or the answer that will is under way.
FragmentIsTrue == held \in Captures \ unseen =>
  shown = draft[held].state \/ \E b \in Buttons : Tells(b)

\* Nothing leads a draft out of capturing: an answer that says so stays true.
CapturingIsTrue == held \in Captures /\ shown = "capturing" => draft[held].state = "capturing"

\* A request that is attached is one of the fragment that the form has now.  If no
\* change to its draft is missed, it is the only one for its capture, the form has
\* another capture once it is detached, and its answer is what is stored.
ButtonIsSound(b) == pressed[b] # NoRequest =>
  LET r == pressed[b] IN
  /\ draft[r.capture].state # "none"
  /\ r.answer \in {"none", r.capture}
  /\ r.answer = r.capture /\ r.state = "capturing" => draft[r.capture].state = "capturing"
  /\ r.attached => r.capture = held /\ shown \in {"ready", "failed"}
  /\ r.capture \notin unseen =>
       /\ r.attached \/ r.capture # held
       /\ \A o \in Buttons \ {b} : pressed[o] # NoRequest => pressed[o].capture # r.capture
       /\ r.answer = r.capture => r.state = draft[r.capture].state

ButtonsAreSound == \A b \in Buttons : ButtonIsSound(b)

\* A fragment that polls has no buttons, now and if the poll brings it back.
PollIsSound(c) == poll[c] # NoRequest =>
  /\ draft[c].state = "capturing"
  /\ poll[c].answer \in {"none", c}
  /\ poll[c].answer = c => poll[c].state = "capturing"
  /\ held = c => shown = "capturing"
  /\ c \notin unseen => \A b \in Buttons : pressed[b] # NoRequest => pressed[b].capture # c

PollsAreSound == \A c \in Captures : PollIsSound(c)

\* The capture of an answer that has not arrived is new to the form, its buttons and
\* its polls.
SentIsNew == sent # NoRequest /\ sent.answer \in Captures =>
  /\ draft[sent.answer].state # "none" /\ sent.answer # held
  /\ \A b \in Buttons : pressed[b] # NoRequest => pressed[b].capture # sent.answer
  /\ poll[sent.answer] = NoRequest
  /\ sent.answer \notin unseen => sent.state = draft[sent.answer].state
  /\ sent.state = "capturing" => draft[sent.answer].state = "capturing"

QueuedWaits == queued # NoRequest => queued.answer = "none"

HeldIsStored == held \in Captures => draft[held].state # "none"

\* Until the first answer is swapped in, the form has no capture and no buttons.
OriginalIsEmpty == original => held = NoCapture /\ \A b \in Buttons : pressed[b] = NoRequest

FragmentInv == /\ FragmentIsTrue /\ CapturingIsTrue /\ ButtonsAreSound /\ PollsAreSound
               /\ SentIsNew /\ QueuedWaits /\ HeldIsStored /\ OriginalIsEmpty

FormInv == FormTypeOK /\ ShotIsOfSavedUrl /\ CaptureSavedOnce /\ ShotsGone /\ FragmentInv

LEMMA FormInitInv == FormInit => FormInv
<1>. SUFFICES ASSUME FormInit PROVE FormInv
  OBVIOUS
<1>1. FormTypeOK
  <2>1. bookmark \in Urls \cup {NoUrl} /\ NoDraft \in [url : Urls \cup {NoUrl}, state : States]
    BY FormAssumption DEF FormInit, NoDraft, States
  <2>2. saved \in Seq(Written)
    BY DEF FormInit
  <2>3. draft \in [Captures -> [url : Urls \cup {NoUrl}, state : States]]
    BY <2>1 DEF FormInit
  <2>. QED
    BY <2>1, <2>2, <2>3 DEF FormInit, FormTypeOK
<1>2. ShotIsOfSavedUrl /\ CaptureSavedOnce /\ ShotsGone
  BY DEF FormInit, ShotIsOfSavedUrl, CaptureSavedOnce, ShotsGone
<1>3. FragmentInv
  BY FormAssumption
     DEF FormInit, FragmentInv, FragmentIsTrue, CapturingIsTrue, ButtonsAreSound, ButtonIsSound, PollsAreSound,
         PollIsSound, SentIsNew, QueuedWaits, HeldIsStored, OriginalIsEmpty
<1>. QED
  BY <1>1, <1>2, <1>3 DEF FormInv

-----------------------------------------------------------------------------
(* Requests.                                                               *)

\* The request of a new capture, and that of a button, when their target is gone.
LEMMA DetachedStart ==
  ASSUME NEW r \in StartRequest \cup {NoRequest}
  PROVE  /\ Detached(r) \in StartRequest \cup {NoRequest}
         /\ Detached(r) = NoRequest <=> r = NoRequest
         /\ r # NoRequest => Detached(r).answer = r.answer /\ Detached(r).state = r.state
<1>1. CASE r = NoRequest
  BY <1>1 DEF Detached
<1>2. CASE r # NoRequest
  <2>1. r \in StartRequest /\ Detached(r) = [r EXCEPT !.attached = FALSE]
    BY <1>2 DEF Detached
  <2>2. /\ Detached(r) \in StartRequest
        /\ Detached(r).answer = r.answer /\ Detached(r).state = r.state
    BY <2>1 DEF StartRequest
  <2>. QED
    BY <1>2, <2>2, FormAssumption
<1>. QED
  BY <1>1, <1>2

LEMMA DetachedButton ==
  ASSUME NEW r \in ButtonRequest \cup {NoRequest}
  PROVE  /\ Detached(r) \in ButtonRequest \cup {NoRequest}
         /\ Detached(r) = NoRequest <=> r = NoRequest
         /\ r # NoRequest => /\ Detached(r).capture = r.capture /\ Detached(r).answer = r.answer
                             /\ Detached(r).state = r.state /\ ~Detached(r).attached
<1>1. CASE r = NoRequest
  BY <1>1 DEF Detached
<1>2. CASE r # NoRequest
  <2>1. r \in ButtonRequest /\ Detached(r) = [r EXCEPT !.attached = FALSE]
    BY <1>2 DEF Detached
  <2>2. /\ Detached(r) \in ButtonRequest
        /\ Detached(r).capture = r.capture /\ Detached(r).answer = r.answer
        /\ Detached(r).state = r.state /\ ~Detached(r).attached
    BY <2>1 DEF ButtonRequest
  <2>. QED
    BY <1>2, <2>2, FormAssumption
<1>. QED
  BY <1>1, <1>2

\* The answer to a button's request, with the state s.
LEMMA ReplyAnswers ==
  ASSUME FormTypeOK, NEW b \in Buttons, pressed[b] # NoRequest, NEW s \in States, Reply(b, s)
  PROVE  /\ pressed' \in [Buttons -> ButtonRequest \cup {NoRequest}]
         /\ \A o \in Buttons \ {b} : pressed'[o] = pressed[o]
         /\ pressed'[b] # NoRequest
         /\ pressed'[b].capture = pressed[b].capture /\ pressed'[b].attached = pressed[b].attached
         /\ pressed'[b].answer = pressed[b].capture /\ pressed'[b].state = s
<1>1. pressed[b] \in ButtonRequest /\ pressed \in [Buttons -> ButtonRequest \cup {NoRequest}]
  BY DEF FormTypeOK
<1>. DEFINE r == [pressed[b] EXCEPT !.answer = pressed[b].capture, !.state = s]
<1>2. /\ r \in ButtonRequest /\ r.capture = pressed[b].capture /\ r.attached = pressed[b].attached
      /\ r.answer = pressed[b].capture /\ r.state = s
  BY <1>1 DEF ButtonRequest
<1>3. pressed' = [pressed EXCEPT ![b] = r]
  BY DEF Reply
<1>. QED
  BY <1>1, <1>2, <1>3, FormAssumption

\* A state that is stored for a draft changes nothing else.
LEMMA StateStored ==
  ASSUME FormTypeOK, NEW c \in Captures, NEW s \in States, Put(c, s)
  PROVE  /\ draft' \in [Captures -> [url : Urls \cup {NoUrl}, state : States]]
         /\ \A d \in Captures \ {c} : draft'[d] = draft[d]
         /\ draft'[c].url = draft[c].url /\ draft'[c].state = s
<1>1. draft \in [Captures -> [url : Urls \cup {NoUrl}, state : States]]
  BY DEF FormTypeOK
<1>. DEFINE r == [draft[c] EXCEPT !.state = s]
<1>2. r \in [url : Urls \cup {NoUrl}, state : States] /\ r.url = draft[c].url /\ r.state = s
  BY <1>1
<1>3. draft' = [draft EXCEPT ![c] = r]
  BY DEF Put
<1>. QED
  BY <1>1, <1>2, <1>3

SavedInv == ShotIsOfSavedUrl /\ CaptureSavedOnce /\ ShotsGone

\* What was saved stays right while the drafts that have a URL keep it, and no file
\* comes back.
LEMMA SavedKept ==
  ASSUME FormInv, UNCHANGED <<bookmark, saved>>, gone \subseteq gone',
         \A c \in Captures : draft[c].url # NoUrl => draft'[c].url = draft[c].url
  PROVE  SavedInv'
<1>1. SavedInv
  BY DEF FormInv, SavedInv
<1>2. ASSUME NEW i \in DOMAIN saved PROVE saved[i].url \in Urls
  <2>1. saved \in Seq(Written)
    BY DEF FormInv, FormTypeOK
  <2>2. saved[i] \in Written
    BY <2>1, LenProperties
  <2>. QED
    BY <2>2 DEF Written
<1>. QED
  BY <1>1, <1>2, FormAssumption DEF SavedInv, ShotIsOfSavedUrl, CaptureSavedOnce, ShotsGone

\* Polls stay sound while the form has its fragment, no draft leaves capturing and no
\* button is pressed.
LEMMA PollsKept ==
  ASSUME PollsAreSound, CapturingIsTrue, UNCHANGED <<held, shown>>, unseen \subseteq unseen',
         \A c \in Captures : /\ poll'[c] \in {poll[c], NoRequest}
                             /\ draft[c].state = "capturing" => draft'[c].state = "capturing",
         \A b \in Buttons : pressed'[b] # NoRequest =>
                             pressed[b] # NoRequest /\ pressed'[b].capture = pressed[b].capture
  PROVE  PollsAreSound' /\ CapturingIsTrue'
<1>1. CapturingIsTrue'
  BY DEF CapturingIsTrue
<1>2. ASSUME NEW c \in Captures PROVE PollIsSound(c)'
  <2>1. PollIsSound(c)
    BY DEF PollsAreSound
  <2>. QED
    BY <2>1 DEF PollIsSound
<1>. QED
  BY <1>1, <1>2 DEF PollsAreSound

fragment == <<held, shown, original, sent, queued, pressed, draft, unseen>>

LEMMA FragmentKept ==
  ASSUME FragmentInv, UNCHANGED fragment, \A c \in Captures : poll'[c] \in {poll[c], NoRequest}
  PROVE  FragmentInv'
<1>1. PollsAreSound' /\ CapturingIsTrue'
  BY PollsKept DEF fragment, FragmentInv
<1>2. SentIsNew'
  BY DEF fragment, FragmentInv, SentIsNew
<1>. QED
  BY <1>1, <1>2
     DEF fragment, FragmentInv, FragmentIsTrue, Tells, ButtonsAreSound, ButtonIsSound, QueuedWaits, HeldIsStored,
         OriginalIsEmpty

\* A change of the URL empties the element the form began with, which has no capture.
LEMMA FormStepChangeUrl ==
  ASSUME FormInv, NEW u \in Urls \cup {NoUrl}, ChangeUrl(u)
  PROVE  FormInv'
<1>. DEFINE r == [url |-> u, attached |-> TRUE, answer |-> "none", state |-> "none"]
<1>1. /\ FormTypeOK /\ FragmentInv
      /\ UNCHANGED <<bookmark, formPage, pressed, poll, saving, again, draft, gone, saved, unseen>>
  BY DEF ChangeUrl, FormInv, tables
<1>2. /\ UNCHANGED <<shown, original>>
      /\ held' = held \/ (original /\ held' = NoCapture)
      /\ url' \in Urls \cup {NoUrl} /\ last' \in Urls \cup {NoUrl}
  BY <1>1 DEF ChangeUrl, status, FormTypeOK
<1>3. \/ UNCHANGED <<sent, queued>>
      \/ u \in Urls /\ sent = NoRequest /\ sent' = r /\ UNCHANGED queued
      \/ u \in Urls /\ sent # NoRequest /\ queued' = r /\ UNCHANGED sent
  BY DEF ChangeUrl
<1>4. u \in Urls => r \in StartRequest /\ r # NoRequest /\ r.answer = "none"
  <2>1. r.answer = "none" /\ (u \in Urls => r \in StartRequest)
    BY DEF StartRequest, States
  <2>. QED
    BY <2>1, FormAssumption
<1>5. held' = held
  BY <1>1, <1>2 DEF FragmentInv, OriginalIsEmpty
<1>. HIDE DEF r
<1>6. /\ sent' \in StartRequest \cup {NoRequest} /\ queued' \in StartRequest \cup {NoRequest}
      /\ queued' # NoRequest => sent' # NoRequest /\ queued'.answer = "none"
      /\ sent' = sent \/ sent'.answer = "none"
  BY <1>1, <1>3, <1>4 DEF FormTypeOK, FragmentInv, QueuedWaits
<1>7. FormTypeOK'
  BY <1>1, <1>2, <1>5, <1>6 DEF FormTypeOK
<1>8. FragmentInv'
  <2>1. PollsAreSound' /\ CapturingIsTrue'
    BY <1>1, <1>2, <1>5, PollsKept DEF FragmentInv
  <2>2. SentIsNew'
    BY <1>1, <1>5, <1>6, FormAssumption DEF FragmentInv, SentIsNew
  <2>. QED
    BY <1>1, <1>2, <1>5, <1>6, <2>1, <2>2
       DEF FragmentInv, FragmentIsTrue, Tells, ButtonsAreSound, ButtonIsSound, QueuedWaits, HeldIsStored,
           OriginalIsEmpty
<1>. QED
  BY <1>1, <1>7, <1>8, SavedKept DEF FormInv, SavedInv

\* The draft that a new capture makes is one that nobody knows yet, and nobody knows
\* of when the request is refused.
LEMMA FormStepStart ==
  ASSUME FormInv, Start
  PROVE  FormInv'
<1>1. /\ FormTypeOK /\ FragmentInv /\ sent \in StartRequest
      /\ UNCHANGED <<bookmark, formPage, url, last, held, shown, original, queued, pressed, poll, saving, again, gone,
                     saved, unseen>>
  BY DEF Start, FormInv, FormTypeOK, InFlight, field, status
<1>2. sent' = Refused(sent) => sent' \in StartRequest /\ sent'.answer = "refused" /\ sent' # NoRequest
  BY <1>1, FormAssumption DEF StartRequest, Refused
<1>3. CASE sent' = Refused(sent) /\ UNCHANGED draft
  <2>1. FormTypeOK'
    BY <1>1, <1>2, <1>3 DEF FormTypeOK
  <2>2. PollsAreSound' /\ CapturingIsTrue'
    BY <1>1, <1>3, PollsKept DEF FragmentInv
  <2>3. SentIsNew' /\ FragmentIsTrue' /\ ButtonsAreSound' /\ QueuedWaits' /\ HeldIsStored' /\ OriginalIsEmpty'
    BY <1>1, <1>2, <1>3, FormAssumption
       DEF FragmentInv, FragmentIsTrue, Tells, ButtonsAreSound, ButtonIsSound, SentIsNew, QueuedWaits, HeldIsStored,
           OriginalIsEmpty
  <2>. QED
    BY <1>1, <1>3, <2>1, <2>2, <2>3, SavedKept DEF FormInv, SavedInv, FragmentInv
<1>4. ASSUME NEW c \in Captures, NEW s \in Outcomes,
             draft[c] = NoDraft,
             draft' = [draft EXCEPT ![c] = [url |-> sent.url, state |-> s]],
             \/ sent' = [sent EXCEPT !.answer = c, !.state = s]
             \/ sent' = Refused(sent)
      PROVE  FormInv'
  <2>1. s \in States \ {"none"} /\ draft[c].state = "none" /\ draft[c].url = NoUrl
    BY <1>4 DEF Outcomes, States, NoDraft
  <2>2. /\ sent' \in StartRequest /\ sent' # NoRequest
        /\ sent'.answer \in Captures => sent'.answer = c /\ sent'.state = s
    <3>1. CASE sent' = Refused(sent)
      BY <1>2, <3>1, FormAssumption
    <3>2. CASE sent' = [sent EXCEPT !.answer = c, !.state = s]
      BY <1>1, <2>1, <3>2, FormAssumption DEF StartRequest
    <3>. QED
      BY <1>4, <3>1, <3>2
  <2>3. /\ draft' \in [Captures -> [url : Urls \cup {NoUrl}, state : States]]
        /\ \A d \in Captures \ {c} : draft'[d] = draft[d]
        /\ draft'[c].state = s
    BY <1>1, <1>4, <2>1 DEF FormTypeOK, StartRequest
  <2>4. FormTypeOK'
    BY <1>1, <2>2, <2>3 DEF FormTypeOK
  <2>5. /\ held # c /\ poll[c] = NoRequest
        /\ \A b \in Buttons : pressed[b] # NoRequest => pressed[b].capture \in Captures \ {c}
    <3>1. held # c
      BY <1>1, <2>1 DEF FragmentInv, HeldIsStored
    <3>2. ASSUME NEW b \in Buttons, pressed[b] # NoRequest PROVE pressed[b].capture \in Captures \ {c}
      BY <1>1, <2>1, <3>2 DEF FragmentInv, ButtonsAreSound, ButtonIsSound, FormTypeOK, ButtonRequest
    <3>3. poll[c] = NoRequest
      BY <1>1, <2>1 DEF FragmentInv, PollsAreSound, PollIsSound
    <3>. QED
      BY <3>1, <3>2, <3>3
  <2>6. FragmentIsTrue' /\ HeldIsStored' /\ QueuedWaits' /\ OriginalIsEmpty'
    BY <1>1, <2>3, <2>5 DEF FragmentInv, FragmentIsTrue, Tells, HeldIsStored, QueuedWaits, OriginalIsEmpty
  <2>7. ButtonsAreSound'
    BY <1>1, <2>3, <2>5 DEF FragmentInv, ButtonsAreSound, ButtonIsSound
  <2>8. SentIsNew'
    BY <1>1, <2>1, <2>2, <2>3, <2>5 DEF SentIsNew
  <2>9. PollsAreSound' /\ CapturingIsTrue'
    <3>1. \A d \in Captures : draft[d].state = "capturing" => draft'[d].state = "capturing"
      BY <2>1, <2>3
    <3>. QED
      BY <1>1, <3>1, PollsKept DEF FragmentInv
  <2>10. SavedInv'
    BY <1>1, <2>1, <2>3, SavedKept
  <2>. QED
    BY <2>4, <2>6, <2>7, <2>8, <2>9, <2>10 DEF FormInv, SavedInv, FragmentInv
<1>. QED
  BY <1>3, <1>4 DEF Start

\* An answer takes the place of the fragment: it shows what is stored, the requests
\* of the fragment before are detached, and none of them is of the new one.
LEMMA SwapKeeps ==
  ASSUME FormInv, UNCHANGED <<draft, unseen>>, ~original', held' \in Captures,
         draft[held'].state # "none",
         held' \notin unseen => shown' = draft[held'].state,
         shown' = "capturing" => draft[held'].state = "capturing",
         \A o \in Buttons : pressed'[o] # NoRequest =>
           /\ pressed[o] # NoRequest /\ pressed'[o].capture = pressed[o].capture
           /\ pressed'[o].answer = pressed[o].answer /\ pressed'[o].state = pressed[o].state
           /\ ~pressed'[o].attached /\ (held' \notin unseen => pressed[o].capture # held'),
         \A o \in Buttons : pressed[o] = NoRequest => pressed'[o] = NoRequest,
         \A c \in Captures : poll'[c] # NoRequest => poll'[c] = poll[c] /\ c # held',
         sent' # NoRequest /\ sent'.answer \in Captures =>
           /\ sent # NoRequest /\ sent'.answer = sent.answer /\ sent'.state = sent.state
           /\ sent.answer # held',
         queued' # NoRequest => queued'.answer = "none"
  PROVE  FragmentInv'
<1>. USE DEF FormInv, FragmentInv
<1>1. FragmentIsTrue' /\ CapturingIsTrue' /\ HeldIsStored' /\ QueuedWaits' /\ OriginalIsEmpty'
  BY DEF FragmentIsTrue, CapturingIsTrue, HeldIsStored, QueuedWaits, OriginalIsEmpty
<1>2. ButtonsAreSound'
  BY DEF ButtonsAreSound, ButtonIsSound
<1>3. SentIsNew'
  BY DEF SentIsNew
<1>4. ASSUME NEW c \in Captures PROVE PollIsSound(c)'
  <2>1. PollIsSound(c)
    BY DEF PollsAreSound
  <2>. QED
    BY <2>1 DEF PollIsSound
<1>. QED
  BY <1>1, <1>2, <1>3, <1>4 DEF PollsAreSound

\* The buttons of a fragment that goes.
LEMMA AllDetached ==
  ASSUME FormTypeOK, pressed' = [b \in Buttons |-> Detached(pressed[b])]
  PROVE  /\ pressed' \in [Buttons -> ButtonRequest \cup {NoRequest}]
         /\ \A o \in Buttons : /\ pressed'[o] = NoRequest <=> pressed[o] = NoRequest
                               /\ pressed[o] # NoRequest =>
                                    /\ pressed'[o].capture = pressed[o].capture
                                    /\ pressed'[o].answer = pressed[o].answer
                                    /\ pressed'[o].state = pressed[o].state /\ ~pressed'[o].attached
<1>. SUFFICES ASSUME NEW o \in Buttons
     PROVE  /\ pressed'[o] \in ButtonRequest \cup {NoRequest}
            /\ pressed'[o] = NoRequest <=> pressed[o] = NoRequest
            /\ pressed[o] # NoRequest => /\ pressed'[o].capture = pressed[o].capture
                                         /\ pressed'[o].answer = pressed[o].answer
                                         /\ pressed'[o].state = pressed[o].state /\ ~pressed'[o].attached
  OBVIOUS
<1>1. pressed[o] \in ButtonRequest \cup {NoRequest} /\ pressed'[o] = Detached(pressed[o])
  BY DEF FormTypeOK
<1>. QED
  BY <1>1, DetachedButton

LEMMA FormStepStartAnswered ==
  ASSUME FormInv, StartAnswered
  PROVE  FormInv'
<1>1. /\ FormTypeOK /\ FragmentInv /\ sent \in StartRequest /\ sent # NoRequest /\ sent.answer # "none"
      /\ UNCHANGED <<bookmark, formPage, url, last, poll, saving, again, draft, gone, saved, unseen>>
      /\ queued' = NoRequest
  BY DEF StartAnswered, FormInv, FormTypeOK, Answered, field, tables
<1>2. queued \in StartRequest \cup {NoRequest} /\ (queued # NoRequest => queued.answer = "none")
  BY <1>1 DEF FormTypeOK, FragmentInv, QueuedWaits
<1>3. SavedInv'
  BY <1>1, SavedKept
<1>4. CASE Arrives(sent)
  <2>1. /\ held' = sent.answer /\ shown' = sent.state /\ original' = FALSE
        /\ sent' = Detached(queued) /\ pressed' = [b \in Buttons |-> Detached(pressed[b])]
    BY <1>4 DEF StartAnswered, Swap
  <2>2. sent.answer \in Captures /\ sent.state \in States
    BY <1>1, <1>4 DEF Arrives, StartRequest
  <2>3. sent' \in StartRequest \cup {NoRequest} /\ (sent' # NoRequest => sent'.answer \notin Captures)
    BY <1>2, <2>1, DetachedStart, FormAssumption
  <2>4. FormTypeOK'
    BY <1>1, <2>1, <2>2, <2>3, AllDetached DEF FormTypeOK
  <2>5. /\ draft[sent.answer].state # "none" /\ poll[sent.answer] = NoRequest
        /\ \A b \in Buttons : pressed[b] # NoRequest => pressed[b].capture # sent.answer
        /\ sent.answer \notin unseen => sent.state = draft[sent.answer].state
        /\ sent.state = "capturing" => draft[sent.answer].state = "capturing"
    BY <1>1, <2>2 DEF FragmentInv, SentIsNew
  <2>6. FragmentInv'
    BY <1>1, <2>1, <2>2, <2>3, <2>5, AllDetached, SwapKeeps
  <2>. QED
    BY <1>3, <2>4, <2>6 DEF FormInv, SavedInv
<1>5. CASE ~Arrives(sent)
  <2>1. sent' = queued /\ UNCHANGED <<held, shown, original, pressed>>
    BY <1>5 DEF StartAnswered, status
  <2>2. FormTypeOK'
    BY <1>1, <1>2, <2>1 DEF FormTypeOK
  <2>3. PollsAreSound' /\ CapturingIsTrue'
    BY <1>1, <2>1, PollsKept DEF FragmentInv
  <2>4. SentIsNew' /\ FragmentIsTrue' /\ ButtonsAreSound' /\ QueuedWaits' /\ HeldIsStored' /\ OriginalIsEmpty'
    BY <1>1, <1>2, <2>1, FormAssumption
       DEF FragmentInv, FragmentIsTrue, Tells, ButtonsAreSound, ButtonIsSound, SentIsNew, QueuedWaits, HeldIsStored,
           OriginalIsEmpty
  <2>. QED
    BY <1>3, <2>2, <2>3, <2>4 DEF FormInv, SavedInv, FragmentInv
<1>. QED
  BY <1>4, <1>5

\* Polls begin only while the fragment says capturing, when it offers no button, and
\* what they are answered is what no one changes any more.
LEMMA PollGoesOn ==
  ASSUME FormInv, NEW c \in Captures, AskPoll(c) \/ ServePoll(c), poll' # [poll EXCEPT ![c] = NoRequest]
  PROVE  FormInv'
<1>0. poll' # [poll EXCEPT ![c] = NoRequest]
  OBVIOUS
<1>1. /\ FormTypeOK /\ FragmentInv
      /\ UNCHANGED <<bookmark, formPage, url, last, held, shown, original, sent, queued, pressed, saving, again, draft,
                     gone, saved, unseen>>
  BY DEF FormInv, AskPoll, ServePoll, tables, field, status
<1>2. PICK r \in PollRequest :
        /\ poll' = [poll EXCEPT ![c] = r] /\ r # NoRequest
        /\ r.answer \in {"none", c} /\ (r.answer = c => r.state = draft[c].state)
        /\ poll[c] = NoRequest => held = c /\ shown = "capturing"
  <2>1. CASE AskPoll(c)
    <3>. DEFINE r == [whole |-> Open, answer |-> "none", state |-> "none"]
    <3>1. r \in PollRequest
      BY DEF PollRequest, States, Open
    <3>2. r # NoRequest
      BY <3>1, FormAssumption
    <3>. QED
      BY <2>1, <3>1, <3>2, FormAssumption DEF AskPoll
  <2>2. CASE ServePoll(c)
    <3>. DEFINE r == [poll[c] EXCEPT !.answer = c, !.state = draft[c].state]
    <3>1. poll[c] \in PollRequest /\ poll[c] # NoRequest /\ draft[c].state \in States
      BY <1>1, <2>2 DEF ServePoll, InFlight, FormTypeOK
    <3>2. r \in PollRequest /\ r.answer = c /\ r.state = draft[c].state
      BY <3>1 DEF PollRequest
    <3>3. r # NoRequest
      BY <3>2, FormAssumption
    <3>4. poll' = [poll EXCEPT ![c] = r]
      BY <1>0, <2>2 DEF ServePoll
    <3>. HIDE DEF r
    <3>. QED
      BY <3>1, <3>2, <3>3, <3>4, FormAssumption
  <2>. QED
    BY <2>1, <2>2
<1>3. /\ poll' \in [Captures -> PollRequest \cup {NoRequest}]
      /\ poll'[c] = r /\ \A d \in Captures \ {c} : poll'[d] = poll[d]
  BY <1>1, <1>2 DEF FormTypeOK
<1>4. FormTypeOK'
  BY <1>1, <1>3 DEF FormTypeOK
<1>5. /\ draft[c].state = "capturing"
      /\ held = c => shown = "capturing"
      /\ c \notin unseen => \A b \in Buttons : pressed[b] # NoRequest => pressed[b].capture # c
  <2>1. CASE poll[c] # NoRequest
    BY <1>1, <2>1 DEF FragmentInv, PollsAreSound, PollIsSound
  <2>2. CASE poll[c] = NoRequest
    <3>1. held = c /\ shown = "capturing" /\ draft[c].state = "capturing"
      BY <1>1, <1>2, <2>2 DEF FragmentInv, CapturingIsTrue
    <3>2. ASSUME NEW b \in Buttons, pressed[b] # NoRequest, c \notin unseen PROVE pressed[b].capture # c
      <4>1. ButtonIsSound(b)
        BY <1>1 DEF FragmentInv, ButtonsAreSound
      <4>. QED
        BY <3>1, <3>2, <4>1 DEF ButtonIsSound
    <3>. QED
      BY <3>1, <3>2
  <2>. QED
    BY <2>1, <2>2
<1>6. ASSUME NEW d \in Captures PROVE PollIsSound(d)'
  <2>1. CASE d = c
    BY <1>1, <1>2, <1>3, <1>5, <2>1, FormAssumption DEF PollIsSound
  <2>2. CASE d # c
    <3>1. PollIsSound(d)
      BY <1>1 DEF FragmentInv, PollsAreSound
    <3>. QED
      BY <1>1, <1>3, <2>2, <3>1 DEF PollIsSound
  <2>. QED
    BY <2>1, <2>2
<1>7. SentIsNew'
  <2>. SUFFICES ASSUME sent # NoRequest, sent.answer \in Captures PROVE SentIsNew'
    BY <1>1 DEF SentIsNew
  <2>1. SentIsNew
    BY <1>1 DEF FragmentInv
  <2>2. poll'[sent.answer] = NoRequest
    <3>1. poll[sent.answer] = NoRequest /\ sent.answer # held
      BY <2>1 DEF SentIsNew
    <3>2. sent.answer # c
      BY <1>2, <1>5, <3>1, <2>1, <1>1 DEF SentIsNew
    <3>. QED
      BY <1>3, <3>1, <3>2
  <2>. QED
    BY <1>1, <2>1, <2>2 DEF SentIsNew
<1>8. FragmentInv'
  BY <1>1, <1>6, <1>7
     DEF FragmentInv, FragmentIsTrue, Tells, CapturingIsTrue, ButtonsAreSound, ButtonIsSound, PollsAreSound,
         QueuedWaits, HeldIsStored, OriginalIsEmpty
<1>9. SavedInv'
  BY <1>1, SavedKept
<1>. QED
  BY <1>4, <1>8, <1>9 DEF FormInv, SavedInv

LEMMA FormStepPoll ==
  ASSUME FormInv, NEW c \in Captures, AskPoll(c) \/ ServePoll(c)
  PROVE  FormInv'
<1>1. CASE poll' # [poll EXCEPT ![c] = NoRequest]
  BY <1>1, PollGoesOn
<1>2. CASE poll' = [poll EXCEPT ![c] = NoRequest]
  <2>1. /\ FormTypeOK /\ FragmentInv /\ UNCHANGED fragment
        /\ UNCHANGED <<bookmark, formPage, url, last, saving, again, gone, saved>>
    BY DEF FormInv, AskPoll, ServePoll, tables, field, status, fragment
  <2>2. /\ poll' \in [Captures -> PollRequest \cup {NoRequest}]
        /\ \A d \in Captures : poll'[d] \in {poll[d], NoRequest}
    BY <1>2, <2>1 DEF FormTypeOK
  <2>3. FormTypeOK'
    BY <2>1, <2>2 DEF FormTypeOK, fragment
  <2>4. FragmentInv'
    BY <2>1, <2>2, FragmentKept
  <2>5. SavedInv'
    BY <2>1, SavedKept DEF fragment
  <2>. QED
    BY <2>3, <2>4, <2>5 DEF FormInv, SavedInv
<1>. QED
  BY <1>1, <1>2

\* The answer to a poll brings a fragment that shows what is stored, of whichever
\* capture, or is dropped.
LEMMA FormStepPollAnswered ==
  ASSUME FormInv, NEW c \in Captures, PollAnswered(c)
  PROVE  FormInv'
<1>1. /\ FormTypeOK /\ FragmentInv /\ poll[c] # NoRequest /\ poll[c].answer # "none"
      /\ poll' = [poll EXCEPT ![c] = NoRequest] /\ formPage' \in {formPage, "replaced"}
      /\ url' \in Urls \cup {NoUrl} /\ last' \in Urls \cup {NoUrl}
      /\ UNCHANGED <<bookmark, saving, again, draft, gone, saved, unseen>>
  BY DEF PollAnswered, FormInv, FormTypeOK, Answered, field, tables
<1>2. poll' \in [Captures -> PollRequest \cup {NoRequest}] /\ poll'[c] = NoRequest
      /\ \A d \in Captures \ {c} : poll'[d] = poll[d]
  BY <1>1 DEF FormTypeOK
<1>3. SavedInv'
  BY <1>1, SavedKept
<1>4. /\ draft[c].state = "capturing" /\ poll[c].answer = c /\ poll[c].state = "capturing"
      /\ c \notin unseen => \A b \in Buttons : pressed[b] # NoRequest => pressed[b].capture # c
  BY <1>1 DEF FragmentInv, PollsAreSound, PollIsSound
<1>5. CASE poll[c].whole => Open
  <2>1. /\ held' = c /\ shown' = "capturing" /\ original' = FALSE
        /\ sent' = Detached(sent) /\ queued' = Detached(queued)
        /\ pressed' = [b \in Buttons |-> Detached(pressed[b])]
    BY <1>4, <1>5 DEF PollAnswered, Swap
  <2>2. /\ sent' \in StartRequest \cup {NoRequest} /\ queued' \in StartRequest \cup {NoRequest}
        /\ (sent' = NoRequest <=> sent = NoRequest) /\ (queued' = NoRequest <=> queued = NoRequest)
        /\ sent # NoRequest => sent'.answer = sent.answer /\ sent'.state = sent.state
        /\ queued # NoRequest => queued'.answer = queued.answer
    <3>1. sent \in StartRequest \cup {NoRequest} /\ queued \in StartRequest \cup {NoRequest}
      BY <1>1 DEF FormTypeOK
    <3>. QED
      BY <2>1, <3>1, DetachedStart
  <2>3. FormTypeOK'
    BY <1>1, <1>2, <2>1, <2>2, AllDetached DEF FormTypeOK, States
  <2>4. /\ queued # NoRequest => queued.answer = "none"
        /\ sent # NoRequest /\ sent.answer \in Captures => sent.answer # c
    BY <1>1 DEF FragmentInv, QueuedWaits, SentIsNew
  <2>5. \A d \in Captures : poll'[d] # NoRequest => poll'[d] = poll[d] /\ d # c
    BY <1>2
  <2>6. FragmentInv'
    BY <1>1, <1>4, <2>1, <2>2, <2>4, <2>5, AllDetached, SwapKeeps
  <2>. QED
    BY <1>3, <2>3, <2>6 DEF FormInv, SavedInv
<1>6. CASE ~(poll[c].whole => Open)
  <2>1. UNCHANGED <<formPage, held, shown, original, sent, queued, pressed>>
    BY <1>6 DEF PollAnswered, status
  <2>2. FormTypeOK'
    BY <1>1, <1>2, <2>1 DEF FormTypeOK
  <2>3. FragmentInv'
    BY <1>1, <1>2, <2>1, FragmentKept DEF fragment
  <2>. QED
    BY <1>3, <2>2, <2>3 DEF FormInv, SavedInv
<1>. QED
  BY <1>5, <1>6

-----------------------------------------------------------------------------
(* The buttons.                                                            *)

LEMMA FormStepPress ==
  ASSUME FormInv, NEW b \in Buttons, Press(b)
  PROVE  FormInv'
<1>. DEFINE r == [capture |-> held, attached |-> TRUE, answer |-> "none", state |-> "none"]
<1>1. /\ FormTypeOK /\ FragmentInv /\ held \in Captures /\ pressed[b] = NoRequest
      /\ shown \in {"ready", "failed"}
      /\ pressed' = [pressed EXCEPT ![b] = r]
      /\ unseen' = unseen \cup {c \in {held} : \E o \in Buttons : pressed[o] # NoRequest /\ pressed[o].capture = c}
      /\ UNCHANGED <<bookmark, formPage, url, last, held, shown, original, sent, queued, poll, saving, again, draft,
                     gone, saved>>
  BY DEF Press, FormInv, Offers, field, status
<1>2. r \in ButtonRequest /\ r # NoRequest
  <2>1. r \in ButtonRequest
    BY <1>1 DEF ButtonRequest, States
  <2>. QED
    BY <2>1, FormAssumption
<1>3. r.capture = held /\ r.attached /\ r.answer = "none"
  OBVIOUS
<1>. HIDE DEF r
<1>4. pressed'[b] = r /\ \A o \in Buttons \ {b} : pressed'[o] = pressed[o]
  BY <1>1 DEF FormTypeOK
<1>5. FormTypeOK'
  BY <1>1, <1>2 DEF FormTypeOK
<1>6. FragmentIsTrue' /\ CapturingIsTrue' /\ HeldIsStored' /\ QueuedWaits' /\ OriginalIsEmpty'
  BY <1>1, <1>4, FormAssumption
     DEF FragmentInv, FragmentIsTrue, Tells, CapturingIsTrue, HeldIsStored, QueuedWaits, OriginalIsEmpty
<1>7. ButtonIsSound(b)'
  BY <1>1, <1>3, <1>4, FormAssumption DEF FragmentInv, HeldIsStored, ButtonIsSound
<1>8. ASSUME NEW o \in Buttons \ {b} PROVE ButtonIsSound(o)'
  <2>1. /\ ButtonIsSound(o) /\ pressed'[o] = pressed[o]
        /\ pressed[o] # NoRequest /\ pressed[o].capture = held => held \in unseen'
    BY <1>1, <1>4 DEF FragmentInv, ButtonsAreSound
  <2>2. pressed[o] # NoRequest /\ pressed[o].capture \notin unseen' =>
          pressed[o].capture \notin unseen /\ pressed[o].capture # held
    BY <1>1, <2>1
  <2>. QED
    BY <1>1, <1>3, <1>4, <2>1, <2>2 DEF ButtonIsSound
<1>9. SentIsNew'
  BY <1>1, <1>3, <1>4 DEF FragmentInv, SentIsNew
<1>10. ASSUME NEW c \in Captures PROVE PollIsSound(c)'
  <2>1. PollIsSound(c)
    BY <1>1 DEF FragmentInv, PollsAreSound
  <2>. QED
    BY <1>1, <1>3, <1>4, <2>1 DEF PollIsSound
<1>11. SavedInv'
  BY <1>1, SavedKept
<1>. QED
  BY <1>5, <1>6, <1>7, <1>8, <1>9, <1>10, <1>11 DEF FormInv, SavedInv, FragmentInv, ButtonsAreSound, PollsAreSound

\* What the server does with the request of a button: it answers with the state it
\* stores, or refuses, with or without having stored one.
Served(b) ==
  \/ Reject(b)
  \/ /\ draft[pressed[b].capture].state \in {"ready", "failed"}
     /\ \E s \in States \ {"none"} : Store(b, s) \/ Lose(b, s)

LEMMA ButtonServed ==
  ASSUME FormInv, NEW b \in Buttons, pressed[b] # NoRequest, pressed[b].answer = "none",
         UNCHANGED <<bookmark, formPage, field, status, sent, queued, poll, saving, again, saved>>,
         gone \subseteq gone', gone' \subseteq Captures,
         Served(b)
  PROVE  FormInv'
<1>. DEFINE c == pressed[b].capture
<1>1. /\ FormTypeOK /\ FragmentInv /\ c \in Captures
      /\ UNCHANGED <<bookmark, formPage, url, last, held, shown, original, sent, queued, poll, saving, again, saved>>
  BY DEF FormInv, FormTypeOK, ButtonRequest, field, status
<1>. HIDE DEF c
<1>. DEFINE Replied == /\ pressed'[b] # NoRequest /\ pressed'[b].capture = c /\ pressed'[b].answer = c
                       /\ pressed'[b].attached = pressed[b].attached
                       /\ pressed'[b].state = draft'[c].state /\ unseen' = unseen
            Dropped == /\ pressed'[b] = NoRequest
                       /\ (draft' = draft /\ unseen' = unseen) \/ unseen' = unseen \cup {c}
<1>2. /\ pressed' \in [Buttons -> ButtonRequest \cup {NoRequest}]
      /\ \A o \in Buttons \ {b} : pressed'[o] = pressed[o]
      /\ Replied \/ Dropped
  <2>1. CASE Refuse(b) /\ ((draft' = draft /\ unseen' = unseen) \/ unseen' = unseen \cup {c})
    BY <1>1, <2>1 DEF Refuse, FormTypeOK
  <2>2. ASSUME NEW s \in States \ {"none"}, Store(b, s)
        PROVE  /\ pressed' \in [Buttons -> ButtonRequest \cup {NoRequest}]
               /\ \A o \in Buttons \ {b} : pressed'[o] = pressed[o]
               /\ Replied
    <3>1. draft'[c].state = s /\ unseen' = unseen
      BY <1>1, <2>2, StateStored DEF Store, c
    <3>. QED
      BY <1>1, <2>2, <3>1, ReplyAnswers DEF Store, c
  <2>. QED
    BY <2>1, <2>2 DEF Served, Reject, Lose, c
<1>. DEFINE OneStored ==
       /\ draft' \in [Captures -> [url : Urls \cup {NoUrl}, state : States]]
       /\ \A d \in Captures \ {c} : draft'[d] = draft[d]
       /\ draft'[c].url = draft[c].url
       /\ draft[c].state = "capturing" => draft'[c].state = "capturing"
       /\ draft[c].state # "none" /\ draft'[c].state # "none"
       /\ unseen \subseteq unseen' /\ unseen' \subseteq unseen \cup {c}
<1>3. OneStored
  <2>1. draft[c].state # "none"
    BY <1>1 DEF FragmentInv, ButtonsAreSound, ButtonIsSound, c
  <2>2. CASE Reject(b)
    BY <1>1, <2>1, <2>2 DEF Reject, FormTypeOK
  <2>3. ASSUME NEW t \in States \ {"none"}, Store(b, t) \/ Lose(b, t), draft[c].state \in {"ready", "failed"}
        PROVE  OneStored
    BY <1>1, <2>1, <2>3, StateStored DEF Store, Lose, c
  <2>. QED
    BY <2>2, <2>3 DEF Served, c
<1>5. FormTypeOK'
  BY <1>1, <1>3, <1>2 DEF FormTypeOK
<1>6. SavedInv'
  BY <1>1, <1>3, SavedKept
<1>7. HeldIsStored' /\ QueuedWaits' /\ OriginalIsEmpty'
  BY <1>1, <1>3, <1>2 DEF FragmentInv, HeldIsStored, QueuedWaits, OriginalIsEmpty
<1>8. ButtonIsSound(b) /\ ~Tells(b)
  BY <1>1, FormAssumption DEF FragmentInv, ButtonsAreSound, Tells, c
<1>9. FragmentIsTrue'
  <2>. SUFFICES ASSUME held \in Captures, held \notin unseen'
       PROVE  shown = draft'[held].state \/ \E o \in Buttons : Tells(o)'
    BY <1>1 DEF FragmentIsTrue
  <2>1. shown = draft[held].state \/ \E o \in Buttons \ {b} : Tells(o)
    BY <1>1, <1>3, <1>8 DEF FragmentInv, FragmentIsTrue
  <2>2. CASE Dropped \/ held # c
    <3>1. draft'[held] = draft[held]
      BY <1>3, <2>2
    <3>. QED
      BY <1>2, <2>1, <3>1 DEF Tells
  <2>3. CASE Replied /\ held = c
    <3>1. pressed[b].attached
      BY <1>3, <1>8, <2>3 DEF ButtonIsSound, c
    <3>. QED
      BY <2>3, <3>1 DEF Tells
  <2>. QED
    BY <1>2, <2>2, <2>3
<1>10. ButtonIsSound(b)'
  <2>1. CASE Dropped
    BY <2>1 DEF ButtonIsSound
  <2>2. CASE Replied
    <3>1. /\ c \notin unseen => \A o \in Buttons \ {b} : pressed[o] # NoRequest => pressed[o].capture # c
          /\ pressed[b].attached => c = held /\ shown \in {"ready", "failed"}
          /\ c \notin unseen => pressed[b].attached \/ c # held
      BY <1>8 DEF ButtonIsSound, c
    <3>. QED
      BY <1>1, <1>2, <1>3, <2>2, <3>1 DEF ButtonIsSound
  <2>. QED
    BY <1>2, <2>1, <2>2
<1>11. ASSUME NEW o \in Buttons \ {b} PROVE ButtonIsSound(o)'
  <2>1. ButtonIsSound(o) /\ (pressed[o] # NoRequest => pressed[o].capture \in Captures)
    BY <1>1 DEF FragmentInv, ButtonsAreSound, FormTypeOK, ButtonRequest
  <2>2. CASE pressed[o] # NoRequest /\ pressed[o].capture = c
    <3>1. c \in unseen'
      BY <1>3, <1>8, <2>2 DEF ButtonIsSound, c
    <3>2. /\ draft'[c].state # "none"
          /\ pressed[o].answer = c /\ pressed[o].state = "capturing" => draft'[c].state = "capturing"
      BY <1>3, <2>1, <2>2 DEF ButtonIsSound
    <3>. QED
      BY <1>1, <1>2, <2>1, <2>2, <3>1, <3>2 DEF ButtonIsSound
  <2>3. CASE pressed[o] # NoRequest /\ pressed[o].capture # c
    <3>1. /\ pressed[o].capture \notin unseen' => pressed[o].capture \notin unseen
          /\ draft'[pressed[o].capture] = draft[pressed[o].capture]
      BY <1>3, <2>1, <2>3
    <3>. QED
      BY <1>1, <1>2, <2>1, <2>3, <3>1 DEF ButtonIsSound
  <2>4. CASE pressed[o] = NoRequest
    BY <1>2, <2>4 DEF ButtonIsSound
  <2>. QED
    BY <2>2, <2>3, <2>4
<1>12. SentIsNew'
  <2>1. sent # NoRequest /\ sent.answer \in Captures => sent.answer # c
    BY <1>1 DEF FragmentInv, SentIsNew, c
  <2>. QED
    BY <1>1, <1>3, <1>2, <2>1 DEF FragmentInv, SentIsNew
<1>13. PollsAreSound' /\ CapturingIsTrue'
  <2>1. /\ \A d \in Captures : draft[d].state = "capturing" => draft'[d].state = "capturing"
        /\ unseen \subseteq unseen'
    BY <1>3
  <2>3. \A d \in Captures : poll'[d] \in {poll[d], NoRequest}
    BY <1>1
  <2>2. \A o \in Buttons : pressed'[o] # NoRequest =>
                            pressed[o] # NoRequest /\ pressed'[o].capture = pressed[o].capture
    BY <1>2 DEF c
  <2>. QED
    BY <1>1, <2>1, <2>2, <2>3, PollsKept DEF FragmentInv
<1>. QED
  BY <1>5, <1>6, <1>7, <1>9, <1>10, <1>11, <1>12, <1>13 DEF FormInv, SavedInv, FragmentInv, ButtonsAreSound

LEMMA FormStepServed ==
  ASSUME FormInv, Retry \/ Discard
  PROVE  FormInv'
<1>1. gone \subseteq Captures
  BY DEF FormInv, FormTypeOK
<1>2. CASE Retry
  <2>1. /\ "retry" \in Buttons /\ pressed["retry"] # NoRequest /\ pressed["retry"].answer = "none"
        /\ UNCHANGED <<bookmark, formPage, field, status, sent, queued, poll, saving, again, gone, saved>>
    BY <1>2 DEF Retry, InFlight, Buttons
  <2>2. Served("retry")
    BY <1>2 DEF Retry, Served, Outcomes, States
  <2>. QED
    BY <1>1, <2>1, <2>2, ButtonServed
<1>3. CASE Discard
  <2>1. /\ "discard" \in Buttons /\ pressed["discard"] # NoRequest /\ pressed["discard"].answer = "none"
        /\ UNCHANGED <<bookmark, formPage, field, status, sent, queued, poll, saving, again, saved>>
    BY <1>3 DEF Discard, InFlight, Buttons
  <2>2. Served("discard")
    BY <1>3 DEF Discard, CanDiscard, Served, States
  <2>3. gone \subseteq gone' /\ gone' \subseteq Captures
    <3>1. pressed["discard"].capture \in Captures
      BY <2>1 DEF FormInv, FormTypeOK, ButtonRequest
    <3>. QED
      BY <1>1, <1>3, <3>1 DEF Discard, RemoveStaged
  <2>. QED
    BY <2>1, <2>2, <2>3, ButtonServed
<1>. QED
  BY <1>2, <1>3

LEMMA FormStepButtonAnswered ==
  ASSUME FormInv, NEW b \in Buttons, ButtonAnswered(b)
  PROVE  FormInv'
<1>1. /\ FormTypeOK /\ FragmentInv /\ pressed[b] # NoRequest /\ pressed[b].answer # "none"
      /\ pressed[b] \in ButtonRequest
      /\ UNCHANGED <<bookmark, formPage, url, last, poll, saving, again, draft, gone, saved, unseen>>
  BY DEF ButtonAnswered, FormInv, FormTypeOK, Answered, field, tables
<1>2. SavedInv'
  BY <1>1, SavedKept
<1>3. ButtonIsSound(b) /\ pressed[b].capture \in Captures /\ pressed[b].state \in States
  BY <1>1 DEF FragmentInv, ButtonsAreSound, ButtonRequest
<1>4. CASE pressed[b].attached
  <2>1. /\ held' = pressed[b].answer /\ shown' = pressed[b].state /\ original' = FALSE
        /\ sent' = Detached(sent) /\ queued' = Detached(queued)
        /\ pressed' = [o \in Buttons |-> IF o = b THEN NoRequest ELSE Detached(pressed[o])]
    BY <1>4 DEF ButtonAnswered, Swap
  <2>2. pressed[b].answer = pressed[b].capture /\ pressed[b].capture = held
    BY <1>1, <1>3, <1>4 DEF ButtonIsSound
  <2>3. /\ sent' \in StartRequest \cup {NoRequest} /\ queued' \in StartRequest \cup {NoRequest}
        /\ (sent' = NoRequest <=> sent = NoRequest) /\ (queued' = NoRequest <=> queued = NoRequest)
        /\ sent # NoRequest => sent'.answer = sent.answer /\ sent'.state = sent.state
        /\ queued # NoRequest => queued'.answer = queued.answer
    <3>1. sent \in StartRequest \cup {NoRequest} /\ queued \in StartRequest \cup {NoRequest}
      BY <1>1 DEF FormTypeOK
    <3>. QED
      BY <2>1, <3>1, DetachedStart
  <2>4. ASSUME NEW o \in Buttons
        PROVE  /\ pressed'[o] \in ButtonRequest \cup {NoRequest}
               /\ pressed[o] = NoRequest => pressed'[o] = NoRequest
               /\ pressed'[o] # NoRequest =>
                    /\ o # b /\ pressed[o] # NoRequest /\ pressed'[o].capture = pressed[o].capture
                    /\ pressed'[o].answer = pressed[o].answer /\ pressed'[o].state = pressed[o].state
                    /\ ~pressed'[o].attached
    <3>1. /\ pressed[o] \in ButtonRequest \cup {NoRequest}
          /\ pressed'[o] = IF o = b THEN NoRequest ELSE Detached(pressed[o])
      BY <1>1, <2>1 DEF FormTypeOK
    <3>. QED
      BY <3>1, DetachedButton
  <2>5. FormTypeOK'
    <3>1. pressed' \in [Buttons -> ButtonRequest \cup {NoRequest}]
      BY <2>1, <2>4
    <3>. QED
      BY <1>1, <1>3, <2>1, <2>2, <2>3, <3>1 DEF FormTypeOK
  <2>6. held \notin unseen => \A o \in Buttons : pressed'[o] # NoRequest => pressed[o].capture # held
    BY <1>1, <1>3, <2>2, <2>4 DEF ButtonIsSound
  <2>7. /\ draft[held].state # "none"
        /\ held \notin unseen => pressed[b].state = draft[held].state
        /\ pressed[b].state = "capturing" => draft[held].state = "capturing"
        /\ shown \in {"ready", "failed"}
    BY <1>1, <1>3, <1>4, <2>2 DEF ButtonIsSound
  <2>10. \A d \in Captures : poll'[d] # NoRequest => poll'[d] = poll[d] /\ d # held
    BY <1>1, <2>7 DEF FragmentInv, PollsAreSound, PollIsSound
  <2>8. /\ queued # NoRequest => queued.answer = "none"
        /\ sent # NoRequest /\ sent.answer \in Captures => sent.answer # held
    BY <1>1 DEF FragmentInv, QueuedWaits, SentIsNew
  <2>9. FragmentInv'
    BY <1>1, <1>3, <2>1, <2>2, <2>3, <2>4, <2>6, <2>7, <2>8, <2>10, SwapKeeps
  <2>. QED
    BY <1>2, <2>5, <2>9 DEF FormInv, SavedInv
<1>5. CASE ~pressed[b].attached
  <2>1. pressed' = [pressed EXCEPT ![b] = NoRequest] /\ UNCHANGED <<held, shown, original, sent, queued>>
    BY <1>5 DEF ButtonAnswered, status
  <2>2. pressed'[b] = NoRequest /\ \A o \in Buttons \ {b} : pressed'[o] = pressed[o]
    BY <1>1, <2>1 DEF FormTypeOK
  <2>3. ~Tells(b)
    BY <1>5 DEF Tells
  <2>4. FormTypeOK'
    BY <1>1, <2>1 DEF FormTypeOK
  <2>5. FragmentIsTrue' /\ ButtonsAreSound' /\ SentIsNew' /\ QueuedWaits' /\ HeldIsStored' /\ OriginalIsEmpty'
    BY <1>1, <2>1, <2>2, <2>3
       DEF FragmentInv, FragmentIsTrue, Tells, ButtonsAreSound, ButtonIsSound, SentIsNew, QueuedWaits, HeldIsStored,
           OriginalIsEmpty
  <2>6. PollsAreSound' /\ CapturingIsTrue'
    BY <1>1, <2>1, <2>2, PollsKept DEF FragmentInv
  <2>. QED
    BY <1>2, <2>4, <2>5, <2>6 DEF FormInv, SavedInv, FragmentInv
<1>. QED
  BY <1>4, <1>5

-----------------------------------------------------------------------------
(* Saving.                                                                 *)

\* What one more bookmark must be for what was saved to stay right.
LEMMA SavedMore ==
  ASSUME FormInv, NEW w \in Written, saved' = Append(saved, w), UNCHANGED bookmark,
         \A c \in Captures : draft'[c].url = draft[c].url, gone \subseteq gone',
         w.shot \in Captures => draft[w.shot].url = w.url /\ w.shot \notin gone /\ w.shot \in gone',
         w.shot = "kept" => w.url = Current
  PROVE  SavedInv' /\ saved' \in Seq(Written) /\ saved' # <<>>
<1>. DEFINE n == Len(saved)
<1>1. saved \in Seq(Written) /\ n \in Nat /\ DOMAIN saved = 1..n
  <2>1. saved \in Seq(Written)
    BY DEF FormInv, FormTypeOK
  <2>. QED
    BY <2>1, LenProperties
<1>2. /\ saved' \in Seq(Written) /\ saved' # <<>> /\ DOMAIN saved' = 1..n+1
      /\ \A i \in 1..n : saved'[i] = saved[i]
      /\ saved'[n + 1] = w
  <2>1. /\ saved' \in Seq(Written) /\ saved' # <<>> /\ Len(saved') = n + 1
        /\ \A i \in 1..n : saved'[i] = saved[i]
        /\ saved'[n + 1] = w
    BY <1>1, AppendProperties
  <2>. QED
    BY <2>1, LenProperties
<1>3. saved = <<>> <=> n = 0
  BY <1>1
<1>4. SavedInv
  BY DEF FormInv, SavedInv
<1>5. w.shot = "kept" => w.url = IF n + 1 = 1 THEN bookmark ELSE saved[n].url
  BY <1>1, <1>3 DEF Current
<1>. HIDE DEF n
<1>6. ASSUME NEW i \in 1..n
      PROVE  /\ saved[i].shot \in Captures =>
                  draft[saved[i].shot].url = saved[i].url /\ saved[i].shot \in gone
             /\ saved[i].shot = "kept" => saved[i].url = IF i = 1 THEN bookmark ELSE saved[i - 1].url
  BY <1>1, <1>4 DEF SavedInv, ShotIsOfSavedUrl, ShotsGone
<1>7. ASSUME NEW i \in 1..n+1
      PROVE  /\ saved'[i].shot \in Captures =>
                  draft'[saved'[i].shot].url = saved'[i].url /\ saved'[i].shot \in gone'
             /\ saved'[i].shot = "kept" => saved'[i].url = IF i = 1 THEN bookmark ELSE saved'[i - 1].url
  <2>1. CASE i \in 1..n
    <3>1. saved'[i] = saved[i] /\ (i # 1 => i - 1 \in 1..n)
      BY <1>1, <1>2, <2>1
    <3>2. i # 1 => saved'[i - 1] = saved[i - 1]
      BY <1>2, <3>1
    <3>3. saved'[i].shot \in Captures =>
            draft[saved'[i].shot].url = saved'[i].url /\ saved'[i].shot \in gone
      BY <1>6, <2>1, <3>1
    <3>4. saved'[i].shot = "kept" => saved'[i].url = IF i = 1 THEN bookmark ELSE saved[i - 1].url
      BY <1>6, <2>1, <3>1
    <3>. QED
      BY <3>2, <3>3, <3>4
  <2>2. CASE i = n + 1
    <3>1. i # 1 => n \in 1..n /\ i - 1 = n
      BY <1>1, <2>2
    <3>2. i # 1 => saved'[i - 1] = saved[n]
      BY <1>2, <3>1
    <3>. QED
      BY <1>2, <1>5, <2>2, <3>2
  <2>. QED
    BY <1>1, <2>1, <2>2
<1>8. ShotIsOfSavedUrl' /\ ShotsGone'
  BY <1>2, <1>7 DEF ShotIsOfSavedUrl, ShotsGone
<1>9. CaptureSavedOnce'
  <2>. SUFFICES ASSUME NEW i \in 1..n+1, NEW j \in 1..n+1,
                       saved'[i].shot \in Captures, saved'[i].shot = saved'[j].shot
       PROVE  i = j
    BY <1>2 DEF CaptureSavedOnce
  <2>1. CASE i \in 1..n /\ j \in 1..n
    BY <1>1, <1>2, <1>4, <2>1 DEF SavedInv, CaptureSavedOnce
  <2>2. CASE i \in 1..n /\ j = n + 1
    BY <1>2, <1>6, <2>2
  <2>3. CASE i = n + 1 /\ j \in 1..n
    BY <1>2, <1>6, <2>3
  <2>. QED
    BY <1>1, <2>1, <2>2, <2>3
<1>. QED
  BY <1>2, <1>8, <1>9 DEF SavedInv

\* What a save does to the captures: it consumes a ready one, or none.
ConsumesReady ==
  \/ UNCHANGED <<draft, unseen>>
  \/ \E c \in Captures : draft[c].state = "ready" /\ Put(c, "consumed") /\ unseen' = unseen \cup {c}

\* What it writes: a screenshot of its URL whose file it renames, the screenshot of a
\* bookmark whose URL is the one of before, or none.
Own(shot) ==
  /\ shot \in Captures => draft[shot].url = saving.url /\ shot \notin gone /\ shot \in gone'
  /\ shot = "kept" => saving.url = Current

WritesOwn == Refuses \/ \E shot \in Captures \cup {NoCapture, "kept"} : Writes(shot) /\ Own(shot)

LEMMA SaveEffect ==
  ASSUME FormInv, Save
  PROVE  ConsumesReady /\ WritesOwn /\ gone \subseteq gone' /\ gone' \subseteq Captures
<1>. DEFINE c == saving.capture
<1>1. gone \subseteq Captures
  BY DEF FormInv, FormTypeOK
<1>2. CASE Usable(c)
  <2>1. c \in Captures /\ draft[c].url = saving.url /\ draft[c].state = "ready"
    BY <1>2 DEF Usable, IsOf, CanConsume
  <2>2. \/ Refuses /\ TouchesNoCapture
        \/ /\ Promote(c) /\ (Consume(c) \/ UNCHANGED <<draft, unseen>>)
           /\ Writes(c) \/ Refuses
    BY <1>2 DEF Save, Create, Update
  <2>3. CASE /\ Promote(c) /\ (Consume(c) \/ UNCHANGED <<draft, unseen>>)
             /\ Writes(c) \/ Refuses
    <3>1. ConsumesReady
      BY <2>1, <2>3 DEF ConsumesReady, Consume
    <3>2. Own(c)
      BY <2>1, <2>3, FormAssumption DEF Own, Promote
    <3>3. WritesOwn
      BY <2>1, <2>3, <3>2 DEF WritesOwn
    <3>. QED
      BY <1>1, <2>1, <2>3, <3>1, <3>3 DEF Promote
  <2>4. CASE Refuses /\ TouchesNoCapture
    BY <1>1, <2>4 DEF ConsumesReady, WritesOwn, TouchesNoCapture
  <2>. QED
    BY <2>2, <2>3, <2>4
<1>3. CASE ~Usable(c)
  <2>1. TouchesNoCapture
    BY <1>3 DEF Save, Create, Update
  <2>2. WritesOwn
    <3>1. \/ Refuses
          \/ Writes(NoCapture)
          \/ Writes("kept") /\ saving.url = Current
      BY <1>3 DEF Save, Create, Update
    <3>2. Own(NoCapture) /\ (saving.url = Current => Own("kept"))
      BY FormAssumption DEF Own
    <3>. QED
      BY <3>1, <3>2 DEF WritesOwn
  <2>. QED
    BY <1>1, <2>1, <2>2 DEF ConsumesReady, TouchesNoCapture
<1>. QED
  BY <1>2, <1>3

\* A capture that is consumed is one of which the page is not told.
LEMMA ConsumedKeeps ==
  ASSUME FormInv, ConsumesReady, UNCHANGED <<held, shown, original, sent, queued, pressed, poll>>
  PROVE  /\ FragmentInv'
         /\ draft' \in [Captures -> [url : Urls \cup {NoUrl}, state : States]] /\ unseen' \subseteq Captures
         /\ \A c \in Captures : draft'[c].url = draft[c].url
<1>1. FormTypeOK /\ FragmentInv
  BY DEF FormInv
<1>2. CASE UNCHANGED <<draft, unseen>>
  BY <1>1, <1>2, FragmentKept DEF fragment, FormTypeOK
<1>3. ASSUME NEW c \in Captures, draft[c].state = "ready", Put(c, "consumed"), unseen' = unseen \cup {c}
      PROVE  /\ FragmentInv'
             /\ draft' \in [Captures -> [url : Urls \cup {NoUrl}, state : States]] /\ unseen' \subseteq Captures
             /\ \A d \in Captures : draft'[d].url = draft[d].url
  <2>1. /\ draft' \in [Captures -> [url : Urls \cup {NoUrl}, state : States]]
        /\ \A d \in Captures \ {c} : draft'[d] = draft[d]
        /\ draft'[c].url = draft[c].url /\ draft'[c].state = "consumed"
    BY <1>1, <1>3, StateStored DEF States
  <2>2. \A d \in Captures : /\ draft'[d].url = draft[d].url
                            /\ draft[d].state = "capturing" => draft'[d].state = "capturing"
                            /\ draft[d].state # "none" => draft'[d].state # "none"
    BY <1>3, <2>1
  <2>3. PollsAreSound' /\ CapturingIsTrue'
    BY <1>1, <1>3, <2>2, PollsKept DEF FragmentInv
  <2>4. ASSUME NEW b \in Buttons PROVE ButtonIsSound(b)'
    <3>1. ButtonIsSound(b) /\ (pressed[b] # NoRequest => pressed[b].capture \in Captures)
      BY <1>1 DEF FragmentInv, ButtonsAreSound, FormTypeOK, ButtonRequest
    <3>. QED
      BY <1>3, <2>1, <2>2, <3>1 DEF ButtonIsSound
  <2>5. SentIsNew' /\ FragmentIsTrue' /\ QueuedWaits' /\ HeldIsStored' /\ OriginalIsEmpty'
    BY <1>1, <1>3, <2>1, <2>2
       DEF FragmentInv, FragmentIsTrue, Tells, SentIsNew, QueuedWaits, HeldIsStored, OriginalIsEmpty
  <2>. QED
    BY <1>1, <1>3, <2>1, <2>2, <2>3, <2>4, <2>5 DEF FragmentInv, ButtonsAreSound, FormTypeOK
<1>. QED
  BY <1>2, <1>3 DEF ConsumesReady

LEMMA FormStepSave ==
  ASSUME FormInv, Save
  PROVE  FormInv'
<1>1. /\ FormTypeOK /\ FragmentInv /\ saving \in SaveRequest
      /\ UNCHANGED <<bookmark, formPage, url, last, held, shown, original, sent, queued, pressed, poll, again>>
  BY DEF Save, FormInv, FormTypeOK, InFlight, SaveAnswer, field, status
<1>2. ConsumesReady /\ WritesOwn /\ gone \subseteq gone' /\ gone' \subseteq Captures
  BY SaveEffect
<1>3. /\ FragmentInv'
      /\ draft' \in [Captures -> [url : Urls \cup {NoUrl}, state : States]] /\ unseen' \subseteq Captures
      /\ \A c \in Captures : draft'[c].url = draft[c].url
  BY <1>1, <1>2, ConsumedKeeps
<1>4. ASSUME NEW a \in {"accepted", "refused"}, saving' = [answer |-> a]
      PROVE  saving' \in SaveRequest \cup SaveAnswer \cup {NoRequest}
  BY <1>4 DEF SaveAnswer
<1>5. SavedInv' /\ saved' \in Seq(Written) /\ saving' \in SaveRequest \cup SaveAnswer \cup {NoRequest}
  <2>1. CASE Refuses
    <3>1. SavedInv'
      BY <1>1, <1>2, <1>3, <2>1, SavedKept DEF Refuses
    <3>. QED
      BY <1>1, <1>4, <2>1, <3>1 DEF Refuses, FormTypeOK
  <2>2. ASSUME NEW shot \in Captures \cup {NoCapture, "kept"}, Writes(shot), Own(shot)
        PROVE  SavedInv' /\ saved' \in Seq(Written) /\ saving' \in SaveRequest \cup SaveAnswer \cup {NoRequest}
    <3>. DEFINE w == [url |-> saving.url, shot |-> shot]
    <3>1. w \in Written /\ w.url = saving.url /\ w.shot = shot
      BY <1>1 DEF Written, SaveRequest
    <3>2. saved' = Append(saved, w) /\ saving' = [answer |-> "accepted"]
      BY <2>2 DEF Writes
    <3>. HIDE DEF w
    <3>3. SavedInv' /\ saved' \in Seq(Written)
      BY <1>1, <1>2, <1>3, <2>2, <3>1, <3>2, SavedMore DEF Own
    <3>. QED
      BY <1>4, <3>2, <3>3
  <2>. QED
    BY <1>2, <2>1, <2>2 DEF WritesOwn
<1>6. FormTypeOK'
  BY <1>1, <1>2, <1>3, <1>5 DEF FormTypeOK
<1>. QED
  BY <1>3, <1>5, <1>6 DEF FormInv, SavedInv

\* The request that a submit sends.
LEMMA SavingSent ==
  ASSUME FormTypeOK, NEW w \in BOOLEAN, url # NoUrl
  PROVE  Values(w) \in SaveRequest
BY DEF FormTypeOK, Values, SaveRequest

\* A submit, and an answer that leaves the page open, change nothing of the fragment.
LEMMA FormStepSubmit ==
  ASSUME FormInv, (\E w \in BOOLEAN : Submit(w)) \/ (SaveAnswered /\ saving.answer # "accepted")
  PROVE  FormInv'
<1>1. /\ FormTypeOK /\ FragmentInv /\ UNCHANGED <<bookmark, formPage, url, last, poll, gone, saved>>
      /\ UNCHANGED fragment /\ again' \in BOOLEAN
  BY DEF FormInv, FormTypeOK, Submit, SaveAnswered, field, status, fragment, tables
<1>2. saving' \in SaveRequest \cup SaveAnswer \cup {NoRequest}
  BY <1>1, SavingSent DEF Submit, SaveAnswered, FormTypeOK
<1>3. FormTypeOK'
  BY <1>1, <1>2 DEF FormTypeOK, fragment
<1>4. FragmentInv' /\ SavedInv'
  BY <1>1, FragmentKept, SavedKept DEF fragment
<1>. QED
  BY <1>3, <1>4 DEF FormInv, SavedInv

\* A page that is left has no fragment; what it asked for has no target any more.
LEMMA FormStepLeave ==
  ASSUME FormInv, SaveAnswered, saving.answer = "accepted"
  PROVE  FormInv'
<1>1. /\ FormTypeOK /\ FragmentInv /\ UNCHANGED <<bookmark, draft, gone, saved, unseen>>
      /\ formPage' = "left" /\ url' = NoUrl /\ last' = NoUrl /\ again' = FALSE
      /\ held' = NoCapture /\ shown' = "pending" /\ original' = FALSE
      /\ sent' = Detached(sent) /\ queued' = NoRequest
      /\ pressed' = [b \in Buttons |-> Detached(pressed[b])]
      /\ poll' = [c \in Captures |-> NoRequest]
  <2>1. FormTypeOK /\ FragmentInv /\ UNCHANGED <<bookmark, draft, gone, saved, unseen>> /\ again' = FALSE
    BY DEF FormInv, SaveAnswered, tables
  <2>2. /\ formPage' = "left" /\ url' = NoUrl /\ last' = NoUrl
        /\ held' = NoCapture /\ shown' = "pending" /\ original' = FALSE
        /\ sent' = Detached(sent) /\ queued' = NoRequest
        /\ pressed' = [b \in Buttons |-> Detached(pressed[b])]
        /\ poll' = [c \in Captures |-> NoRequest]
    BY DEF SaveAnswered, LeavePage
  <2>. QED
    BY <2>1, <2>2
<1>2. saving' \in SaveRequest \cup SaveAnswer \cup {NoRequest}
  BY <1>1, SavingSent DEF SaveAnswered
<1>3. /\ sent' \in StartRequest \cup {NoRequest} /\ (sent' = NoRequest <=> sent = NoRequest)
      /\ sent # NoRequest => sent'.answer = sent.answer /\ sent'.state = sent.state
  <2>1. sent \in StartRequest \cup {NoRequest}
    BY <1>1 DEF FormTypeOK
  <2>. QED
    BY <1>1, <2>1, DetachedStart
<1>4. FormTypeOK'
  BY <1>1, <1>2, <1>3, AllDetached DEF FormTypeOK
<1>5. NoCapture \notin Captures
  BY FormAssumption
<1>6. ASSUME NEW b \in Buttons PROVE ButtonIsSound(b)'
  <2>1. ButtonIsSound(b) /\ (pressed[b] # NoRequest => pressed[b].capture \in Captures)
    BY <1>1 DEF FragmentInv, ButtonsAreSound, FormTypeOK, ButtonRequest
  <2>. QED
    BY <1>1, <1>5, <2>1, AllDetached DEF ButtonIsSound
<1>7. SentIsNew'
  <2>. SUFFICES ASSUME sent' # NoRequest, sent'.answer \in Captures PROVE SentIsNew'
    BY DEF SentIsNew
  <2>. QED
    BY <1>1, <1>3, <1>5, AllDetached DEF FragmentInv, SentIsNew
<1>8. FragmentInv'
  BY <1>1, <1>5, <1>6, <1>7
     DEF FragmentInv, FragmentIsTrue, CapturingIsTrue, ButtonsAreSound, PollsAreSound, PollIsSound, QueuedWaits,
         HeldIsStored, OriginalIsEmpty
<1>9. SavedInv'
  BY <1>1, SavedKept
<1>. QED
  BY <1>4, <1>8, <1>9 DEF FormInv, SavedInv

-----------------------------------------------------------------------------
LEMMA FormStepInv == FormInv /\ [FormNext]_formVars => FormInv'
<1>. SUFFICES ASSUME FormInv, [FormNext]_formVars PROVE FormInv'
  OBVIOUS
<1>1. CASE UNCHANGED formVars
  <2>1. FormTypeOK /\ FragmentInv
    BY DEF FormInv
  <2>2. FormTypeOK'
    BY <1>1, <2>1 DEF FormTypeOK, formVars, field, status, tables
  <2>3. FragmentInv' /\ SavedInv'
    BY <1>1, <2>1, FragmentKept, SavedKept DEF fragment, formVars, field, status, tables
  <2>. QED
    BY <2>2, <2>3 DEF FormInv, SavedInv
<1>2. CASE FormNext
  BY <1>2, FormStepChangeUrl, FormStepStart, FormStepStartAnswered, FormStepPoll, FormStepPollAnswered,
     FormStepPress, FormStepServed, FormStepButtonAnswered, FormStepSave, FormStepSubmit, FormStepLeave
     DEF FormNext
<1>. QED
  BY <1>1, <1>2

LEMMA FormInvHolds == FormSpec => []FormInv
BY FormInitInv, FormStepInv, PTL DEF FormSpec

\* However changes, answers, buttons and saves overlap, and whatever the server refuses:
\* a bookmark is saved with a screenshot of its own URL, and each capture goes into
\* one bookmark at most (usecase/create.go:95-112, usecase/update.go:69-71).
THEOREM ShotsAreOwn == FormSpec => []ShotsBelong
<1>1. FormInv => ShotsBelong
  BY DEF FormInv, ShotsBelong
<1>. QED
  BY <1>1, FormInvHolds, PTL

\* When no capture and no button is under way, the fragment offers the buttons that the
\* server accepts: it shows what is stored, unless both buttons were pressed together,
\* or a save or an error changed the draft behind it (fragments/capture.html,
\* js/bookmark-form.js).
THEOREM FragmentsShowWhatIsStored == FormSpec => []ShownIsStored
<1>1. FormInv => ShownIsStored
  BY DEF FormInv, FragmentInv, FragmentIsTrue, Tells, ShownIsStored, Settled
<1>. QED
  BY <1>1, FormInvHolds, PTL

\* A larger factor makes a larger product.
LEMMA Multiples ==
  ASSUME NEW a \in Int, NEW b \in Int, NEW n \in Nat, a < b
  PROVE  a * n + n <= b * n
<1>1. PICK d \in Nat : b = a + 1 + d
  <2>1. b - a - 1 \in Nat /\ b = a + 1 + (b - a - 1)
    OBVIOUS
  <2>. QED
    BY <2>1
<1>2. b * n = a * n + n + d * n
  BY <1>1
<1>3. d * n \in Nat
  OBVIOUS
<1>. QED
  BY <1>2, <1>3

LEMMA Quotient ==
  ASSUME NEW a \in Nat, NEW n \in Nat \ {0}
  PROVE  /\ a \div n \in Nat
         /\ (a \div n) * n <= a /\ a < (a \div n) * n + n
  OBVIOUS

LEMMA QuotientIs ==
  ASSUME NEW a \in Nat, NEW n \in Nat \ {0}, NEW q \in Int, q * n <= a, a < q * n + n
  PROVE  a \div n = q
<1>. DEFINE d == a \div n
<1>1. d \in Nat /\ d * n <= a /\ a < d * n + n
  BY Quotient
<1>. HIDE DEF d
<1>2. d * n \in Int /\ q * n \in Int
  BY <1>1
<1>3. ~(d < q)
  <2>1. SUFFICES ASSUME d < q PROVE FALSE
    OBVIOUS
  <2>2. d * n + n <= q * n
    BY <1>1, <2>1, Multiples
  <2>. QED
    BY <1>1, <1>2, <2>2
<1>4. ~(q < d)
  <2>1. SUFFICES ASSUME q < d PROVE FALSE
    OBVIOUS
  <2>2. q * n + n <= d * n
    BY <1>1, <2>1, Multiples
  <2>. QED
    BY <1>1, <1>2, <2>2
<1>. QED
  BY <1>1, <1>3, <1>4 DEF d

\* The pages hold the collection, and none but a single one is empty.
LEMMA LastPageHolds ==
  ASSUME NEW total \in Nat, NEW size \in Nat \ {0}
  PROVE  /\ LastPage(total, size) \in Nat \ {0}
         /\ total <= LastPage(total, size) * size
         /\ LastPage(total, size) = 1 \/ (LastPage(total, size) - 1) * size < total
<1>. DEFINE q == (total + size - 1) \div size
<1>1. q \in Nat /\ q * size <= total + size - 1 /\ total + size - 1 < q * size + size
  BY Quotient
<1>. HIDE DEF q
<1>2. (q - 1) * size = q * size - size /\ q * size \in Nat
  BY <1>1
<1>3. CASE total > 0
  <2>1. q # 0
    BY <1>1, <1>3
  <2>2. LastPage(total, size) = q
    BY <1>3 DEF LastPage, q
  <2>3. total <= q * size /\ (q - 1) * size < total
    BY <1>1, <1>2
  <2>. QED
    BY <1>1, <2>1, <2>2, <2>3
<1>4. CASE total = 0
  BY <1>4 DEF LastPage
<1>. QED
  BY <1>3, <1>4

\* The last page of a larger collection is no smaller.
LEMMA LastPageGrows ==
  ASSUME NEW total \in Nat, NEW later \in Nat, NEW size \in Nat \ {0}, total <= later
  PROVE  LastPage(total, size) <= LastPage(later, size)
<1>. DEFINE l == LastPage(total, size)
            m == LastPage(later, size)
<1>1. l \in Nat \ {0} /\ (l = 1 \/ (l - 1) * size < total)
  BY LastPageHolds
<1>2. m \in Nat \ {0} /\ later <= m * size
  BY LastPageHolds
<1>. HIDE DEF l, m
<1>3. SUFFICES ASSUME m < l PROVE FALSE
  BY <1>1, <1>2 DEF l, m
<1>4. (l - 1) * size < total
  BY <1>1, <1>2, <1>3
<1>5. m * size <= (l - 1) * size
  <2>1. m = l - 1 \/ m < l - 1
    BY <1>1, <1>2, <1>3
  <2>2. m < l - 1 => m * size + size <= (l - 1) * size
    BY <1>1, <1>2, Multiples
  <2>3. m * size \in Int /\ (l - 1) * size \in Int
    BY <1>1, <1>2
  <2>. QED
    BY <2>1, <2>2, <2>3
<1>6. m * size \in Int /\ (l - 1) * size \in Int
  BY <1>1, <1>2
<1>. QED
  BY <1>2, <1>4, <1>5, <1>6

LEMMA ClampedPage ==
  ASSUME NEW n \in Int, NEW total \in Nat, NEW size \in Nat \ {0}
  PROVE  /\ ClampPage(n, total, size) \in 1..LastPage(total, size)
         /\ n \in 1..LastPage(total, size) => ClampPage(n, total, size) = n
  BY LastPageHolds DEF ClampPage

-----------------------------------------------------------------------------
(* The page links.                                                         *)

\* The links by their place: those before the numbered pages, the numbered pages,
\* and those after them.
Numbers(link, at) == link.page = at /\ ~link.ellipsis
Omits(link) == link.ellipsis

LinksByPlace(low, high, end, links) ==
  LET a == Len(Leading(low))
      m == high - low + 1
      z == Len(Trailing(high, end))
  IN  /\ a = (IF low = 1 THEN 0 ELSE IF low = 2 THEN 1 ELSE 2)
      /\ z = (IF high = end THEN 0 ELSE IF high = end - 1 THEN 1 ELSE 2)
      /\ Len(links) = a + m + z
      /\ low > 1 => Numbers(links[1], 1)
      /\ low > 2 => Omits(links[2])
      /\ \A i \in (a + 1)..(a + m) : Numbers(links[i], low + i - a - 1)
      /\ high < end - 1 => Omits(links[a + m + 1])
      /\ high < end => Numbers(links[a + m + z], end)

LEMMA LeadingLinks ==
  ASSUME NEW R, NEW low \in Nat \ {0}, Link(1, FALSE) \in R, Ellipsis \in R
  PROVE  /\ Leading(low) \in Seq(R)
         /\ Len(Leading(low)) = (IF low = 1 THEN 0 ELSE IF low = 2 THEN 1 ELSE 2)
         /\ low > 1 => Numbers(Leading(low)[1], 1)
         /\ low > 2 => Omits(Leading(low)[2])
<1>. DEFINE first == Link(1, FALSE)
<1>1. first \in R /\ Numbers(first, 1) /\ Omits(Ellipsis)
  BY DEF Link, Ellipsis, Numbers, Omits
<1>2. Leading(low) = IF low = 1 THEN <<>> ELSE IF low = 2 THEN <<first>> ELSE <<first, Ellipsis>>
  BY DEF Leading
<1>. HIDE DEF first
<1>3. CASE low = 1
  BY <1>2, <1>3
<1>4. CASE low = 2
  <2>1. Leading(low) = <<first>>
    BY <1>2, <1>4
  <2>2. <<first>> \in Seq(R) /\ Len(<<first>>) = 1 /\ <<first>>[1] = first
    BY <1>1
  <2>3. Leading(low) \in Seq(R) /\ Len(Leading(low)) = 1
    BY <2>1, <2>2
  <2>4. Leading(low)[1] = first
    BY <2>1
  <2>. QED
    BY <1>1, <1>4, <2>3, <2>4
<1>5. CASE low > 2
  <2>1. Leading(low) = <<first, Ellipsis>>
    BY <1>2, <1>5
  <2>. QED
    BY <1>1, <1>5, <2>1
<1>. QED
  BY <1>3, <1>4, <1>5

LEMMA TrailingLinks ==
  ASSUME NEW R, NEW end \in Nat, NEW high \in Nat, high <= end,
         Link(end, FALSE) \in R, Ellipsis \in R
  PROVE  /\ Trailing(high, end) \in Seq(R)
         /\ Len(Trailing(high, end)) = (IF high = end THEN 0 ELSE IF high = end - 1 THEN 1 ELSE 2)
         /\ high < end - 1 => Omits(Trailing(high, end)[1])
         /\ high < end => Numbers(Trailing(high, end)[Len(Trailing(high, end))], end)
<1>. DEFINE final == Link(end, FALSE)
<1>1. final \in R /\ Numbers(final, end) /\ Omits(Ellipsis)
  BY DEF Link, Ellipsis, Numbers, Omits
<1>2. Trailing(high, end) =
        IF high = end THEN <<>> ELSE IF high = end - 1 THEN <<final>> ELSE <<Ellipsis, final>>
  BY DEF Trailing
<1>. HIDE DEF final
<1>3. CASE high = end
  BY <1>2, <1>3
<1>4. CASE high = end - 1
  <2>1. Trailing(high, end) = <<final>>
    BY <1>2, <1>4
  <2>2. <<final>> \in Seq(R) /\ Len(<<final>>) = 1 /\ <<final>>[1] = final
    BY <1>1
  <2>3. Trailing(high, end) \in Seq(R) /\ Len(Trailing(high, end)) = 1
    BY <2>1, <2>2
  <2>4. Trailing(high, end)[1] = final
    BY <2>1
  <2>5. Trailing(high, end)[Len(Trailing(high, end))] = final
    BY <2>3, <2>4
  <2>6. high # end /\ ~(high < end - 1)
    BY <1>4
  <2>. QED
    BY <1>1, <1>4, <2>3, <2>5, <2>6
<1>5. CASE high < end - 1
  <2>1. Trailing(high, end) = <<Ellipsis, final>>
    BY <1>2, <1>5
  <2>. QED
    BY <1>1, <1>5, <2>1
<1>. QED
  BY <1>3, <1>4, <1>5

LEMMA LinkAt ==
  ASSUME NEW at \in Nat \ {0}, NEW end \in Nat, at <= end,
         NEW low \in Nat \ {0}, NEW high \in Nat, low <= at, at <= high, high <= end
  PROVE  LinksByPlace(low, high, end, Leading(low) \o Numbered(low, high, at) \o Trailing(high, end))
<1>. DEFINE L == Leading(low)
            N == Numbered(low, high, at)
            T == Trailing(high, end)
            R == [page : Nat, current : BOOLEAN, ellipsis : BOOLEAN]
            m == high - low + 1
<1>1. Link(1, FALSE) \in R /\ Link(end, FALSE) \in R /\ Ellipsis \in R
  BY DEF Link, Ellipsis
<1>2. N \in Seq(R) /\ Len(N) = m /\ \A i \in 1..m : Numbers(N[i], low + i - 1)
  <2>1. N = [i \in 1..m |-> [page |-> low + i - 1, current |-> low + i - 1 = at, ellipsis |-> FALSE]]
    BY DEF Numbered, Link
  <2>2. m \in Nat /\ \A i \in 1..m : low + i - 1 \in Nat
    OBVIOUS
  <2>. QED
    BY <2>1, <2>2 DEF Numbers
<1>3. L \in Seq(R) /\ T \in Seq(R)
  BY <1>1, LeadingLinks, TrailingLinks
<1>4. /\ Len(L) = (IF low = 1 THEN 0 ELSE IF low = 2 THEN 1 ELSE 2)
      /\ low > 1 => Numbers(L[1], 1)
      /\ low > 2 => Omits(L[2])
  BY <1>1, LeadingLinks
<1>5. /\ Len(T) = (IF high = end THEN 0 ELSE IF high = end - 1 THEN 1 ELSE 2)
      /\ high < end - 1 => Omits(T[1])
      /\ high < end => Numbers(T[Len(T)], end)
  BY <1>1, TrailingLinks
<1>6. Len(L) \in Nat /\ Len(T) \in Nat /\ m \in Nat \ {0} /\ low \in Nat
  BY <1>4, <1>5
<1>. HIDE DEF L, N, T, R, m
<1>7. L \o N \in Seq(R) /\ Len(L \o N) = Len(L) + m
      /\ \A i \in 1..(Len(L) + m) : (L \o N)[i] = IF i <= Len(L) THEN L[i] ELSE N[i - Len(L)]
  BY <1>2, <1>3, ConcatProperties
<1>8. Len((L \o N) \o T) = Len(L) + m + Len(T)
      /\ \A i \in 1..(Len(L) + m + Len(T)) :
           ((L \o N) \o T)[i] = IF i <= Len(L) + m THEN (L \o N)[i] ELSE T[i - (Len(L) + m)]
  BY <1>3, <1>7, ConcatProperties
<1>. DEFINE links == L \o N \o T
<1>9. /\ Len(links) = Len(L) + m + Len(T)
      /\ \A i \in 1..Len(L) : links[i] = L[i]
      /\ \A i \in 1..m : links[Len(L) + i] = N[i]
      /\ \A i \in 1..Len(T) : links[Len(L) + m + i] = T[i]
  <2>1. \A i \in 1..Len(L) : links[i] = L[i]
    BY <1>6, <1>7, <1>8
  <2>2. \A i \in 1..m : links[Len(L) + i] = N[i]
    BY <1>6, <1>7, <1>8
  <2>3. \A i \in 1..Len(T) : links[Len(L) + m + i] = T[i]
    BY <1>6, <1>8
  <2>. QED
    BY <1>8, <2>1, <2>2, <2>3
<1>. HIDE DEF links
<1>10. \A i \in (Len(L) + 1)..(Len(L) + m) : Numbers(links[i], low + i - Len(L) - 1)
  <2>1. TAKE i \in (Len(L) + 1)..(Len(L) + m)
  <2>2. i - Len(L) \in 1..m /\ Len(L) + (i - Len(L)) = i
        /\ low + (i - Len(L)) - 1 = low + i - Len(L) - 1
    BY <1>6
  <2>. QED
    BY <1>2, <1>9, <2>2
<1>11. low > 1 => Numbers(links[1], 1)
  BY <1>4, <1>6, <1>9
<1>12. low > 2 => Omits(links[2])
  BY <1>4, <1>6, <1>9
<1>13. high < end - 1 => Omits(links[Len(L) + m + 1])
  BY <1>5, <1>6, <1>9
<1>14. high < end => Numbers(links[Len(L) + m + Len(T)], end)
  <2>1. SUFFICES ASSUME high < end PROVE Numbers(links[Len(L) + m + Len(T)], end)
    OBVIOUS
  <2>2. Len(T) \in 1..Len(T)
    BY <1>5, <1>6, <2>1
  <2>3. links[Len(L) + m + Len(T)] = T[Len(T)]
    BY <1>9, <2>2
  <2>. QED
    BY <1>5, <2>1, <2>3
<1>. QED
  BY <1>4, <1>5, <1>9, <1>10, <1>11, <1>12, <1>13, <1>14 DEF LinksByPlace, links, L, N, T, m

\* The properties of PageLinksCoverPages hold for every request and every collection.
LEMMA EveryAnswerCovers ==
  ASSUME NEW n \in Int, NEW total \in Nat, NEW size \in Nat \ {0}
  PROVE  /\ LinksCoverPages(n, total, size)
         /\ LinkedPages(NewPagination(n, total, size)) \subseteq Nat
<1>. DEFINE end == LastPage(total, size)
            at == ClampPage(n, total, size)
            low == Low(at)
            high == High(at, end)
            p == NewPagination(n, total, size)
            links == p.links
<1>1. end \in Nat \ {0} /\ total <= end * size /\ (end = 1 \/ (end - 1) * size < total)
  BY LastPageHolds
<1>2. at \in 1..end
  BY ClampedPage
<1>3. p.page = at /\ p.last = end
      /\ links = IF end <= 1 THEN <<>>
                 ELSE Leading(low) \o Numbered(low, high, at) \o Trailing(high, end)
  BY DEF NewPagination
<1>4. /\ low \in Nat \ {0} /\ high \in Nat /\ low <= at /\ at <= high /\ high <= end
      /\ at > 1 => low <= at - 1
      /\ at < end => at + 1 <= high
  BY <1>1, <1>2 DEF Low, High, PageLinkSpread
<1>5. PagesHoldAll(p, total, size)
  BY <1>1, <1>3 DEF PagesHoldAll
<1>. HIDE DEF end, at, low, high, p
<1>6. /\ EndsAndNeighboursLinked(p) /\ GapsAreMarked(links)
      /\ LinkedPages(p) \subseteq 1..end
  <2>1. CASE end = 1
    <3>1. links = <<>>
      BY <1>3, <2>1
    <3>2. \A i \in 1..Len(links) : FALSE
      BY <3>1
    <3>. QED
      BY <1>3, <2>1, <3>2 DEF EndsAndNeighboursLinked, GapsAreMarked, LinkedPages
  <2>2. CASE end > 1
    <3>. DEFINE a == Len(Leading(low))
                m == high - low + 1
                z == Len(Trailing(high, end))
    <3>0. /\ at \in Nat \ {0} /\ end \in Nat /\ at <= end
          /\ links = Leading(low) \o Numbered(low, high, at) \o Trailing(high, end)
      BY <1>1, <1>2, <1>3, <2>2
    <3>1. /\ a = (IF low = 1 THEN 0 ELSE IF low = 2 THEN 1 ELSE 2)
          /\ z = (IF high = end THEN 0 ELSE IF high = end - 1 THEN 1 ELSE 2)
          /\ Len(links) = a + m + z
          /\ low > 1 => Numbers(links[1], 1)
          /\ low > 2 => Omits(links[2])
          /\ \A i \in (a + 1)..(a + m) : Numbers(links[i], low + i - a - 1)
          /\ high < end - 1 => Omits(links[a + m + 1])
          /\ high < end => Numbers(links[a + m + z], end)
      <4>1. LinksByPlace(low, high, end, links)
        <5>. HIDE DEF links
        <5>. QED
          BY <1>4, <3>0, LinkAt
      <4>. QED
        BY <4>1 DEF LinksByPlace
    <3>. HIDE DEF a, m, z, links
    <3>2. /\ a \in 0..2 /\ z \in 0..2 /\ m \in Nat \ {0} /\ Len(links) = a + m + z
          /\ (a = 0 <=> low = 1) /\ (a = 1 <=> low = 2) /\ (a = 2 <=> low > 2)
          /\ (z = 0 <=> high = end) /\ (z = 1 <=> high = end - 1) /\ (z = 2 <=> high < end - 1)
      <4>1. m \in Nat \ {0}
        BY <1>4, <3>0 DEF m
      <4>2. a \in 0..2 /\ (a = 0 <=> low = 1) /\ (a = 1 <=> low = 2) /\ (a = 2 <=> low > 2)
        BY <1>4, <3>1
      <4>3. z \in 0..2 /\ (z = 0 <=> high = end) /\ (z = 1 <=> high = end - 1)
            /\ (z = 2 <=> high < end - 1)
        BY <1>4, <3>0, <3>1
      <4>. QED
        BY <3>1, <4>1, <4>2, <4>3
    <3>3. ASSUME NEW i \in 1..Len(links)
          PROVE  \/ i = 1 /\ low > 1 /\ Numbers(links[i], 1)
                 \/ i = 2 /\ low > 2 /\ Omits(links[i])
                 \/ i \in (a + 1)..(a + m) /\ Numbers(links[i], low + i - a - 1)
                 \/ i = a + m + 1 /\ high < end - 1 /\ Omits(links[i])
                 \/ i = a + m + z /\ high < end /\ Numbers(links[i], end)
      <4>1. \/ i = 1 /\ low > 1
            \/ i = 2 /\ low > 2
            \/ i \in (a + 1)..(a + m)
            \/ i = a + m + 1 /\ high < end - 1
            \/ i = a + m + z /\ high < end
        <5>1. i <= a => (i = 1 /\ low > 1) \/ (i = 2 /\ low > 2)
          BY <1>4, <3>2
        <5>2. i > a + m => (i = a + m + 1 /\ high < end - 1) \/ (i = a + m + z /\ high < end)
          BY <1>4, <3>0, <3>2
        <5>3. i > a /\ i <= a + m => i \in (a + 1)..(a + m)
          BY <3>2
        <5>. QED
          BY <3>2, <5>1, <5>2, <5>3
      <4>. QED
        BY <3>1, <4>1
    <3>4. LinkedPages(p) \subseteq 1..end
      <4>1. SUFFICES ASSUME NEW i \in 1..Len(links), ~links[i].ellipsis
                     PROVE  links[i].page \in 1..end
        BY DEF LinkedPages, links
      <4>2. CASE i \in (a + 1)..(a + m)
        <5>1. low + i - a - 1 \in 1..end
          BY <1>1, <1>4, <3>2, <4>2 DEF m
        <5>. QED
          BY <3>1, <4>2, <5>1 DEF Numbers
      <4>. QED
        BY <1>1, <3>1, <3>3, <4>1, <4>2 DEF Numbers, Omits
    <3>5. \A q \in low..high : \E i \in 1..Len(links) : Numbers(links[i], q)
      <4>1. TAKE q \in low..high
      <4>2. a + 1 + (q - low) \in (a + 1)..(a + m) /\ low + (a + 1 + (q - low)) - a - 1 = q
        BY <1>4, <3>2 DEF m
      <4>3. a + 1 + (q - low) \in 1..Len(links)
        BY <1>4, <3>1, <3>2, <4>2
      <4>. QED
        BY <3>1, <4>2, <4>3
    <3>6. \A q \in {1, end} \cup (low..high) : \E i \in 1..Len(links) : Numbers(links[i], q)
      <4>1. low > 1 => 1 \in 1..Len(links) /\ Numbers(links[1], 1)
        BY <1>4, <3>1, <3>2
      <4>2. high < end => a + m + z \in 1..Len(links) /\ Numbers(links[a + m + z], end)
        BY <3>1, <3>2
      <4>3. (low = 1 => 1 \in low..high) /\ (high = end => end \in low..high)
        BY <1>1, <1>2, <1>4
      <4>. QED
        BY <1>1, <1>4, <3>5, <4>1, <4>2, <4>3
    <3>7. EndsAndNeighboursLinked(p)
      <4>1. SUFFICES ASSUME NEW q \in {1, end, at, at - 1, at + 1} \cap 1..end
                     PROVE  q \in LinkedPages(p)
        BY <1>3 DEF EndsAndNeighboursLinked
      <4>2. q \in {1, end} \cup (low..high)
        BY <1>1, <1>2, <1>4
      <4>. QED
        BY <3>6, <4>2 DEF LinkedPages, Numbers, links
    <3>8. GapsAreMarked(links)
      <4>1. ASSUME NEW i \in 1..Len(links), links[i].ellipsis
            PROVE  /\ i \in 2..(Len(links) - 1)
                   /\ ~links[i - 1].ellipsis /\ ~links[i + 1].ellipsis
                   /\ links[i + 1].page > links[i - 1].page + 1
        <5>0. \A q : ~Numbers(links[i], q)
          BY <4>1 DEF Numbers
        <5>1. (i = 2 /\ low > 2) \/ (i = a + m + 1 /\ high < end - 1)
          BY <3>3, <4>1, <5>0
        <5>2. CASE i = 2 /\ low > 2
          <6>1. a = 2 /\ 3 \in (a + 1)..(a + m) /\ low + 3 - a - 1 = low
            BY <1>4, <3>1, <3>2, <5>2
          <6>2. i - 1 = 1 /\ i + 1 = 3 /\ i + 1 <= Len(links)
            BY <3>2, <5>2, <6>1
          <6>3. Numbers(links[1], 1) /\ Numbers(links[3], low)
            BY <1>4, <3>1, <5>2, <6>1
          <6>. QED
            BY <1>4, <5>2, <6>2, <6>3 DEF Numbers
        <5>3. CASE i = a + m + 1 /\ high < end - 1
          <6>1. z = 2 /\ a + m \in (a + 1)..(a + m) /\ low + (a + m) - a - 1 = high
            BY <1>1, <1>4, <3>1, <3>2, <5>3 DEF m
          <6>2. Numbers(links[a + m], high) /\ Numbers(links[a + m + 2], end)
            <7>1. high < end
              BY <1>4, <3>0, <5>3
            <7>. QED
              BY <3>1, <6>1, <7>1
          <6>3. i - 1 = a + m /\ i + 1 = a + m + 2 /\ i \in 2..(Len(links) - 1)
            BY <3>1, <3>2, <5>3, <6>1
          <6>. QED
            BY <1>1, <1>4, <5>3, <6>2, <6>3 DEF Numbers
        <5>. QED
          BY <5>1, <5>2, <5>3
      <4>2. ASSUME NEW i \in 1..Len(links), ~links[i].ellipsis, i > 1, ~links[i - 1].ellipsis
            PROVE  links[i].page = links[i - 1].page + 1
        <5>0. ~Omits(links[i])
          BY <4>2 DEF Omits
        <5>1. i \in (a + 1)..(a + m) \/ (i = a + m + z /\ high < end)
          BY <3>3, <4>2, <5>0
        <5>2. CASE i \in (a + 2)..(a + m)
          <6>1. i - 1 \in (a + 1)..(a + m) /\ i \in (a + 1)..(a + m)
                /\ low + i - a - 1 = (low + (i - 1) - a - 1) + 1
            BY <1>4, <3>2, <5>2
          <6>2. Numbers(links[i], low + i - a - 1) /\ Numbers(links[i - 1], low + (i - 1) - a - 1)
            BY <3>1, <6>1
          <6>. QED
            BY <6>1, <6>2 DEF Numbers
        <5>3. CASE i = a + 1
          <6>1. a # 2
            BY <1>4, <3>1, <4>2, <5>3 DEF Omits
          <6>2. a = 1 /\ low = 2 /\ i = 2
            BY <1>4, <3>1, <3>2, <4>2, <5>3, <6>1
          <6>3. i \in (a + 1)..(a + m) /\ low + i - a - 1 = 2
            BY <3>2, <5>3, <6>2
          <6>4. Numbers(links[2], 2) /\ Numbers(links[1], 1)
            BY <3>1, <6>2, <6>3
          <6>. QED
            BY <6>2, <6>4 DEF Numbers
        <5>4. CASE i = a + m + z /\ high < end
          <6>1. z # 2
            <7>1. SUFFICES ASSUME z = 2 PROVE FALSE
              OBVIOUS
            <7>2. high < end - 1 /\ i - 1 = a + m + 1
              BY <1>1, <1>4, <3>1, <3>2, <5>4, <7>1
            <7>. QED
              BY <3>1, <4>2, <7>2 DEF Omits
          <6>2. z = 1 /\ high = end - 1 /\ i = a + m + 1
            BY <1>1, <1>4, <3>1, <3>2, <5>4, <6>1
          <6>3. i - 1 = a + m /\ a + m \in (a + 1)..(a + m) /\ low + (a + m) - a - 1 = high
            <7>1. low + (a + m) - a - 1 = high
              BY <1>4, <3>2 DEF m
            <7>. QED
              BY <3>2, <6>2, <7>1
          <6>4. Numbers(links[i - 1], high) /\ Numbers(links[i], end)
            BY <3>1, <5>4, <6>3
          <6>. QED
            BY <1>1, <1>4, <6>2, <6>4 DEF Numbers
        <5>. QED
          BY <3>2, <5>1, <5>2, <5>3, <5>4
      <4>. QED
        BY <4>1, <4>2 DEF GapsAreMarked
    <3>. QED
      BY <3>4, <3>7, <3>8 DEF links
  <2>. QED
    BY <1>1, <2>1, <2>2
<1>7. ASSUME NEW q \in LinkedPages(p), NEW later \in total..MaxTotal
      PROVE  ClampPage(q, later, size) = q
  <2>1. later \in Nat /\ total <= later
    BY <1>7
  <2>2. end <= LastPage(later, size) /\ LastPage(later, size) \in Nat
    BY <2>1, LastPageGrows, LastPageHolds DEF end
  <2>3. q \in Int /\ q \in 1..LastPage(later, size)
    BY <1>1, <1>6, <1>7, <2>2
  <2>. QED
    BY <2>1, <2>3, ClampedPage
<1>. QED
  BY <1>1, <1>2, <1>3, <1>5, <1>6, <1>7 DEF LinksCoverPages, p

-----------------------------------------------------------------------------
(* Order and rank.                                                         *)

LEMMA NewerIsOrder ==
  ASSUME NEW b \in Bookmarks, NEW c \in Bookmarks
  PROVE  /\ ~Newer(b, b)
         /\ Newer(b, c) => ~Newer(c, b)
         /\ b # c => Newer(b, c) \/ Newer(c, b)
         /\ \A d \in Bookmarks : Newer(b, c) /\ Newer(c, d) => Newer(b, d)
<1>1. b \in Nat /\ c \in Nat /\ CreatedAt[b] \in Nat /\ CreatedAt[c] \in Nat
  BY BrowseAssumption
<1>2. \A d \in Bookmarks : d \in Nat /\ CreatedAt[d] \in Nat
  BY BrowseAssumption
<1>. QED
  BY <1>1, <1>2 DEF Newer

\* In a finite set, the rank of a bookmark is below the number of them all, and
\* grows from newer to older.
LEMMA RankBound ==
  ASSUME NEW S \in SUBSET Bookmarks, IsFiniteSet(S), NEW b \in S
  PROVE  Cardinality(S) \in Nat /\ Rank(b, S) \in 0..(Cardinality(S) - 1)
<1>. DEFINE P == {c \in S : Newer(c, b)}
<1>1. P \subseteq S \ {b}
  BY NewerIsOrder
<1>2. IsFiniteSet(S \ {b}) /\ Cardinality(S \ {b}) = Cardinality(S) - 1
  BY FS_RemoveElement
<1>3. IsFiniteSet(P) /\ Cardinality(P) <= Cardinality(S \ {b})
  BY <1>1, <1>2, FS_Subset
<1>4. Cardinality(P) \in Nat /\ Cardinality(S) \in Nat
  BY <1>3, FS_CardinalityType
<1>. QED
  BY <1>2, <1>3, <1>4 DEF Rank

LEMMA RankOrder ==
  ASSUME NEW S \in SUBSET Bookmarks, IsFiniteSet(S), NEW b \in S, NEW c \in S, Newer(b, c)
  PROVE  Rank(b, S) < Rank(c, S)
<1>. DEFINE P == {d \in S : Newer(d, b)}
            Q == {d \in S : Newer(d, c)}
<1>1. P \subseteq Q /\ b \in Q /\ b \notin P
  BY NewerIsOrder
<1>2. IsFiniteSet(Q) /\ IsFiniteSet(P)
  BY FS_Subset
<1>3. Cardinality(P) <= Cardinality(Q) /\ (Cardinality(P) = Cardinality(Q) => P = Q)
  BY <1>1, <1>2, FS_Subset
<1>4. Cardinality(P) \in Nat /\ Cardinality(Q) \in Nat
  BY <1>2, FS_CardinalityType
<1>5. P # Q
  BY <1>1
<1>. QED
  BY <1>3, <1>4, <1>5 DEF Rank

\* More bookmarks can only raise a rank.
LEMMA RankGrows ==
  ASSUME NEW S, IsFiniteSet(S), NEW R \in SUBSET S, NEW b
  PROVE  Rank(b, R) \in Nat /\ Rank(b, S) \in Nat /\ Rank(b, R) <= Rank(b, S)
<1>. DEFINE P == {d \in R : Newer(d, b)}
            Q == {d \in S : Newer(d, b)}
<1>1. P \subseteq Q /\ Q \subseteq S
  OBVIOUS
<1>2. IsFiniteSet(Q)
  BY <1>1, FS_Subset
<1>3. IsFiniteSet(P) /\ Cardinality(P) <= Cardinality(Q)
  BY <1>1, <1>2, FS_Subset
<1>4. Cardinality(P) \in Nat /\ Cardinality(Q) \in Nat
  BY <1>2, <1>3, FS_CardinalityType
<1>. QED
  BY <1>3, <1>4 DEF Rank

\* Every rank is that of one bookmark: there are as many ranks as bookmarks, and no two
\* bookmarks have the same.
LEMMA RankOnto ==
  ASSUME NEW S \in SUBSET Bookmarks, IsFiniteSet(S), NEW k \in 0..(Cardinality(S) - 1)
  PROVE  \E b \in S : Rank(b, S) = k
<1>. DEFINE n == Cardinality(S)
            f == [b \in S |-> Rank(b, S)]
<1>1. n \in Nat
  BY FS_CardinalityType
<1>2. f \in [S -> 0..(n - 1)]
  BY RankBound
<1>3. ASSUME NEW b \in S, NEW c \in S, b # c
      PROVE  f[b] # f[c]
  <2>1. f[b] \in Nat /\ f[c] \in Nat /\ f[b] = Rank(b, S) /\ f[c] = Rank(c, S)
    BY <1>1, <1>2
  <2>2. Newer(b, c) \/ Newer(c, b)
    BY <1>3, NewerIsOrder
  <2>3. Newer(b, c) => Rank(b, S) < Rank(c, S)
    BY RankOrder
  <2>4. Newer(c, b) => Rank(c, S) < Rank(b, S)
    BY RankOrder
  <2>. QED
    BY <2>1, <2>2, <2>3, <2>4
<1>. HIDE DEF f
<1>4. f \in Injection(S, 0..(n - 1))
  BY <1>2, <1>3 DEF Injection, IsInjective
<1>5. IsFiniteSet(0..(n - 1)) /\ Cardinality(0..(n - 1)) = n
  <2>1. 0 \in Int /\ n - 1 \in Int
    BY <1>1
  <2>2. IsFiniteSet(0..(n - 1)) /\ Cardinality(0..(n - 1)) = IF 0 > n - 1 THEN 0 ELSE (n - 1) - 0 + 1
    BY <2>1, FS_Interval
  <2>. QED
    BY <1>1, <2>2
<1>6. f \in Surjection(S, 0..(n - 1))
  BY <1>4, <1>5, FS_Injection
<1>. QED
  BY <1>6 DEF Surjection, f

\* The sorted rows are all the bookmarks of the set, each at its rank.
Sorted(rows, S) ==
  /\ rows \in [1..Cardinality(S) -> S]
  /\ \A i, j \in 1..Cardinality(S) : i < j => Newer(rows[i], rows[j])

LEMMA RowsAreSorted ==
  ASSUME NEW S \in SUBSET Bookmarks, IsFiniteSet(S)
  PROVE  Sorted(NewestFirst(S), S)
<1>. DEFINE n == Cardinality(S)
            AtRank(i) == CHOOSE b \in S : Rank(b, S) = i - 1
            rows == [i \in 1..n |-> AtRank(i)]
<1>1. n \in Nat
  BY FS_CardinalityType
<1>2. ASSUME NEW i \in 1..n
      PROVE  AtRank(i) \in S /\ Rank(AtRank(i), S) = i - 1
  <2>1. i - 1 \in 0..(n - 1)
    BY <1>1
  <2>2. \E b \in S : Rank(b, S) = i - 1
    BY <2>1, RankOnto
  <2>. QED
    BY <2>2
<1>3. rows \in [1..n -> S]
  BY <1>2
<1>4. ASSUME NEW i \in 1..n, NEW j \in 1..n, i < j
      PROVE  Newer(rows[i], rows[j])
  <2>1. rows[i] \in S /\ rows[j] \in S /\ Rank(rows[i], S) = i - 1 /\ Rank(rows[j], S) = j - 1
    BY <1>2
  <2>. HIDE DEF rows
  <2>2. rows[i] # rows[j]
    BY <1>1, <1>4, <2>1
  <2>3. ~Newer(rows[j], rows[i])
    <3>1. SUFFICES ASSUME Newer(rows[j], rows[i]) PROVE FALSE
      OBVIOUS
    <3>2. Rank(rows[j], S) < Rank(rows[i], S)
      BY <2>1, <3>1, RankOrder
    <3>. QED
      BY <1>1, <1>4, <2>1, <3>2
  <2>. QED
    BY <2>1, <2>2, <2>3, NewerIsOrder
<1>. HIDE DEF rows
<1>. QED
  BY <1>3, <1>4 DEF NewestFirst, Sorted

LEMMA RowAtRank ==
  ASSUME NEW S \in SUBSET Bookmarks, IsFiniteSet(S), NEW rows, Sorted(rows, S)
  PROVE  /\ \A b \in S : \E i \in 1..Cardinality(S) : rows[i] = b
         /\ \A i \in 1..Cardinality(S) : Rank(rows[i], S) = i - 1
<1>. DEFINE n == Cardinality(S)
<1>1. n \in Nat /\ rows \in [1..n -> S] /\ \A i, j \in 1..n : i < j => Newer(rows[i], rows[j])
  BY FS_CardinalityType DEF Sorted
<1>. HIDE DEF n
<1>2. ASSUME NEW i \in 1..n, NEW j \in 1..n, rows[i] = rows[j]
      PROVE  i = j
  <2>1. ~(i < j) /\ ~(j < i)
    BY <1>1, <1>2, NewerIsOrder
  <2>. QED
    BY <1>1, <2>1
<1>3. rows \in Surjection(1..n, S)
  <2>1. rows \in Injection(1..n, S)
    BY <1>1, <1>2 DEF Injection, IsInjective
  <2>2. Cardinality(1..n) = n
    BY <1>1, FS_Interval
  <2>. QED
    BY <2>1, <2>2, FS_Injection DEF n
<1>4. ASSUME NEW i \in 1..n
      PROVE  Rank(rows[i], S) = i - 1
  <2>. DEFINE P == {c \in S : Newer(c, rows[i])}
              g == [j \in 1..(i - 1) |-> rows[j]]
  <2>1. i - 1 \in Nat /\ 1..(i - 1) \subseteq 1..n
    BY <1>1
  <2>2. \A j \in 1..(i - 1) : rows[j] \in P
    BY <1>1, <2>1
  <2>3. \A c \in P : \E j \in 1..(i - 1) : rows[j] = c
    <3>1. TAKE c \in P
    <3>2. PICK j \in 1..n : rows[j] = c
      BY <1>3 DEF Surjection
    <3>3. ~(i < j) /\ i # j
      BY <1>1, <3>2, NewerIsOrder
    <3>4. j \in 1..(i - 1)
      BY <1>1, <3>3
    <3>. QED
      BY <3>2, <3>4
  <2>4. g \in [1..(i - 1) -> P] /\ \A j \in 1..(i - 1) : g[j] = rows[j]
    BY <2>2
  <2>. HIDE DEF P, g
  <2>5. g \in Injection(1..(i - 1), P)
    BY <1>2, <2>1, <2>4 DEF Injection, IsInjective
  <2>6. g \in Surjection(1..(i - 1), P)
    BY <2>3, <2>4 DEF Surjection
  <2>7. Cardinality(1..(i - 1)) = i - 1 /\ IsFiniteSet(1..(i - 1))
    <3>1. Cardinality(1..(i - 1)) = (IF 1 > i - 1 THEN 0 ELSE (i - 1) - 1 + 1) /\ IsFiniteSet(1..(i - 1))
      BY <2>1, FS_Interval
    <3>. QED
      BY <2>1, <3>1
  <2>8. Cardinality(P) = i - 1
    BY <2>5, <2>6, <2>7, FS_Surjection
  <2>. QED
    BY <2>8 DEF Rank, P
<1>. QED
  BY <1>3, <1>4 DEF Surjection, n

-----------------------------------------------------------------------------
(* The rows of a page.                                                     *)

\* At most size of the rows, from the one after the first k.
PartOfRows(some, rows, k, size) ==
  /\ Len(some) = IF k + size <= Len(rows) THEN size ELSE IF k < Len(rows) THEN Len(rows) - k ELSE 0
  /\ \A i \in 1..Len(some) : some[i] = rows[k + i]

LEMMA RowsOfPage ==
  ASSUME NEW R, NEW rows \in Seq(R), NEW k \in Nat, NEW size \in Nat,
         NEW some, some = Limit(Offset(rows, k), size)
  PROVE  some \in Seq(R) /\ PartOfRows(some, rows, k, size)
<1>. DEFINE rest == SubSeq(rows, k + 1, Len(rows))
            m == Smaller(size, Len(rest))
<1>0. some = SubSeq(rest, 1, m)
  BY DEF Limit, Offset
<1>1. Len(rows) \in Nat /\ \A i \in (k + 1)..Len(rows) : rows[i] \in R
  OBVIOUS
<1>2. /\ rest \in Seq(R)
      /\ Len(rest) = IF k + 1 <= Len(rows) THEN Len(rows) - (k + 1) + 1 ELSE 0
      /\ \A i \in 1..(Len(rows) - (k + 1) + 1) : rest[i] = rows[(k + 1) + i - 1]
  <2>1. k + 1 \in Int /\ Len(rows) \in Int
    BY <1>1
  <2>. QED
    BY <1>1, <2>1, SubSeqProperties
<1>. HIDE DEF rest
<1>3. Len(rest) \in Nat /\ m \in Nat /\ m <= Len(rest) /\ \A i \in 1..m : rest[i] \in R
  BY <1>1, <1>2 DEF Smaller
<1>4. m = IF k + size <= Len(rows) THEN size ELSE IF k < Len(rows) THEN Len(rows) - k ELSE 0
  BY <1>1, <1>2 DEF Smaller
<1>. HIDE DEF m
<1>5. /\ some \in Seq(R)
      /\ Len(some) = IF 1 <= m THEN m - 1 + 1 ELSE 0
      /\ \A i \in 1..(m - 1 + 1) : some[i] = rest[1 + i - 1]
  <2>1. 1 \in Int /\ m \in Int
    BY <1>3
  <2>. QED
    BY <1>0, <1>3, <2>1, SubSeqProperties
<1>6. Len(some) = m
  BY <1>3, <1>5
<1>7. ASSUME NEW i \in 1..Len(some)
      PROVE  some[i] = rows[k + i]
  <2>1. i \in 1..(m - 1 + 1) /\ 1 + i - 1 = i /\ i \in 1..(Len(rows) - (k + 1) + 1) /\ (k + 1) + i - 1 = k + i
    BY <1>1, <1>2, <1>3, <1>6
  <2>. QED
    BY <1>2, <1>5, <2>1
<1>. QED
  BY <1>4, <1>5, <1>6, <1>7 DEF PartOfRows

\* The sorted rows of S up to a cap.
FirstRows(rows, S, cap) ==
  /\ rows \in Seq(S) /\ Len(rows) = cap
  /\ \A i \in 1..cap : rows[i] = NewestFirst(S)[i]

HoldsRanks(some, S, at, size, cap) ==
  /\ some \in Seq(S)
  /\ Range(some) = {b \in S : Rank(b, S) \div size = at - 1 /\ Rank(b, S) < cap}
  /\ \A i, j \in 1..Len(some) : i < j => Newer(some[i], some[j])

\* A page of the sorted rows, or of the first of them up to a cap, holds the bookmarks
\* whose rank falls on it.
LEMMA RanksOfPage ==
  ASSUME NEW S \in SUBSET Bookmarks, IsFiniteSet(S), NEW cap \in 0..Cardinality(S),
         NEW rows, FirstRows(rows, S, cap),
         NEW at \in Nat \ {0}, NEW size \in Nat \ {0}, NEW k \in Nat, k = (at - 1) * size,
         NEW some, some = Limit(Offset(rows, k), size)
  PROVE  HoldsRanks(some, S, at, size, cap) /\ (k < cap => some # <<>>)
<1>. DEFINE n == Cardinality(S)
            sorted == NewestFirst(S)
<1>1. n \in Nat /\ cap \in Nat /\ cap <= n
  BY FS_CardinalityType
<1>2. Sorted(sorted, S)
  BY RowsAreSorted
<1>3. /\ sorted \in [1..n -> S] /\ \A i, j \in 1..n : i < j => Newer(sorted[i], sorted[j])
      /\ \A b \in S : \E i \in 1..n : sorted[i] = b
      /\ \A i \in 1..n : Rank(sorted[i], S) = i - 1
  <2>1. \A b \in S : \E i \in 1..n : sorted[i] = b
    BY <1>2, RowAtRank
  <2>2. \A i \in 1..n : Rank(sorted[i], S) = i - 1
    BY <1>2, RowAtRank
  <2>. QED
    BY <1>2, <2>1, <2>2 DEF Sorted
<1>. HIDE DEF n, sorted
<1>4. /\ some \in Seq(S)
      /\ Len(some) = IF k + size <= cap THEN size ELSE IF k < cap THEN cap - k ELSE 0
      /\ \A i \in 1..Len(some) : some[i] = rows[k + i]
  <2>1. some \in Seq(S) /\ PartOfRows(some, rows, k, size)
    BY RowsOfPage DEF FirstRows
  <2>. QED
    BY <2>1 DEF PartOfRows, FirstRows
<1>5. Len(some) \in Nat /\ \A i \in 1..Len(some) : k + i \in 1..cap /\ i <= size
  BY <1>1, <1>4
<1>6. \A i \in 1..Len(some) : some[i] = sorted[k + i] /\ k + i \in 1..n
  BY <1>1, <1>4, <1>5 DEF sorted, FirstRows
<1>7. ASSUME NEW i \in 1..Len(some)
      PROVE  some[i] \in S /\ Rank(some[i], S) \div size = at - 1 /\ Rank(some[i], S) < cap
  <2>0. k + i \in 1..n /\ some[i] = sorted[k + i]
    BY <1>6
  <2>1. sorted[k + i] \in S /\ Rank(sorted[k + i], S) = k + i - 1
    BY <1>1, <1>3, <2>0
  <2>2. k + i - 1 \in Nat /\ (at - 1) * size <= k + i - 1 /\ k + i - 1 < (at - 1) * size + size
    BY <1>1, <1>5
  <2>3. (k + i - 1) \div size = at - 1
    <3>1. at - 1 \in Int
      OBVIOUS
    <3>. QED
      BY <2>2, <3>1, QuotientIs
  <2>. QED
    BY <1>1, <1>5, <2>0, <2>1, <2>3
<1>8. ASSUME NEW b \in S, Rank(b, S) \div size = at - 1, Rank(b, S) < cap
      PROVE  \E i \in 1..Len(some) : some[i] = b
  <2>1. PICK j \in 1..n : sorted[j] = b
    BY <1>3
  <2>2. Rank(b, S) = j - 1 /\ j - 1 \in Nat
    BY <1>3, <2>1
  <2>3. k <= j - 1 /\ j - 1 < k + size
    BY <1>8, <2>2, Quotient
  <2>4. j - k \in 1..Len(some) /\ k + (j - k) = j
    BY <1>1, <1>4, <1>8, <2>2, <2>3
  <2>. QED
    BY <1>6, <2>1, <2>4
<1>9. Range(some) = {b \in S : Rank(b, S) \div size = at - 1 /\ Rank(b, S) < cap}
  <2>. DEFINE holds(b) == Rank(b, S) \div size = at - 1 /\ Rank(b, S) < cap
  <2>1. \A b : b \in Range(some) <=> \E i \in 1..Len(some) : some[i] = b
    BY <1>4 DEF Range
  <2>2. \A i \in 1..Len(some) : some[i] \in S /\ holds(some[i])
    BY <1>7
  <2>3. \A b \in S : holds(b) => \E i \in 1..Len(some) : some[i] = b
    BY <1>8
  <2>. HIDE DEF holds
  <2>4. Range(some) = {b \in S : holds(b)}
    BY <2>1, <2>2, <2>3
  <2>. QED
    BY <2>4 DEF holds
<1>10. ASSUME NEW i \in 1..Len(some), NEW j \in 1..Len(some), i < j
       PROVE  Newer(some[i], some[j])
  <2>1. k + i < k + j
    BY <1>1, <1>10
  <2>. QED
    BY <1>3, <1>6, <1>10, <2>1
<1>11. k < cap => some # <<>>
  BY <1>1, <1>4
<1>. QED
  BY <1>4, <1>9, <1>10, <1>11 DEF HoldsRanks

-----------------------------------------------------------------------------
(* The steps of an answer.                                                 *)

\* The count is that of the collection, until something is written.
CountIsTrue ==
  (query = "page" /\ "page" \notin moved) \/ (query \in {"tags", "shown"} /\ moved = {})
    => matches = Cardinality(Matching(request.for))

PageIsTrue ==
  query \in {"tags", "shown"} /\ moved = {} => ids = Page(NewestFirst(Matching(request.for)))

TagsAreTrue ==
  /\ query # "shown" => labelled = {}
  /\ query = "shown" /\ moved = {} => labelled = Range(ids) \cap tagged
  /\ query \in {"tags", "shown"} /\ request.for.tag /\ "tags" \notin moved
       => Range(ids) \subseteq IF query = "tags" THEN tagged ELSE labelled

\* What a walk has not seen yet lies behind the pages it has been to.
OwedIsAhead ==
  walked > 0 /\ ~shrunk => \A b \in owed : Rank(b, stored) >= walked * ListPageSize

\* On the last page of a walk nothing is left; the rest of WalkMissesNothing, earlier.
WalkIsDone ==
  query \in {"tags", "shown"} /\ walked > 0 /\ Answer.page = Answer.last /\ walked = Answer.page
  /\ ~shrunk /\ "page" \notin moved
    => owed = {}

BrowseInv ==
  /\ BrowseTypeOK /\ IsFiniteSet(stored) /\ ids \in Seq(Bookmarks)
  /\ CountIsTrue /\ PageIsTrue /\ TagsAreTrue /\ OwedIsAhead /\ WalkIsDone

LEMMA AnswerTypes ==
  ASSUME BrowseTypeOK
  PROVE  /\ PageSize \in Nat \ {0} /\ ListPageSize \in Nat \ {0} /\ MaximumResults \in Nat \ {0}
         /\ request.page \in Nat /\ matches \in Nat /\ Within(matches) \in Nat
         /\ Answer.page = ClampPage(request.page, Within(matches), PageSize)
         /\ Answer.last = LastPage(Within(matches), PageSize)
         /\ Answer.last \in Nat \ {0} /\ Answer.page \in 1..Answer.last
<1>1. ListPageSize \in Nat \ {0} /\ SearchPageSize \in Nat \ {0} /\ MaximumResults \in Nat \ {0}
  BY BrowseAssumption
<1>2. PageSize \in Nat \ {0}
  BY <1>1 DEF PageSize
<1>3. request.page \in Nat /\ matches \in Nat
  BY DEF BrowseTypeOK, Request
<1>4. Within(matches) \in Nat
  BY <1>1, <1>3 DEF Within, Smaller
<1>5. /\ Answer.page = ClampPage(request.page, Within(matches), PageSize)
      /\ Answer.last = LastPage(Within(matches), PageSize)
  BY DEF Answer, NewPagination
<1>6. Answer.last \in Nat \ {0} /\ Answer.page \in 1..Answer.last
  <2>. DEFINE total == Within(matches)
              size == PageSize
  <2>1. request.page \in Int /\ total \in Nat /\ size \in Nat \ {0}
    BY <1>2, <1>3, <1>4
  <2>. HIDE DEF total, size
  <2>2. LastPage(total, size) \in Nat \ {0}
    BY <2>1, LastPageHolds
  <2>3. ClampPage(request.page, total, size) \in 1..LastPage(total, size)
    BY <2>1, ClampedPage
  <2>. QED
    BY <1>5, <2>2, <2>3 DEF total, size
<1>. QED
  BY <1>1, <1>2, <1>3, <1>4, <1>5, <1>6

\* What the page query returns.
LEMMA PageOfAnswer ==
  ASSUME BrowseTypeOK, IsFiniteSet(stored),
         NEW M, M = Matching(request.for), NEW some, some = Page(NewestFirst(M))
  PROVE  /\ M \in SUBSET Bookmarks /\ IsFiniteSet(M) /\ some \in Seq(M)
         /\ Range(some) = {b \in M : /\ Rank(b, M) \div PageSize = Answer.page - 1
                                     /\ (request.view = "search" => Rank(b, M) < MaximumResults)}
         /\ \A i, j \in 1..Len(some) : i < j => Newer(some[i], some[j])
         /\ matches = Cardinality(M) /\ some = <<>> => M = {}
<1>. DEFINE n == Cardinality(M)
            cap == IF request.view = "search" THEN Smaller(n, MaximumResults) ELSE n
            rows == IF request.view = "search" THEN Limit(NewestFirst(M), MaximumResults)
                    ELSE NewestFirst(M)
            at == Answer.page
            k == (at - 1) * PageSize
<1>1. /\ PageSize \in Nat \ {0} /\ MaximumResults \in Nat \ {0} /\ at \in Nat \ {0}
      /\ at = ClampPage(request.page, Within(matches), PageSize)
      /\ Within(matches) \in Nat /\ at <= LastPage(Within(matches), PageSize)
  BY AnswerTypes
<1>2. M \in SUBSET Bookmarks /\ IsFiniteSet(M)
  <2>1. M \subseteq stored /\ stored \subseteq Bookmarks
    BY DEF Matching, BrowseTypeOK
  <2>. QED
    BY <2>1, FS_Subset
<1>3. n \in Nat
  BY <1>2, FS_CardinalityType
<1>4. NewestFirst(M) \in [1..n -> M]
  BY <1>2, RowsAreSorted DEF Sorted
<1>. HIDE DEF n, at
<1>5. NewestFirst(M) \in Seq(M) /\ Len(NewestFirst(M)) = n
  BY <1>3, <1>4
<1>6. cap \in 0..n
  BY <1>1, <1>3 DEF Smaller
<1>7. rows \in Seq(M) /\ Len(rows) = cap /\ \A i \in 1..cap : rows[i] = NewestFirst(M)[i]
  <2>1. CASE request.view = "search"
    <3>. DEFINE all == NewestFirst(M)
                c == Smaller(n, MaximumResults)
    <3>1. c \in Nat /\ c <= n /\ c = Smaller(MaximumResults, n)
      BY <1>1, <1>3 DEF Smaller
    <3>2. rows = SubSeq(all, 1, c) /\ cap = c
      BY <1>5, <2>1, <3>1 DEF Limit
    <3>. HIDE DEF all, c, rows, cap
    <3>3. all \in Seq(M) /\ Len(all) = n
      BY <1>5 DEF all
    <3>4. 1 \in Int /\ c \in Int /\ \A i \in 1..c : all[i] \in M
      BY <1>3, <3>1, <3>3
    <3>5. rows \in Seq(M) /\ Len(rows) = (IF 1 <= c THEN c - 1 + 1 ELSE 0)
          /\ \A i \in 1..(c - 1 + 1) : rows[i] = all[1 + i - 1]
      BY <3>2, <3>4, SubSeqProperties
    <3>6. \A i \in 1..c : rows[i] = all[i]
      <4>1. TAKE i \in 1..c
      <4>2. i \in 1..(c - 1 + 1) /\ 1 + i - 1 = i
        BY <3>1
      <4>. QED
        BY <3>5, <4>2
    <3>. QED
      BY <3>1, <3>2, <3>5, <3>6 DEF all
  <2>2. CASE request.view # "search"
    BY <1>5, <2>2
  <2>. QED
    BY <2>1, <2>2
<1>8. k \in Nat
  BY <1>1
<1>9. some = Limit(Offset(rows, k), PageSize)
  BY <1>1 DEF Page, OnPage
<1>. HIDE DEF cap, rows, k
<1>10. HoldsRanks(some, M, at, PageSize, cap) /\ (k < cap => some # <<>>)
  <2>1. cap \in 0..Cardinality(M) /\ k = (at - 1) * PageSize
    BY <1>6 DEF n, k
  <2>2. FirstRows(rows, M, cap)
    BY <1>7 DEF FirstRows
  <2>3. at \in Nat \ {0} /\ PageSize \in Nat \ {0} /\ IsFiniteSet(M) /\ M \in SUBSET Bookmarks
    BY <1>1, <1>2
  <2>. QED
    BY <2>3, <1>8, <1>9, <2>1, <2>2, RanksOfPage
<1>11. \A b \in M : Rank(b, M) < cap <=> (request.view = "search" => Rank(b, M) < MaximumResults)
  <2>1. TAKE b \in M
  <2>2. Rank(b, M) \in 0..(n - 1)
    BY <1>2, RankBound DEF n
  <2>. QED
    BY <1>1, <1>3, <2>2 DEF cap, Smaller
<1>12. ASSUME matches = n, some = <<>>
       PROVE  M = {}
  <2>1. Within(matches) = cap
    BY <1>12 DEF cap, Within
  <2>2. ~(k < cap)
    BY <1>10, <1>12
  <2>3. cap = 0
    <3>1. SUFFICES ASSUME cap # 0 PROVE FALSE
      OBVIOUS
    <3>. DEFINE end == LastPage(cap, PageSize)
    <3>2. cap \in Nat /\ at <= end
      BY <1>1, <1>3, <1>6, <2>1
    <3>3. end \in Nat \ {0} /\ (end = 1 \/ (end - 1) * PageSize < cap)
      BY <1>1, <3>2, LastPageHolds
    <3>. HIDE DEF end
    <3>4. CASE at = 1
      BY <1>1, <1>8, <2>2, <3>1, <3>2, <3>4 DEF k
    <3>5. CASE at > 1
      <4>1. at - 1 < end - 1 => (at - 1) * PageSize + PageSize <= (end - 1) * PageSize
        <5>1. at - 1 \in Int /\ end - 1 \in Int /\ PageSize \in Nat
          BY <1>1, <3>3
        <5>. QED
          BY <5>1, Multiples
      <4>2. (end - 1) * PageSize \in Int /\ (end - 1) * PageSize < cap
        BY <1>1, <3>2, <3>3, <3>5
      <4>3. k = (at - 1) * PageSize /\ k \in Nat
        BY <1>8 DEF k
      <4>4. at - 1 = end - 1 \/ at - 1 < end - 1
        BY <1>1, <3>2, <3>3
      <4>5. k < cap
        BY <1>1, <3>2, <4>1, <4>2, <4>3, <4>4
      <4>. QED
        BY <2>2, <4>5
    <3>. QED
      BY <1>1, <3>4, <3>5
  <2>4. n = 0
    BY <1>1, <1>3, <2>3 DEF cap, Smaller
  <2>. QED
    BY <1>2, <2>4, FS_EmptySet DEF n
<1>. QED
  BY <1>2, <1>10, <1>11, <1>12 DEF n, at, HoldsRanks

-----------------------------------------------------------------------------
(* The steps that begin or end a request.                                  *)

LEMMA BrowseInvHolds == ASSUME BrowseInit PROVE BrowseInv
<1>1. FirstPage \in Request /\ NoCriteria \in Criteria /\ Range(<<>>) = {}
  BY DEF FirstPage, NoCriteria, Request, Criteria, Range
<1>2. BrowseTypeOK
  BY <1>1 DEF BrowseInit, BrowseTypeOK
<1>3. ids \in Seq(Bookmarks) /\ IsFiniteSet(stored)
  BY DEF BrowseInit
<1>. QED
  BY <1>2, <1>3 DEF BrowseInit, BrowseInv, CountIsTrue, PageIsTrue, TagsAreTrue, OwedIsAhead,
                    WalkIsDone

\* No answer is being made or shown, and the walk stands still.
LEMMA InvWithoutAnswer ==
  ASSUME BrowseInv, query' \in {"idle", "count"}, request' \in Request, asked' \in Criteria,
         Blank, UNCHANGED <<table, walk>>
  PROVE  BrowseInv'
<1>1. Range(<<>>) = {}
  BY DEF Range
<1>2. BrowseTypeOK'
  BY <1>1 DEF BrowseInv, BrowseTypeOK, Blank, table, walk
<1>3. ids' \in Seq(Bookmarks) /\ IsFiniteSet(stored')
  BY DEF BrowseInv, Blank, table
<1>4. OwedIsAhead'
  BY DEF BrowseInv, OwedIsAhead, table, walk
<1>5. CountIsTrue' /\ PageIsTrue' /\ TagsAreTrue' /\ WalkIsDone'
  BY DEF Blank, CountIsTrue, PageIsTrue, TagsAreTrue, WalkIsDone
<1>. QED
  BY <1>2, <1>3, <1>4, <1>5 DEF BrowseInv

LEMMA InvAtAsk ==
  ASSUME BrowseInv, NEW u \in Request, Ask(u), asked' \in Criteria
  PROVE  BrowseInv'
<1>1. FirstPage \in Request
  BY DEF FirstPage, NoCriteria, Request, Criteria
<1>2. query' \in {"idle", "count"} /\ request' \in Request
  BY <1>1 DEF Ask
<1>. QED
  BY <1>2, InvWithoutAnswer DEF Ask

LEMMA InvAtVisit ==
  ASSUME BrowseInv, NEW via \in {"web", "stream"}, NEW view \in {"list", "search"},
         NEW c \in Criteria, NEW n \in Nat, Visit(via, view, c, n)
  PROVE  BrowseInv'
<1>. DEFINE u == [via |-> via, view |-> view, for |-> c,
                  page |-> IF via = "web" /\ n = 0 THEN 1 ELSE n]
<1>1. u \in Request
  BY DEF Request
<1>2. Ask(u) /\ asked' \in Criteria
  BY DEF Visit
<1>. QED
  BY <1>1, <1>2, InvAtAsk

LEMMA InvAtFollow ==
  ASSUME BrowseInv, NEW i \in 1..Len(Answer.links), Follow(i)
  PROVE  BrowseInv'
<1>1. request \in Request /\ asked \in Criteria /\ NoCriteria \in Criteria
  BY DEF BrowseInv, BrowseTypeOK, NoCriteria, Criteria
<1>2. Answer.links[i].page \in Nat
  <2>1. LinkedPages(Answer) \subseteq Nat
    <3>1. PageSize \in Nat \ {0} /\ request.page \in Int /\ Within(matches) \in Nat
      BY AnswerTypes DEF BrowseInv
    <3>. QED
      BY <3>1, EveryAnswerCovers DEF Answer
  <2>. QED
    BY <2>1 DEF Follow, LinkedPages
<1>3. [request EXCEPT !.for = NoCriteria, !.page = Answer.links[i].page] \in Request
  BY <1>1, <1>2 DEF Request
<1>. QED
  BY <1>1, <1>3, InvAtAsk DEF Follow

LEMMA InvAtReturn == ASSUME BrowseInv, Leave \/ Fail PROVE BrowseInv'
<1>1. FirstPage \in Request /\ NoCriteria \in Criteria
  BY DEF FirstPage, NoCriteria, Request, Criteria
<1>. QED
  BY <1>1, InvWithoutAnswer DEF Leave, Fail

-----------------------------------------------------------------------------
(* The writes.  They spoil what is known of the answer, and say so.        *)

LEMMA AnswerKept ==
  ASSUME UNCHANGED <<request, matches>>
  PROVE  /\ Answer' = Answer /\ PageSize' = PageSize /\ Within(matches)' = Within(matches)
         /\ \A rows : Page(rows)' = Page(rows)
  BY DEF Answer, PageSize, Within, Page, OnPage

LEMMA InvAtWrite ==
  ASSUME BrowseInv, Wrote, BrowseTypeOK', IsFiniteSet(stored'), OwedIsAhead',
         owed' \subseteq owed, ~shrunk' => ~shrunk
  PROVE  BrowseInv'
<1>1. query' = query /\ request' = request /\ matches' = matches /\ ids' = ids
      /\ labelled' = labelled /\ walked' = walked
      /\ (query # "idle" => moved' = moved \cup {query})
  BY DEF Wrote
<1>2. CountIsTrue' /\ PageIsTrue'
  BY <1>1 DEF CountIsTrue, PageIsTrue
<1>3. TagsAreTrue'
  BY <1>1 DEF BrowseInv, TagsAreTrue
<1>4. Answer' = Answer
  BY <1>1, AnswerKept
<1>5. WalkIsDone'
  BY <1>1, <1>4 DEF BrowseInv, WalkIsDone
<1>. QED
  BY <1>1, <1>2, <1>3, <1>5 DEF BrowseInv

LEMMA InvAtInsert == ASSUME BrowseInv, NEW b \in Bookmarks, Insert(b) PROVE BrowseInv'
<1>1. stored' = stored \cup {b} /\ owed' = owed /\ shrunk' = shrunk /\ walked' = walked
  BY DEF Insert, Wrote
<1>2. BrowseTypeOK'
  <2>1. PICK t \in BOOLEAN, w \in BOOLEAN : Labels(b, t, w)
    BY DEF Insert
  <2>2. tagged' \subseteq stored' /\ worded' \subseteq stored'
    BY <1>1, <2>1 DEF Labels, BrowseInv, BrowseTypeOK
  <2>3. stored' \subseteq inserted' /\ inserted' \subseteq Bookmarks
    BY DEF Insert, BrowseInv, BrowseTypeOK
  <2>4. moved' \subseteq {"count", "page", "tags", "shown"}
    BY DEF Insert, Wrote, BrowseInv, BrowseTypeOK
  <2>. QED
    BY <1>1, <2>2, <2>3, <2>4 DEF Insert, Wrote, BrowseInv, BrowseTypeOK
<1>3. IsFiniteSet(stored')
  BY <1>1, FS_AddElement DEF BrowseInv
<1>4. OwedIsAhead'
  <2>1. SUFFICES ASSUME walked > 0, ~shrunk, NEW c \in owed
                 PROVE  Rank(c, stored') >= walked * ListPageSize
    BY <1>1 DEF OwedIsAhead
  <2>2. Rank(c, stored) \in Nat /\ Rank(c, stored') \in Nat /\ Rank(c, stored) <= Rank(c, stored')
    <3>1. stored \in SUBSET stored'
      BY <1>1
    <3>. QED
      BY <1>3, <3>1, RankGrows
  <2>3. walked * ListPageSize \in Int
    BY BrowseAssumption DEF BrowseInv, BrowseTypeOK
  <2>4. Rank(c, stored) >= walked * ListPageSize
    BY <2>1 DEF BrowseInv, OwedIsAhead
  <2>. QED
    BY <2>2, <2>3, <2>4
<1>. QED
  BY <1>1, <1>2, <1>3, <1>4, InvAtWrite DEF Insert

LEMMA InvAtChange == ASSUME BrowseInv, NEW b \in Bookmarks, Change(b) PROVE BrowseInv'
<1>1. b \in stored /\ stored' = stored /\ owed' = owed /\ shrunk' = shrunk /\ walked' = walked
  BY DEF Change, Wrote
<1>2. BrowseTypeOK'
  <2>1. PICK t \in BOOLEAN, w \in BOOLEAN : Labels(b, t, w)
    BY DEF Change
  <2>2. tagged' \subseteq stored' /\ worded' \subseteq stored'
    BY <1>1, <2>1 DEF Labels, BrowseInv, BrowseTypeOK
  <2>3. moved' \subseteq {"count", "page", "tags", "shown"}
    BY DEF Change, Wrote, BrowseInv, BrowseTypeOK
  <2>. QED
    BY <1>1, <2>2, <2>3 DEF Change, Wrote, BrowseInv, BrowseTypeOK
<1>3. OwedIsAhead' /\ IsFiniteSet(stored')
  BY <1>1 DEF BrowseInv, OwedIsAhead
<1>. QED
  BY <1>1, <1>2, <1>3, InvAtWrite DEF Change

LEMMA InvAtDelete == ASSUME BrowseInv, NEW b \in Bookmarks, Delete(b) PROVE BrowseInv'
<1>1. stored' = stored \ {b} /\ owed' = owed \ {b} /\ shrunk'
  BY DEF Delete
<1>2. BrowseTypeOK'
  <2>1. tagged' \subseteq stored' /\ worded' \subseteq stored'
    BY <1>1 DEF Delete, Labels, BrowseInv, BrowseTypeOK
  <2>2. moved' \subseteq {"count", "page", "tags", "shown"}
    BY DEF Delete, Wrote, BrowseInv, BrowseTypeOK
  <2>3. shrunk' \in BOOLEAN
    BY DEF Delete
  <2>. QED
    BY <1>1, <2>1, <2>2, <2>3 DEF Delete, Wrote, BrowseInv, BrowseTypeOK
<1>3. IsFiniteSet(stored')
  BY <1>1, FS_RemoveElement DEF BrowseInv
<1>4. OwedIsAhead'
  BY <1>1 DEF OwedIsAhead
<1>. QED
  BY <1>1, <1>2, <1>3, <1>4, InvAtWrite DEF Delete

-----------------------------------------------------------------------------
(* The three queries.                                                      *)

LEMMA InvAtCount == ASSUME BrowseInv, Count PROVE BrowseInv'
<1>. DEFINE M == Matching(request.for)
<1>1. M' = M
  BY DEF Count, Matching, table
<1>2. Cardinality(M) \in Nat
  <2>1. M \subseteq stored
    BY DEF Matching
  <2>2. IsFiniteSet(M)
    BY <2>1, FS_Subset DEF BrowseInv
  <2>. QED
    BY <2>2, FS_CardinalityType
<1>3. CountIsTrue'
  BY <1>1 DEF Count, CountIsTrue
<1>. HIDE DEF M
<1>4. matches' \in Nat
  BY <1>2 DEF Count, M
<1>5. BrowseTypeOK'
  BY <1>4 DEF Count, BrowseInv, BrowseTypeOK, table, walk
<1>6. ids' \in Seq(Bookmarks) /\ IsFiniteSet(stored') /\ OwedIsAhead'
  BY DEF Count, BrowseInv, OwedIsAhead, table, walk
<1>7. PageIsTrue' /\ TagsAreTrue' /\ WalkIsDone'
  BY DEF Count, BrowseInv, PageIsTrue, TagsAreTrue, WalkIsDone
<1>. QED
  BY <1>3, <1>5, <1>6, <1>7 DEF BrowseInv

\* What the plain list does not show on a page lies behind it, or before.
LEMMA WalkGoesOn ==
  ASSUME BrowseInv, NEW seen, Walk(Answer.page, seen), UNCHANGED <<table, request, matches>>,
         seen = {b \in Matching(request.for) :
                   /\ Rank(b, Matching(request.for)) \div PageSize = Answer.page - 1
                   /\ (request.view = "search" =>
                         Rank(b, Matching(request.for)) < MaximumResults)}
  PROVE  /\ OwedIsAhead' /\ walked' \in Nat /\ owed' \subseteq stored /\ shrunk' \in BOOLEAN
         /\ walked' > 0 => request.view = "list" /\ request.for = NoCriteria
<1>. DEFINE at == Answer.page
            L == ListPageSize
<1>1. at \in Nat \ {0} /\ L \in Nat \ {0} /\ walked \in Nat
  BY AnswerTypes DEF BrowseInv, BrowseTypeOK
<1>2. stored' = stored /\ owed \subseteq stored /\ shrunk \in BOOLEAN
  BY DEF BrowseInv, BrowseTypeOK, table
<1>. HIDE DEF at
<1>3. CASE request.view # "list" \/ request.for # NoCriteria \/ at > walked + 1
  <2>1. walked' = 0 /\ owed' = {} /\ shrunk' = FALSE
    BY <1>3 DEF Walk, at
  <2>2. OwedIsAhead'
    BY <2>1 DEF OwedIsAhead
  <2>3. walked' \in Nat /\ ~(walked' > 0) /\ owed' \subseteq stored
    BY <2>1
  <2>4. shrunk' \in BOOLEAN
    BY <2>1
  <2>. QED
    BY <2>2, <2>3, <2>4
<1>4. CASE request.view = "list" /\ request.for = NoCriteria /\ at <= walked + 1
  <2>1. seen = {b \in stored : Rank(b, stored) \div L = at - 1}
    <3>1. Matching(request.for) = stored /\ PageSize = L
      BY <1>4 DEF Matching, NoCriteria, PageSize
    <3>2. seen = {b \in stored : /\ Rank(b, stored) \div L = at - 1
                                 /\ (request.view = "search" => Rank(b, stored) < MaximumResults)}
      BY <3>1 DEF at
    <3>. HIDE DEF L
    <3>3. request.view # "search"
      BY <1>4
    <3>. QED
      BY <3>2, <3>3
  <2>2. ASSUME NEW b \in stored, b \notin seen, Rank(b, stored) >= (at - 1) * L
        PROVE  Rank(b, stored) >= at * L
    <3>. DEFINE r == Rank(b, stored)
    <3>1. r \in Nat
      <4>1. stored \in SUBSET stored /\ IsFiniteSet(stored)
        BY DEF BrowseInv
      <4>. QED
        BY <4>1, RankGrows
    <3>2. r \div L # at - 1
      BY <2>1, <2>2
    <3>3. r >= (at - 1) * L
      BY <2>2
    <3>. HIDE DEF r, L
    <3>4. at - 1 \in Int /\ (at - 1) * L \in Int /\ at * L = (at - 1) * L + L
      BY <1>1
    <3>5. ~(r < (at - 1) * L + L)
      <4>1. SUFFICES ASSUME r < (at - 1) * L + L PROVE FALSE
        OBVIOUS
      <4>2. L \in Nat \ {0} /\ at - 1 \in Int /\ (at - 1) * L <= r
        BY <1>1, <3>1, <3>3, <3>4
      <4>3. r \div L = at - 1
        BY <3>1, <4>1, <4>2, QuotientIs
      <4>. QED
        BY <3>2, <4>3
    <3>6. r >= at * L
      BY <1>1, <3>1, <3>4, <3>5
    <3>. QED
      BY <3>6 DEF r, L
  <2>3. CASE at = 1
    <3>1. walked' = 1 /\ owed' = stored \ seen /\ shrunk' = FALSE
      BY <1>1, <1>4, <2>3 DEF Walk, at
    <3>2. \A b \in stored : Rank(b, stored) >= (at - 1) * L
      <4>1. TAKE b \in stored
      <4>2. Rank(b, stored) \in Nat
        <5>1. stored \in SUBSET stored /\ IsFiniteSet(stored)
          BY DEF BrowseInv
        <5>. QED
          BY <5>1, RankGrows
      <4>3. (at - 1) * L = 0
        BY <1>1, <2>3
      <4>. QED
        BY <4>2, <4>3
    <3>3. \A b \in owed' : Rank(b, stored) >= at * L
      BY <2>2, <3>1, <3>2
    <3>4. OwedIsAhead'
      BY <1>2, <2>3, <3>1, <3>3 DEF OwedIsAhead
    <3>. QED
      BY <1>4, <3>1, <3>4
  <2>4. CASE at # 1
    <3>1. walked' = (IF at > walked THEN at ELSE walked) /\ owed' = owed \ seen
          /\ shrunk' = shrunk
      BY <1>1, <1>4, <2>4 DEF Walk, at
    <3>2. walked > 0 /\ (at > walked => at = walked + 1)
      BY <1>1, <1>4, <2>4
    <3>3. OwedIsAhead'
      <4>1. SUFFICES ASSUME ~shrunk, NEW b \in owed, b \notin seen
                     PROVE  Rank(b, stored) >= walked' * L
        BY <1>2, <3>1 DEF OwedIsAhead
      <4>2. Rank(b, stored) >= walked * L
        BY <3>2, <4>1 DEF BrowseInv, OwedIsAhead
      <4>3. CASE at > walked
        <5>1. at - 1 = walked /\ walked' = at
          BY <1>1, <3>1, <3>2, <4>3
        <5>2. Rank(b, stored) >= (at - 1) * L
          BY <4>2, <5>1
        <5>3. b \in stored
          BY <1>2
        <5>4. Rank(b, stored) >= at * L
          BY <2>2, <4>1, <5>2, <5>3
        <5>. QED
          BY <5>1, <5>4
      <4>4. CASE ~(at > walked)
        BY <3>1, <4>2, <4>4
      <4>. QED
        BY <4>3, <4>4
    <3>4. walked' \in Nat /\ owed' \subseteq stored
      BY <1>1, <1>2, <3>1
    <3>. QED
      BY <1>2, <1>4, <3>1, <3>3, <3>4
  <2>. QED
    BY <2>3, <2>4
<1>. QED
  BY <1>1, <1>3, <1>4

\* Fewer bookmarks are newer than one than the pages up to the last hold.
LEMMA NothingBehindLastPage ==
  ASSUME NEW S \in SUBSET Bookmarks, IsFiniteSet(S), NEW size \in Nat \ {0}, NEW b \in S
  PROVE  ~(Rank(b, S) >= LastPage(Cardinality(S), size) * size)
<1>. DEFINE n == Cardinality(S)
            end == LastPage(n, size)
<1>1. n \in Nat /\ Rank(b, S) \in 0..(n - 1)
  BY RankBound
<1>2. end \in Nat \ {0} /\ n <= end * size
  BY <1>1, LastPageHolds
<1>. HIDE DEF n, end
<1>3. end * size \in Int
  BY <1>2
<1>4. ~(Rank(b, S) >= end * size)
  BY <1>1, <1>2, <1>3
<1>. QED
  BY <1>4 DEF n, end

LEMMA InvAtQueryPage == ASSUME BrowseInv, QueryPage PROVE BrowseInv'
<1>. DEFINE M == Matching(request.for)
            some == Page(NewestFirst(M))
<1>1. /\ query = "page" /\ query' = "tags" /\ ids' = some /\ stored' = stored
      /\ tagged' = tagged /\ request' = request /\ matches' = matches /\ moved' = moved
  BY DEF QueryPage, table
<1>2. /\ M \in SUBSET Bookmarks /\ IsFiniteSet(M) /\ some \in Seq(M)
      /\ Range(some) = {b \in M : /\ Rank(b, M) \div PageSize = Answer.page - 1
                                  /\ (request.view = "search" => Rank(b, M) < MaximumResults)}
  BY PageOfAnswer DEF BrowseInv
<1>3. M' = M
  BY DEF QueryPage, Matching, table
<1>4. Answer' = Answer /\ \A rows : Page(rows)' = Page(rows)
  BY <1>1, AnswerKept
<1>5. NewestFirst(M)' = NewestFirst(M)
  BY <1>3 DEF NewestFirst
<1>6. PageIsTrue'
  BY <1>1, <1>3, <1>4, <1>5 DEF PageIsTrue
<1>7. matches = Cardinality(M) \/ "page" \in moved
  BY <1>1 DEF BrowseInv, CountIsTrue
<1>8. CountIsTrue'
  BY <1>1, <1>3, <1>7 DEF CountIsTrue
<1>9. /\ OwedIsAhead' /\ walked' \in Nat /\ owed' \subseteq stored /\ shrunk' \in BOOLEAN
      /\ walked' > 0 => request.view = "list" /\ request.for = NoCriteria
  <2>1. Walk(Answer.page, Range(some)) /\ UNCHANGED <<table, request, matches>>
    BY <1>1 DEF QueryPage
  <2>. QED
    BY <1>2, <2>1, WalkGoesOn
<1>10. Range(ids') \subseteq M
  BY <1>1, <1>2
<1>11. ids' \in Seq(Bookmarks)
  BY <1>1, <1>2
<1>12. BrowseTypeOK'
  <2>1. Range(ids') \subseteq Bookmarks
    BY <1>2, <1>10
  <2>2. labelled' \subseteq Range(ids')
    BY <1>1 DEF QueryPage, BrowseInv, TagsAreTrue
  <2>3. stored' \subseteq inserted' /\ inserted' \subseteq Bookmarks
        /\ tagged' \subseteq stored' /\ worded' \subseteq stored' /\ owed' \subseteq stored'
    BY <1>1, <1>9 DEF QueryPage, BrowseInv, BrowseTypeOK, table
  <2>4. /\ query' \in {"idle", "count", "page", "tags", "shown"}
        /\ request' \in Request /\ asked' \in Criteria /\ matches' \in Nat
        /\ moved' \subseteq {"count", "page", "tags", "shown"}
    BY <1>1 DEF QueryPage, BrowseInv, BrowseTypeOK
  <2>. QED
    BY <1>9, <2>1, <2>2, <2>3, <2>4 DEF BrowseTypeOK
<1>13. TagsAreTrue'
  BY <1>1, <1>10 DEF QueryPage, BrowseInv, TagsAreTrue, Matching
<1>14. WalkIsDone'
  <2>1. SUFFICES ASSUME walked' > 0, Answer.page = Answer.last, walked' = Answer.page,
                        ~shrunk', "page" \notin moved, NEW b \in owed'
                 PROVE  FALSE
    BY <1>1, <1>4 DEF WalkIsDone
  <2>2. M = stored /\ PageSize = ListPageSize /\ Within(matches) = Cardinality(stored)
    <3>1. request.view = "list" /\ request.for = NoCriteria
      BY <1>9, <2>1
    <3>2. matches = Cardinality(M)
      BY <1>7, <2>1
    <3>3. M = stored
      BY <3>1 DEF Matching, NoCriteria
    <3>4. PageSize = ListPageSize
      BY <3>1 DEF PageSize
    <3>5. Within(matches) = Cardinality(stored)
      <4>1. request.view # "search"
        BY <3>1
      <4>2. Within(matches) = matches
        BY <4>1 DEF Within
      <4>. QED
        BY <3>2, <3>3, <4>2
    <3>. QED
      BY <3>3, <3>4, <3>5
  <2>3. Answer.last = LastPage(Cardinality(stored), ListPageSize) /\ ListPageSize \in Nat \ {0}
    BY <2>2, AnswerTypes DEF BrowseInv
  <2>4. b \in stored /\ stored \in SUBSET Bookmarks /\ IsFiniteSet(stored)
    BY <1>2, <1>9, <2>2
  <2>5. Rank(b, stored) >= walked' * ListPageSize
    BY <1>1, <1>9, <2>1 DEF OwedIsAhead
  <2>. QED
    BY <2>1, <2>3, <2>4, <2>5, NothingBehindLastPage
<1>. QED
  BY <1>1, <1>6, <1>8, <1>9, <1>11, <1>12, <1>13, <1>14 DEF BrowseInv

LEMMA InvAtHydrateTags == ASSUME BrowseInv, HydrateTags PROVE BrowseInv'
<1>. DEFINE M == Matching(request.for)
<1>1. /\ query = "tags" /\ query' = "shown" /\ labelled' = Range(ids) \cap tagged
      /\ request' = request /\ matches' = matches /\ ids' = ids /\ moved' = moved
      /\ stored' = stored /\ tagged' = tagged /\ walked' = walked /\ owed' = owed
      /\ shrunk' = shrunk
  BY DEF HydrateTags, table, walk
<1>2. Answer' = Answer /\ \A rows : Page(rows)' = Page(rows)
  BY <1>1, AnswerKept
<1>3. M' = M
  BY DEF HydrateTags, Matching, table
<1>4. NewestFirst(M)' = NewestFirst(M)
  BY <1>3 DEF NewestFirst
<1>5. BrowseTypeOK'
  <2>1. labelled' \subseteq Range(ids')
    BY <1>1
  <2>. QED
    BY <1>1, <2>1 DEF HydrateTags, BrowseInv, BrowseTypeOK, table, walk
<1>6. ids' \in Seq(Bookmarks) /\ IsFiniteSet(stored') /\ OwedIsAhead'
  BY <1>1 DEF BrowseInv, OwedIsAhead
<1>7. CountIsTrue'
  BY <1>1, <1>3 DEF BrowseInv, CountIsTrue
<1>8. PageIsTrue'
  BY <1>1, <1>2, <1>3, <1>4 DEF BrowseInv, PageIsTrue
<1>9. TagsAreTrue'
  BY <1>1 DEF BrowseInv, TagsAreTrue
<1>10. WalkIsDone'
  BY <1>1, <1>2 DEF BrowseInv, WalkIsDone
<1>. QED
  BY <1>5, <1>6, <1>7, <1>8, <1>9, <1>10 DEF BrowseInv

LEMMA InvAtBrowseStutter == ASSUME BrowseInv, UNCHANGED browseVars PROVE BrowseInv'
<1>. DEFINE M == Matching(request.for)
<1>1. /\ query' = query /\ labelled' = labelled /\ UNCHANGED <<table, walk>>
      /\ request' = request /\ matches' = matches /\ ids' = ids /\ moved' = moved
  BY DEF browseVars
<1>2. stored' = stored /\ tagged' = tagged /\ walked' = walked /\ owed' = owed /\ shrunk' = shrunk
  BY <1>1 DEF table, walk
<1>3. M' = M /\ Answer' = Answer /\ \A rows : Page(rows)' = Page(rows)
  BY <1>1, AnswerKept DEF Matching, table
<1>4. NewestFirst(M)' = NewestFirst(M)
  BY <1>3 DEF NewestFirst
<1>5. BrowseTypeOK' /\ ids' \in Seq(Bookmarks) /\ IsFiniteSet(stored') /\ OwedIsAhead'
  BY <1>1, <1>2 DEF BrowseInv, BrowseTypeOK, OwedIsAhead, browseVars, table, walk
<1>6. CountIsTrue' /\ TagsAreTrue'
  BY <1>1, <1>2, <1>3 DEF BrowseInv, CountIsTrue, TagsAreTrue
<1>7. PageIsTrue' /\ WalkIsDone'
  BY <1>1, <1>2, <1>3, <1>4 DEF BrowseInv, PageIsTrue, WalkIsDone
<1>. QED
  BY <1>5, <1>6, <1>7 DEF BrowseInv

LEMMA BrowseInvInductive == ASSUME BrowseInv, [BrowseNext]_browseVars PROVE BrowseInv'
<1>1. ASSUME NEW via \in {"web", "stream"}, NEW view \in {"list", "search"},
             NEW c \in Criteria, NEW n \in 0..MaxPage, Visit(via, view, c, n)
      PROVE  BrowseInv'
  <2>1. n \in Nat
    BY BrowseAssumption
  <2>. QED
    BY <1>1, <2>1, InvAtVisit
<1>2. ASSUME NEW i \in 1..Len(Answer.links), Follow(i)
      PROVE  BrowseInv'
  BY <1>2, InvAtFollow
<1>3. CASE Leave \/ Fail
  BY <1>3, InvAtReturn
<1>4. CASE Count
  BY <1>4, InvAtCount
<1>5. CASE QueryPage
  BY <1>5, InvAtQueryPage
<1>6. CASE HydrateTags
  BY <1>6, InvAtHydrateTags
<1>7. ASSUME NEW b \in Bookmarks, Insert(b) \/ Change(b) \/ Delete(b)
      PROVE  BrowseInv'
  BY <1>7, InvAtInsert, InvAtChange, InvAtDelete
<1>8. CASE UNCHANGED browseVars
  BY <1>8, InvAtBrowseStutter
<1>. QED
  BY <1>1, <1>2, <1>3, <1>4, <1>5, <1>6, <1>7, <1>8 DEF BrowseNext

LEMMA BrowseInvariant == BrowseSpec => []BrowseInv
<1>1. BrowseInit => BrowseInv
  BY BrowseInvHolds
<1>2. BrowseInv /\ [BrowseNext]_browseVars => BrowseInv'
  BY BrowseInvInductive
<1>. QED
  BY <1>1, <1>2, PTL DEF BrowseSpec

\* What an answer says is true of the collection it was made from
\* (ListBookmarks, SearchBookmarks): with no write in between it lists exactly the
\* bookmarks of the page that it says it is, newest first, with their tags.
THEOREM AnswersAreExact == BrowseSpec => []AnswersAreTrue
<1>1. BrowseInv => AnswersAreTrue
  <2>. SUFFICES ASSUME BrowseInv PROVE AnswersAreTrue
    OBVIOUS
  <2>. DEFINE M == Matching(request.for)
  <2>1. QuietAnswerIsExact
    <3>1. SUFFICES ASSUME query = "shown", moved = {}
                   PROVE  /\ Range(ids) = {b \in Bookmarks : PageHolds(b)}
                          /\ \A i, j \in 1..Len(ids) : i < j => Newer(ids[i], ids[j])
                          /\ ids = <<>> => M = {}
                          /\ labelled = Range(ids) \cap tagged
      BY DEF QuietAnswerIsExact
    <3>2. ids = Page(NewestFirst(M)) /\ matches = Cardinality(M)
      BY <3>1 DEF BrowseInv, PageIsTrue, CountIsTrue
    <3>3. /\ M \in SUBSET Bookmarks
          /\ Range(ids) = {b \in M : /\ Rank(b, M) \div PageSize = Answer.page - 1
                                     /\ (request.view = "search" => Rank(b, M) < MaximumResults)}
          /\ \A i, j \in 1..Len(ids) : i < j => Newer(ids[i], ids[j])
          /\ matches = Cardinality(M) /\ ids = <<>> => M = {}
      BY <3>2, PageOfAnswer DEF BrowseInv
    <3>4. \A b : PageHolds(b) <=> /\ b \in M /\ Rank(b, M) \div PageSize = Answer.page - 1
                                  /\ (request.view = "search" => Rank(b, M) < MaximumResults)
      BY DEF PageHolds
    <3>. HIDE DEF M
    <3>5. Range(ids) = {b \in Bookmarks : PageHolds(b)}
      BY <3>3, <3>4
    <3>6. labelled = Range(ids) \cap tagged
      BY <3>1 DEF BrowseInv, TagsAreTrue
    <3>. QED
      BY <3>2, <3>3, <3>5, <3>6
  <2>2. FoundTagIsShown
    BY DEF BrowseInv, TagsAreTrue, FoundTagIsShown
  <2>. QED
    BY <2>1, <2>2 DEF BrowseInv, AnswersAreTrue
<1>. QED
  BY <1>1, BrowseInvariant, PTL

\* A visitor who reads the plain list from the first page to the last misses no
\* bookmark that was there all the time: creations only push the rest further back,
\* and the offset of each page is that of the page shown.
THEOREM NothingIsMissed == BrowseSpec => []WalkMissesNothing
<1>1. BrowseInv => WalkMissesNothing
  BY DEF BrowseInv, WalkIsDone, WalkMissesNothing
<1>. QED
  BY <1>1, BrowseInvariant, PTL

\* The page of every answer exists, and its links account for every page
\* (NewPagination), whatever the collection, the page size and the page asked for.
THEOREM LinksCoverAll == BrowseSpec => []PageLinksCoverPages
<1>1. BrowseInv => PageLinksCoverPages
  <2>. SUFFICES ASSUME BrowseInv PROVE PageLinksCoverPages
    OBVIOUS
  <2>1. LinksCoverPages(request.page, Within(matches), PageSize)
    <3>1. PageSize \in Nat \ {0} /\ request.page \in Int /\ Within(matches) \in Nat
      BY AnswerTypes DEF BrowseInv
    <3>. QED
      BY <3>1, EveryAnswerCovers
  <2>2. EveryAnswerCoversPages
    <3>1. SUFFICES ASSUME NEW total \in 0..MaxTotal, NEW size \in PageSizes,
                          NEW n \in -1..(MaxTotal + 1)
                   PROVE  LinksCoverPages(n, total, size)
      BY DEF EveryAnswerCoversPages
    <3>2. total \in Nat /\ n \in Int /\ size \in Nat \ {0}
      BY BrowseAssumption
    <3>. QED
      BY <3>2, EveryAnswerCovers
  <2>. QED
    BY <2>1, <2>2 DEF PageLinksCoverPages
<1>. QED
  BY <1>1, BrowseInvariant, PTL
=============================================================================
