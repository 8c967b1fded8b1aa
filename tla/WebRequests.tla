------------------------------ MODULE WebRequests ------------------------------
(***************************************************************************)
(* One browser with several tabs at the web program: the cookie its tabs   *)
(* share, the page each of them shows, and the checks a request passes on  *)
(* its way to the use case (adapters/httpweb: router.go, auth_handlers.go, *)
(* and the guards that the other handlers begin with).                     *)
(*                                                                         *)
(* A page is the session in which it was rendered, whose CSRF token is in  *)
(* its forms.  A request carries the cookie of the moment it was sent; it  *)
(* reads the session table at each check and not again when it writes.     *)
(* What a write does is the subject of the other modules.  Every request   *)
(* of the pages is of the same origin.                                     *)
(***************************************************************************)
EXTENDS Naturals, FiniteSets

CONSTANTS
  Tabs,
  Sessions,   \* bound: the session ids, each with its cookie and CSRF token
  Faults,     \* {"db"} when database calls fail, {} when they do not
  NoSession

ASSUME WebAssumption == Faults \subseteq {"db"} /\ NoSession \notin Sessions

VARIABLES
  session,   \* table web_sessions: the state column, "none" before its row;
             \* "ended" once it is revoked or deleted, which no query tells apart
  cookie,    \* the session whose cookie the browser has
  page,      \* of a tab: "public", "login" or "form"
  csrf,      \* of a tab: the session its page was rendered in
  pc,        \* of the tab's request: the step that is next, or its answer
  token,     \* of the tab's request: the cookie it was sent with
  late       \* history: the request was sent when its session had ended

screen == <<cookie, page, csrf>>
webVars == <<session, screen, pc, token, late>>

Asked == {"login_page", "login", "form", "write", "logout", "public"}
Checking == {"verify", "revoke_old", "create", "csrf", "act"}
Answers == {"public_ok", "login_ok", "form_ok", "signed_in", "signed_out", "to_public", "to_login", "refused"}

At(t, label) == pc[t] = label
Goto(t, label) == pc' = [pc EXCEPT ![t] = label]
Fault == "db" \in Faults

\* The rows FindActiveSession returns, and those Authorize takes.
Active(s) == s \in Sessions /\ session[s] \in {"anonymous", "authenticated"}
Authenticated(s) == s \in Sessions /\ session[s] = "authenticated"

WebInit ==
  /\ session = [s \in Sessions |-> "none"]
  /\ cookie = NoSession
  /\ page = [t \in Tabs |-> "public"] /\ csrf = [t \in Tabs |-> NoSession]
  /\ pc = [t \in Tabs |-> "idle"] /\ token = [t \in Tabs |-> NoSession]
  /\ late = [t \in Tabs |-> FALSE]

-----------------------------------------------------------------------------
(* The browser.                                                            *)

\* Bound: as many requests that create a session as there are ids left.
Creating == {t \in Tabs : pc[t] \in {"login_page", "login", "verify", "revoke_old", "create", "to_login"}}
SessionLeft == Cardinality(Creating) < Cardinality({s \in Sessions : session[s] = "none"})

\* The links and forms of the pages: only the login page signs in, only a form
\* writes; the menu of every page links to the others and signs out.
Offered(t, k) == /\ k = "login" => page[t] = "login"
                 /\ k = "write" => page[t] = "form"

Send(t, k) ==
  /\ At(t, "idle") /\ Offered(t, k)
  /\ k \in {"login_page", "login", "form", "write"} => SessionLeft
  /\ Goto(t, k) /\ token' = [token EXCEPT ![t] = cookie]
  /\ late' = [late EXCEPT ![t] = cookie \in Sessions /\ session[cookie] = "ended"]
  /\ UNCHANGED <<session, screen>>

\* An answer with a page, which was rendered in the session of the request.
Shows(t, p, s) == page' = [page EXCEPT ![t] = p] /\ csrf' = [csrf EXCEPT ![t] = s]

\* Set-Cookie takes effect when the answer arrives, whatever the browser has by
\* then; a redirect to a page is followed with it.
Arrive(t) ==
  /\ \/ At(t, "public_ok") /\ Shows(t, "public", token[t]) /\ UNCHANGED <<cookie, token>> /\ Goto(t, "idle")
     \/ At(t, "form_ok") /\ Shows(t, "form", token[t]) /\ UNCHANGED <<cookie, token>> /\ Goto(t, "idle")
     \/ At(t, "login_ok") /\ Shows(t, "login", token[t]) /\ cookie' = token[t] /\ UNCHANGED token /\ Goto(t, "idle")
     \/ At(t, "refused") /\ UNCHANGED <<screen, token>> /\ Goto(t, "idle")
     \/ At(t, "signed_in") /\ cookie' = token[t] /\ UNCHANGED <<page, csrf, token>> /\ Goto(t, "public")
     \/ /\ At(t, "signed_out") /\ cookie' = NoSession
        /\ token' = [token EXCEPT ![t] = NoSession] /\ UNCHANGED <<page, csrf>> /\ Goto(t, "public")
     \/ /\ At(t, "to_public") /\ token' = [token EXCEPT ![t] = cookie]
        /\ UNCHANGED screen /\ Goto(t, "public")
     \/ /\ At(t, "to_login") /\ token' = [token EXCEPT ![t] = cookie]
        /\ UNCHANGED screen /\ Goto(t, "login_page")
  /\ UNCHANGED <<session, late>>

-----------------------------------------------------------------------------
(* Signing in and out.                                                     *)

\* createSession, its token into the cookie of the answer.
Creates(t, state, answer) == \E s \in Sessions :
  /\ session[s] = "none" /\ session' = [session EXCEPT ![s] = state]
  /\ token' = [token EXCEPT ![t] = s] /\ Goto(t, answer)

\* GET /login.
LoginPage(t) ==
  /\ At(t, "login_page")
  /\ \/ Creates(t, "anonymous", "login_ok")
     \/ Fault /\ Goto(t, "refused") /\ UNCHANGED <<session, token>>
  /\ UNCHANGED <<screen, late>>

\* Mutant: any token of a form will do while the session of the cookie is usable.
VerifyCSRFOfAny(t) == Active(token[t])

\* VerifyCSRF: the form was rendered in the session of the cookie, which is usable.
VerifyCSRF(t) == Active(token[t]) /\ csrf[t] = token[t]

\* Mutant: a check that fails does not end the request.
CheckGoesOn(t, passes, next, answer) == Goto(t, next)

\* A check that passes, or fails as it also does when the database does.
Check(t, passes, next, answer) ==
  \/ passes /\ Goto(t, next)
  \/ Goto(t, answer) /\ (~passes \/ Fault)

\* POST /login: the token of its form, then SignIn.
Login(t) ==
  /\ At(t, "login") /\ Check(t, VerifyCSRF(t), "verify", "refused")
  /\ UNCHANGED <<session, screen, token, late>>

\* The password and the throttle, of which module SignIn has the detail.
Verify(t) ==
  /\ At(t, "verify") /\ (Goto(t, "revoke_old") \/ Goto(t, "refused"))
  /\ UNCHANGED <<session, screen, token, late>>

Ends(s) == session' = [session EXCEPT ![s] = "ended"]
Revoke(s) == IF Active(s) THEN Ends(s) ELSE UNCHANGED session

\* The session the browser came with; errors are dropped.
RevokeOld(t) ==
  /\ At(t, "revoke_old") /\ Goto(t, "create")
  /\ \/ Revoke(token[t])
     \/ Fault /\ UNCHANGED session
  /\ UNCHANGED <<screen, token, late>>

CreateSession(t) ==
  /\ At(t, "create")
  /\ \/ Creates(t, "authenticated", "signed_in")
     \/ Fault /\ Goto(t, "refused") /\ UNCHANGED <<session, token>>
  /\ UNCHANGED <<screen, late>>

\* POST /logout: SignOut, whose error is dropped; no CSRF token is asked for.
Logout(t) ==
  /\ At(t, "logout") /\ Goto(t, "signed_out")
  /\ \/ Revoke(token[t])
     \/ Fault /\ UNCHANGED session
  /\ UNCHANGED <<screen, token, late>>

-----------------------------------------------------------------------------
(* Pages and writes.                                                       *)

\* GET /bookmarks or /search, for everyone.
Public(t) ==
  /\ At(t, "public") /\ Goto(t, "public_ok")
  /\ UNCHANGED <<session, screen, token, late>>

\* principal: Authorize of the cookie; without one, respondUnauthorized.
Principal(t) == Authenticated(token[t])

\* GET of the add, edit, delete or configuration page.
Form(t) ==
  /\ At(t, "form") /\ Check(t, Principal(t), "form_ok", "to_login")
  /\ UNCHANGED <<session, screen, token, late>>

\* POST of a bookmark, a deletion, a capture, a configuration: the administrator,
\* the token of the form, the use case.
Write(t) ==
  /\ At(t, "write") /\ Check(t, Principal(t), "csrf", "to_login")
  /\ UNCHANGED <<session, screen, token, late>>

WriteCSRF(t) ==
  /\ At(t, "csrf") /\ Check(t, VerifyCSRF(t), "act", "refused")
  /\ UNCHANGED <<session, screen, token, late>>

\* The use case, which does not ask for the session again.
Act(t) ==
  /\ At(t, "act") /\ (Goto(t, "to_public") \/ Goto(t, "refused"))
  /\ UNCHANGED <<session, screen, token, late>>

Serve(t) == \/ LoginPage(t) \/ Login(t) \/ Verify(t) \/ RevokeOld(t) \/ CreateSession(t)
            \/ Logout(t) \/ Public(t) \/ Form(t) \/ Write(t) \/ WriteCSRF(t) \/ Act(t)

-----------------------------------------------------------------------------
(* The retention of another process that starts meanwhile: it deletes by   *)
(* age alone, a session that is in use like any other.                     *)

DropSession(s) ==
  /\ Active(s) /\ Ends(s)
  /\ UNCHANGED <<screen, pc, token, late>>

WebNext == \/ \E t \in Tabs : (\E k \in Asked : Send(t, k)) \/ Serve(t) \/ Arrive(t)
           \/ \E s \in Sessions : DropSession(s)

WebSpec == WebInit /\ [][WebNext]_webVars

-----------------------------------------------------------------------------
(* Properties.                                                             *)

Acts(t) == At(t, "act") /\ pc'[t] # "act"

\* The table and the tabs have the types their declarations say; every token that
\* the browser has or a page was rendered in is of a session that was stored.
WebTypeOK ==
  /\ session \in [Sessions -> {"none", "anonymous", "authenticated", "ended"}]
  /\ cookie \in Sessions \cup {NoSession}
  /\ page \in [Tabs -> {"public", "login", "form"}]
  /\ csrf \in [Tabs -> Sessions \cup {NoSession}]
  /\ pc \in [Tabs -> {"idle"} \cup Asked \cup Checking \cup Answers]
  /\ token \in [Tabs -> Sessions \cup {NoSession}]
  /\ late \in [Tabs -> BOOLEAN]
  /\ \A s \in {cookie} \cup {csrf[t] : t \in Tabs} \cup {token[t] : t \in Tabs} :
       s \in Sessions => session[s] # "none"

\* data-model.md, invariant 8: a request that is sent once its session was revoked, by
\* a sign-out or by a sign-in in any tab, or deleted writes nothing (auth_handlers.go:39).
RevokedWritesNothing == [][\A t \in Tabs : Acts(t) => ~late[t]]_webVars

\* Only sessions that were signed in write, each from its own pages: a form that was
\* rendered before the browser signed in again is refused (auth.go:107-116).
WritesFromOwnPages == \A t \in Tabs : At(t, "act") =>
  /\ token[t] = csrf[t] /\ session[token[t]] \in {"authenticated", "ended"}

\* spec.md:103: a sign-out requires sign-in again before a write can complete.
NoWriteOnceSignedOut == [][\A t \in Tabs : Acts(t) => session[token[t]] # "ended"]_webVars

\* spec.md:150: the administrator stays signed in until the browser closes, the
\* administrator signs out, or the session becomes invalid.
StaysSignedIn == [][Authenticated(cookie) /\ ~Authenticated(cookie')
  => \/ session'[cookie] = "ended"
     \/ \E t \in Tabs : At(t, "signed_out") /\ ~At(t, "signed_out")']_webVars

\* http.md, Browser Session: sign-out revokes the session before the cookie is cleared.
ClearedIsRevoked == [][cookie' = NoSession => ~Authenticated(cookie)]_webVars
=============================================================================
