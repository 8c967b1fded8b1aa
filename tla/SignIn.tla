-------------------------------- MODULE SignIn --------------------------------
(***************************************************************************)
(* Signing in and out: Authenticator of bookmarker/usecase/auth.go over    *)
(* the tables login_throttle_pairs and web_sessions of                     *)
(* postgres/auth_store.go, as the handlers of httpweb/auth_handlers.go     *)
(* call it for one browser.  A sign-in reads the clock once, checks the    *)
(* throttle, verifies the password and only then writes to the database,   *)
(* one statement after the other; requests of several tabs interleave.     *)
(***************************************************************************)
EXTENDS Naturals, FiniteSets

CONSTANTS
  Pairs,              \* username and source address
  Sessions,           \* session ids, each with its token
  Handlers,           \* requests that are served at the same time
  ThrottleFailures,   \* throttleFailureLimit: 5
  ThrottleWindow,     \* 10 minutes
  BlockDuration,      \* 15 minutes
  Faults,             \* {"db"} when database calls fail, {} when they do not
  MaxClock,           \* bound: the last instant
  NoSession, NoPair

ASSUME ConstantsAssumption ==
  /\ ThrottleFailures \in Nat \ {0, 1} /\ ThrottleWindow \in Nat \ {0}
  /\ BlockDuration \in Nat /\ BlockDuration >= ThrottleWindow
  /\ Faults \subseteq {"db"} /\ MaxClock \in Nat
  /\ NoSession \notin Sessions /\ NoPair \notin Pairs

VARIABLES
  row,        \* table login_throttle_pairs; a failure_count of 0 is no row
  session,    \* table web_sessions: the state column, "none" before its row
  cookie,     \* the session whose token the browser sends
  clock,
  pc,         \* the next step of a handler
  pair, token, now,  \* its username and source, its cookie, the clock it read
  wrong,      \* history: of each instant, the attempts made then whose password
              \* was wrong, since failures were cleared last; kept up until a
              \* fault happens or two attempts overlap
  raced,      \* history: pairs of which two attempts were made at a time
  faults      \* the kinds of fault that have happened so far

request == <<pair, token, now>>
vars == <<row, session, cookie, clock, pc, request, wrong, raced, faults>>

Fault == "db" \in Faults /\ faults' = faults \cup {"db"}
NoFault == UNCHANGED faults
At(h, label) == pc[h] = label
Goto(h, label) == pc' = [pc EXCEPT ![h] = label] /\ UNCHANGED request
Answer(h) == /\ pc' = [pc EXCEPT ![h] = "idle"]
             /\ pair' = [pair EXCEPT ![h] = NoPair]
             /\ token' = [token EXCEPT ![h] = NoSession]
             /\ now' = [now EXCEPT ![h] = 0]

NoRow == [failure_count |-> 0, window_started_at |-> 0, blocked_until |-> 0]
Attempting == {"is_blocked", "verify", "record_failure", "revoke_old", "clear_failures", "create_session"}
Active(s) == s \in Sessions /\ session[s] \in {"anonymous", "authenticated"}
Blocked(p, t) == row[p].blocked_until > t
Stores(s, kind) == session[s] = "none" /\ session' = [session EXCEPT ![s] = kind]

Init ==
  /\ row = [p \in Pairs |-> NoRow]
  /\ session = [s \in Sessions |-> "none"]
  /\ cookie = NoSession
  /\ clock = 0
  /\ pc = [h \in Handlers |-> "idle"]
  /\ pair = [h \in Handlers |-> NoPair]
  /\ token = [h \in Handlers |-> NoSession]
  /\ now = [h \in Handlers |-> 0]
  /\ wrong = [p \in Pairs |-> [t \in 0..MaxClock |-> 0]]
  /\ raced = {}
  /\ faults = {}

-----------------------------------------------------------------------------
(* GET /login: NewAnonymousSession, and its token in the cookie, whatever  *)
(* the browser had there before.                                           *)

LoginPage == \E s \in Sessions :
  /\ Stores(s, "anonymous") /\ cookie' = s
  /\ UNCHANGED <<row, clock, pc, request, wrong, raced, faults>>

-----------------------------------------------------------------------------
(* POST /login: SignIn, after VerifyCSRF found the session of the cookie.  *)

BeginSignIn(h) == \E p \in Pairs :
  /\ At(h, "idle") /\ Active(cookie)
  /\ pair' = [pair EXCEPT ![h] = p]
  /\ token' = [token EXCEPT ![h] = cookie]
  /\ now' = [now EXCEPT ![h] = clock]
  /\ pc' = [pc EXCEPT ![h] = "is_blocked"]
  /\ IF \E g \in Handlers : pc[g] \in Attempting /\ pair[g] = p
     THEN raced' = raced \cup {p} /\ wrong' = [wrong EXCEPT ![p] = [t \in 0..MaxClock |-> 0]]
     ELSE UNCHANGED <<raced, wrong>>
  /\ UNCHANGED <<row, session, cookie, clock, faults>>

\* Mutants: the answer of the throttle is dropped; a refused attempt counts as
\* a failure.
IsBlockedIgnored(h) ==
  /\ At(h, "is_blocked") /\ NoFault
  /\ Goto(h, "verify")
  /\ UNCHANGED <<row, session, cookie, clock, wrong, raced>>
IsBlockedRecording(h) ==
  /\ At(h, "is_blocked") /\ NoFault
  /\ Goto(h, IF Blocked(pair[h], now[h]) THEN "record_failure" ELSE "verify")
  /\ UNCHANGED <<row, session, cookie, clock, wrong, raced>>

IsBlocked(h) ==
  /\ At(h, "is_blocked")
  /\ \/ ~Blocked(pair[h], now[h]) /\ Goto(h, "verify") /\ NoFault
     \/ Answer(h) /\ ((Blocked(pair[h], now[h]) /\ NoFault) \/ Fault)
  /\ UNCHANGED <<row, session, cookie, clock, wrong, raced>>

Verify(h) ==
  /\ At(h, "verify")
  /\ \/ Goto(h, "revoke_old") /\ UNCHANGED wrong
     \/ /\ Goto(h, "record_failure")
        /\ wrong' = IF faults = {} /\ pair[h] \notin raced
                    THEN [wrong EXCEPT ![pair[h]][now[h]] = @ + 1] ELSE wrong
  /\ UNCHANGED <<row, session, cookie, clock, raced, faults>>

\* Mutant: a window ends too early.
FailedShortWindow(p, t) ==
  LET n == IF row[p].window_started_at + ThrottleWindow <= t + 1 THEN 1 ELSE row[p].failure_count + 1
  IN  [failure_count |-> n,
       window_started_at |-> IF n = 1 THEN t ELSE row[p].window_started_at,
       blocked_until |-> IF n >= ThrottleFailures THEN t + BlockDuration ELSE row[p].blocked_until]

\* The row after a failure at t: a first one is inserted without a block.
Failed(p, t) ==
  LET first == row[p].failure_count = 0
      fresh == row[p].window_started_at + ThrottleWindow <= t
      n == IF first \/ fresh THEN 1 ELSE row[p].failure_count + 1
  IN  [failure_count |-> n,
       window_started_at |-> IF first \/ fresh THEN t ELSE row[p].window_started_at,
       blocked_until |-> IF n >= ThrottleFailures THEN t + BlockDuration ELSE row[p].blocked_until]

\* RecordFailure, one statement, with the clock read at the begin; its error
\* is ignored.
RecordFailure(h) ==
  /\ At(h, "record_failure")
  /\ \/ row' = [row EXCEPT ![pair[h]] = Failed(pair[h], now[h])] /\ NoFault
     \/ Fault /\ UNCHANGED row
  /\ Answer(h)
  /\ UNCHANGED <<session, cookie, clock, wrong, raced>>

Revokes(s) == session' = [session EXCEPT ![s] = "revoked"]

\* Mutant: only an authenticated session is rotated.
RevokeOldAuthenticated(h) ==
  /\ At(h, "revoke_old") /\ NoFault
  /\ IF session[token[h]] = "authenticated" THEN Revokes(token[h]) ELSE UNCHANGED session
  /\ Goto(h, "clear_failures")
  /\ UNCHANGED <<row, cookie, clock, wrong, raced>>

\* FindActiveSession and RevokeSession of the old session; errors are ignored.
RevokeOld(h) ==
  /\ At(h, "revoke_old")
  /\ \/ Revokes(token[h]) /\ NoFault
     \/ Fault /\ UNCHANGED session
  /\ Goto(h, "clear_failures")
  /\ UNCHANGED <<row, cookie, clock, wrong, raced>>

ClearFailures(h) ==
  /\ At(h, "clear_failures")
  /\ \/ /\ row' = [row EXCEPT ![pair[h]] = NoRow]
        /\ wrong' = [wrong EXCEPT ![pair[h]] = [t \in 0..MaxClock |-> 0]]
        /\ Goto(h, "create_session") /\ NoFault
     \/ Fault /\ UNCHANGED <<row, wrong>> /\ Answer(h)
  /\ UNCHANGED <<session, cookie, clock, raced>>

CreateSession(h) ==
  /\ At(h, "create_session")
  /\ \/ \E s \in Sessions : Stores(s, "authenticated") /\ cookie' = s /\ NoFault
     \/ Fault /\ UNCHANGED <<session, cookie>>
  /\ Answer(h)
  /\ UNCHANGED <<row, clock, wrong, raced>>

-----------------------------------------------------------------------------
(* POST /logout.                                                           *)

BeginSignOut(h) ==
  /\ At(h, "idle") /\ cookie \in Sessions
  /\ token' = [token EXCEPT ![h] = cookie]
  /\ pc' = [pc EXCEPT ![h] = "sign_out"]
  /\ UNCHANGED <<row, session, cookie, clock, pair, now, wrong, raced, faults>>

\* SignOut; the handler ignores its error and clears the cookie.
SignOut(h) ==
  /\ At(h, "sign_out")
  /\ \/ Revokes(token[h]) /\ NoFault
     \/ Fault /\ UNCHANGED session
  /\ cookie' = NoSession
  /\ Answer(h)
  /\ UNCHANGED <<row, clock, wrong, raced>>

-----------------------------------------------------------------------------
Tick ==
  /\ clock < MaxClock /\ clock' = clock + 1
  /\ UNCHANGED <<row, session, cookie, pc, request, wrong, raced, faults>>

Next ==
  \/ LoginPage \/ Tick
  \/ \E h \in Handlers :
       \/ BeginSignIn(h) \/ IsBlocked(h) \/ Verify(h) \/ RecordFailure(h)
       \/ RevokeOld(h) \/ ClearFailures(h) \/ CreateSession(h)
       \/ BeginSignOut(h) \/ SignOut(h)

Spec == Init /\ [][Next]_vars

-----------------------------------------------------------------------------
(* Properties.                                                             *)

\* The rows and the requests have the types their declarations say.
TypeOK ==
  /\ row \in [Pairs -> [failure_count : Nat, window_started_at : 0..MaxClock,
                        blocked_until : 0..(MaxClock + BlockDuration)]]
  /\ session \in [Sessions -> {"none", "anonymous", "authenticated", "revoked"}]
  /\ cookie \in Sessions \cup {NoSession}
  /\ clock \in 0..MaxClock
  /\ pc \in [Handlers -> Attempting \cup {"idle", "sign_out"}]
  /\ pair \in [Handlers -> Pairs \cup {NoPair}]
  /\ token \in [Handlers -> Sessions \cup {NoSession}]
  /\ now \in [Handlers -> 0..MaxClock]
  /\ wrong \in [Pairs -> [0..MaxClock -> Nat]]
  /\ raced \subseteq Pairs
  /\ faults \subseteq Faults

\* The wrong attempts of a pair: the instant of each and its number at that instant.
Tries(p) == UNION {{t} \X (1..wrong[p][t]) : t \in 0..MaxClock}
WrongWithin(p, s) == Cardinality({a \in Tries(p) : s <= a[1] /\ a[1] < s + ThrottleWindow})

\* However attempts that do not overlap are spread, at most twice the limit less two of
\* a pair are wrong in any stretch as long as the window: what one counting window has
\* left over, and a full one (auth_store.go:96-117).  A failure that could not be
\* recorded is not counted: excepted.
GuessesBounded == faults = {} => \A p \in Pairs \ raced, s \in 0..MaxClock :
  WrongWithin(p, s) <= 2 * ThrottleFailures - 2

\* spec.md FR-031: after the limit's number of failures within the window, no
\* further password is tried.
LimitPerWindow == \A p \in Pairs, s \in 0..MaxClock :
  WrongWithin(p, s) <= ThrottleFailures

\* data-model.md:223: while a pair is blocked, no password is verified for it.  An
\* attempt that was checked before another one of the pair failed goes on: excepted.
BlockedPairVerifiesNothing ==
  [][\A h \in Handlers : /\ At(h, "verify") /\ pc'[h] # "verify" /\ pair[h] \notin raced
                         => ~Blocked(pair[h], clock)]_vars

\* A block, once set, stands until it ends (spec.md FR-031: for 15 minutes): without
\* overlapping attempts no later failure moves it and no success lifts it.
BlockStands == [][\A p \in Pairs \ raced : Blocked(p, clock) => row'[p] = row[p]]_vars

\* A browser that signs in leaves no usable session behind under the token it
\* came with, in whatever order its tabs sign in and out (auth.go:78-82); the error
\* of the revocation is ignored: excepted.
SignInRotates ==
  [][\A h \in Handlers : /\ At(h, "create_session") /\ pc'[h] = "idle" /\ faults = {}
                         => ~Active(token[h])]_vars
=============================================================================
