----------------------------- MODULE StreamSession -----------------------------
(***************************************************************************)
(* The command-line program: a stream of JSON lines, each handled and      *)
(* answered before the next one is read, and the session that the stream   *)
(* keeps in its memory (adapters/jsonl/protocol.go, *_operations.go).      *)
(* Several programs run on one database; the retention of one that starts  *)
(* may delete the sessions of the others.                                  *)
(*                                                                         *)
(* An operation is the control it takes: "protected" is any of the ten     *)
(* that need the administrator, "public" a list or a search, "malformed" a *)
(* line that the envelope refuses or an operation that does not exist.     *)
(* What a protected operation does is the subject of the other modules.    *)
(***************************************************************************)
EXTENDS Naturals, FiniteSets

CONSTANTS
  Streams,
  Sessions,
  Faults,     \* {"db"} when database calls fail, {} when they do not
  MaxLines,   \* bound: the lines of one stream
  NoSession, NoStream

ASSUME StreamAssumption ==
  /\ Faults \subseteq {"db"} /\ MaxLines \in Nat
  /\ NoSession \notin Sessions /\ NoStream \notin Streams

VARIABLES
  session,   \* table web_sessions: the state column, "none" without a row
  owner,     \* the stream for which a session was made
  token,     \* sessionToken of a stream
  step,      \* the next step of a stream
  asked,     \* the lines it has read that want an answer
  answers,   \* the answers it has written
  told,      \* whether the last of them that spoke of it said authenticated
  refused,   \* the last answer was authentication_required
  troubled   \* history: streams of which a call failed or a session was deleted

client == <<asked, answers, told, refused>>
streamVars == <<session, owner, token, step, client, troubled>>

Operations == {"blank", "malformed", "too_long", "public", "sign_in", "sign_out", "protected"}

AtStep(s, label) == step[s] = label
ToStep(s, label) == step' = [step EXCEPT ![s] = label]
Usable(i) == i \in Sessions /\ session[i] = "authenticated"

Fault(s) == "db" \in Faults /\ troubled' = troubled \cup {s}
NoFault == UNCHANGED troubled

StreamInit ==
  /\ session = [i \in Sessions |-> "none"] /\ owner = [i \in Sessions |-> NoStream]
  /\ token = [s \in Streams |-> NoSession]
  /\ step = [s \in Streams |-> "read"]
  /\ asked = [s \in Streams |-> 0] /\ answers = [s \in Streams |-> 0]
  /\ told = [s \in Streams |-> FALSE] /\ refused = [s \in Streams |-> FALSE]
  /\ troubled = {}

\* write: one line of output.
Write(s) == /\ answers' = [answers EXCEPT ![s] = @ + 1] /\ UNCHANGED asked

\* An answer, after which the next line is read.
Respond(s) == Write(s) /\ ToStep(s, "read")
Says(s, authenticated) ==
  /\ told' = [told EXCEPT ![s] = authenticated] /\ refused' = [refused EXCEPT ![s] = FALSE]
SaysNothing(s) == /\ refused' = [refused EXCEPT ![s] = FALSE] /\ UNCHANGED told

-----------------------------------------------------------------------------
\* Bound: there are as many sign-ins as sessions.
SigningIn == {s \in Streams : step[s] \in {"sign_in", "revoke_old", "clear_failures", "create_session"}}
SessionLeft == Cardinality(SigningIn) < Cardinality({i \in Sessions : owner[i] = NoStream})

\* Serve reads a line, handle looks at its envelope.  A line that does not fit
\* into the buffer ends the scanner.
Read(s, o) ==
  /\ AtStep(s, "read") /\ asked[s] < MaxLines
  /\ o = "sign_in" => SessionLeft
  /\ IF o = "blank" THEN UNCHANGED <<step, asked>>
     ELSE /\ asked' = [asked EXCEPT ![s] = @ + 1]
          /\ ToStep(s, o)
  /\ UNCHANGED <<session, owner, token, answers, told, refused, troubled>>

EndOfInput(s) ==
  /\ AtStep(s, "read") /\ ToStep(s, "ended") /\ token' = [token EXCEPT ![s] = NoSession]
  /\ UNCHANGED <<session, owner, client, troubled>>

TooLong(s) ==
  /\ AtStep(s, "too_long")
  /\ Write(s) /\ SaysNothing(s)
  /\ ToStep(s, "ended") /\ token' = [token EXCEPT ![s] = NoSession]
  /\ UNCHANGED <<session, owner, troubled>>

Malformed(s) == /\ AtStep(s, "malformed") /\ Respond(s) /\ SaysNothing(s)
                /\ UNCHANGED <<session, owner, token, troubled>>

\* A result or an error.
Public(s) == /\ AtStep(s, "public") /\ Respond(s) /\ SaysNothing(s)
             /\ UNCHANGED <<session, owner, token, troubled>>

-----------------------------------------------------------------------------
(* auth.sign_in: the steps of Authenticator.SignIn, whose throttle is the  *)
(* subject of SignIn.                                                      *)

\* The payload cannot be read, the pair is blocked, the password is wrong, or
\* a call fails: authentication_failed, and the stream keeps its token.
Verify(s) ==
  /\ AtStep(s, "sign_in")
  /\ \/ ToStep(s, "revoke_old") /\ UNCHANGED client
     \/ Respond(s) /\ SaysNothing(s)
  /\ NoFault /\ UNCHANGED <<session, owner, token>>

\* Mutant: a sign-in on the stream does not hand its old token on.
RevokeNothing(s) ==
  /\ AtStep(s, "revoke_old") /\ ToStep(s, "clear_failures") /\ NoFault
  /\ UNCHANGED <<session, owner, token, client>>

\* FindActiveSession and RevokeSession; errors are ignored.
RevokeOld(s) ==
  /\ AtStep(s, "revoke_old")
  /\ \/ /\ session' = IF Usable(token[s]) THEN [session EXCEPT ![token[s]] = "revoked"] ELSE session
        /\ NoFault
     \/ Usable(token[s]) /\ Fault(s) /\ UNCHANGED session
  /\ ToStep(s, "clear_failures")
  /\ UNCHANGED <<owner, token, client>>

ClearFailures(s) ==
  /\ AtStep(s, "clear_failures")
  /\ \/ ToStep(s, "create_session") /\ NoFault /\ UNCHANGED client
     \/ Respond(s) /\ SaysNothing(s) /\ Fault(s)
  /\ UNCHANGED <<session, owner, token>>

CreateSession(s) ==
  /\ AtStep(s, "create_session")
  /\ \/ \E i \in Sessions :
          /\ owner[i] = NoStream
          /\ session' = [session EXCEPT ![i] = "authenticated"]
          /\ owner' = [owner EXCEPT ![i] = s]
          /\ token' = [token EXCEPT ![s] = i]
          /\ Says(s, TRUE) /\ NoFault
     \/ Fault(s) /\ SaysNothing(s) /\ UNCHANGED <<session, owner, token>>
  /\ Respond(s)

\* auth.sign_out: the answer does not depend on whether there was a session to
\* revoke, nor on whether it could be revoked.
SignOut(s) ==
  /\ AtStep(s, "sign_out")
  /\ \/ /\ session' = IF Usable(token[s]) THEN [session EXCEPT ![token[s]] = "revoked"] ELSE session
        /\ NoFault
     \/ Usable(token[s]) /\ Fault(s) /\ UNCHANGED session
  /\ token' = [token EXCEPT ![s] = NoSession]
  /\ Respond(s) /\ Says(s, FALSE)
  /\ UNCHANGED owner

\* Mutant: the error is answered and the operation carried out.
AuthorizeAndGoOn(s) ==
  /\ AtStep(s, "protected")
  /\ ToStep(s, "act") /\ NoFault
  /\ IF Usable(token[s]) THEN UNCHANGED client
     ELSE /\ Write(s) /\ refused' = [refused EXCEPT ![s] = TRUE] /\ UNCHANGED told
  /\ UNCHANGED <<session, owner, token>>

\* requirePrincipal; the token stays also when it is worth nothing any more.
Authorize(s) ==
  /\ AtStep(s, "protected")
  /\ \/ Usable(token[s]) /\ ToStep(s, "act") /\ NoFault /\ UNCHANGED client
     \/ /\ \/ ~Usable(token[s]) /\ NoFault
           \/ token[s] # NoSession /\ Fault(s)
        /\ Respond(s) /\ refused' = [refused EXCEPT ![s] = TRUE] /\ UNCHANGED told
  /\ UNCHANGED <<session, owner, token>>

\* The payload is refused, or the use case runs to its end, with or without an
\* error.
Act(s) == /\ AtStep(s, "act") /\ Respond(s) /\ SaysNothing(s)
          /\ UNCHANGED <<session, owner, token, troubled>>

-----------------------------------------------------------------------------
\* A signal ends the process: nothing handles it.
Kill(s) == /\ step[s] # "ended"
           /\ ToStep(s, "ended") /\ token' = [token EXCEPT ![s] = NoSession]
           /\ UNCHANGED <<session, owner, client, troubled>>

\* DeleteExpiredSessions of a process that starts a day later.
DropSession(i) ==
  /\ session[i] # "none"
  /\ session' = [session EXCEPT ![i] = "none"]
  /\ troubled' = troubled \cup {owner[i]}
  /\ UNCHANGED <<owner, token, step, client>>

Handle(s) ==
  \/ TooLong(s) \/ Malformed(s) \/ Public(s)
  \/ Verify(s) \/ RevokeOld(s) \/ ClearFailures(s) \/ CreateSession(s)
  \/ SignOut(s) \/ Authorize(s) \/ Act(s)

StreamNext ==
  \/ \E s \in Streams :
       (\E o \in Operations : Read(s, o)) \/ Handle(s) \/ EndOfInput(s) \/ Kill(s)
  \/ \E i \in Sessions : DropSession(i)

StreamSpec == StreamInit /\ [][StreamNext]_streamVars

-----------------------------------------------------------------------------
Handling == {"malformed", "too_long", "public", "sign_in", "sign_out", "protected",
             "revoke_old", "clear_failures", "create_session", "act"}

StreamTypeOK ==
  /\ session \in [Sessions -> {"none", "authenticated", "revoked"}]
  /\ owner \in [Sessions -> Streams \cup {NoStream}]
  /\ token \in [Streams -> Sessions \cup {NoSession}]
  /\ step \in [Streams -> Handling \cup {"read", "ended"}]
  /\ asked \in [Streams -> 0..MaxLines] /\ answers \in [Streams -> 0..MaxLines]
  /\ told \in [Streams -> BOOLEAN] /\ refused \in [Streams -> BOOLEAN]
  /\ troubled \subseteq Streams

\* A line gets exactly one answer, before the next line is read, on every path
\* through the handlers (contracts/cli-jsonl.md, Process Contract).
OneAnswerPerLine ==
  \A s \in Streams :
    /\ AtStep(s, "read") => answers[s] = asked[s]
    /\ step[s] \in Handling => answers[s] + 1 = asked[s]

\* A protected operation runs only on a stream whose client was last told that
\* it is authenticated: never before the first sign-in, and never after a
\* sign-out, whether the session could be revoked or not.
ActsOnlyWhenSignedIn == \A s \in Streams : AtStep(s, "act") => told[s]

\* A client that has been told that it is authenticated is not refused, unless
\* a call failed or a session of the stream was deleted: attempts to sign in
\* again that fail do not matter.
SignedInIsServed == \A s \in Streams : refused[s] /\ told[s] => s \in troubled

\* A stream leaves no session behind that nobody holds, as long as it runs and
\* nothing fails.
NoForgottenSession ==
  \A s \in Streams, i \in Sessions :
    owner[i] = s /\ Usable(i) /\ s \notin troubled /\ step[s] # "ended" => token[s] = i

\* The session of a stream is what its client was told of it, whatever lines
\* were sent in whatever order and whichever calls failed.
SessionIsAsTold ==
  StreamTypeOK /\ ActsOnlyWhenSignedIn /\ SignedInIsServed /\ NoForgottenSession

\* What the contract of the stream says of its end: end of input, a signal and
\* the exit of the process revoke the session (contracts/cli-jsonl.md, Stream
\* Authentication).
EndRevokes ==
  \A s \in Streams, i \in Sessions :
    owner[i] = s /\ AtStep(s, "ended") /\ s \notin troubled => ~Usable(i)
=============================================================================
