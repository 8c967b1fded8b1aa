--------------------------- MODULE Processes_proofs ---------------------------
(***************************************************************************)
(* Proofs about the programs themselves, for any number of them: how they  *)
(* start on one database (ProcessStart), the stream of the command line    *)
(* (StreamSession), and the browsers a program drives (CapturePool).  The  *)
(* names of the three modules are disjoint: each has an initial predicate, *)
(* a next-state relation and a specification of its own.                   *)
(***************************************************************************)
EXTENDS ProcessStart, StreamSession, CapturePool, FiniteSetTheorems, TLAPS

-----------------------------------------------------------------------------
(* CapturePool.                                                            *)

\* The captures that may have a browser open: a capture that releases its slot
\* has closed its own before, or failed to.
Driving == {c \in Captures : pc[c] \in Commands \cup {"close", "hung"}}

\* Each open browser is that of a capture which has not come to its close yet, or
\* of one whose close failed.
Owned == browsers \ leftOpen \subseteq {Session[c] : c \in Driving}

PoolInv == PoolTypeOK /\ Owned /\ semaphore <= MaxConcurrent

LEMMA HoldingIsFinite == IsFiniteSet(Holding) /\ Cardinality(Holding) \in Nat
<1>1. Holding \in SUBSET Captures
  BY DEF Holding
<1>. QED
  BY <1>1, FS_Subset, FS_CardinalityType, PoolAssumption

LEMMA PoolInitInv == PoolInit => PoolInv
<1>. SUFFICES ASSUME PoolInit PROVE PoolInv
  OBVIOUS
<1>1. Holding = {}
  BY DEF PoolInit, Holding, Commands
<1>2. PoolTypeOK
  BY <1>1, FS_EmptySet DEF PoolInit, PoolTypeOK
<1>. QED
  BY <1>2, PoolAssumption DEF PoolInit, PoolInv, Owned

\* A capture takes a slot exactly when it enters Holding, and gives it back
\* exactly when it leaves.
LEMMA PoolSlots ==
  ASSUME PoolInv, [PoolNext]_poolVars
  PROVE  semaphore' = Cardinality(Holding)' /\ semaphore' <= MaxConcurrent
<1>. USE HoldingIsFinite, PoolAssumption DEF PoolInv, PoolTypeOK, At, Goto, Commands
<1>1. ASSUME Holding' = Holding, semaphore' = semaphore
      PROVE  semaphore' = Cardinality(Holding)' /\ semaphore' <= MaxConcurrent
  BY <1>1
<1>2. ASSUME NEW c \in Captures, Acquire(c)
      PROVE  semaphore' = Cardinality(Holding)' /\ semaphore' <= MaxConcurrent
  <2>1. CASE semaphore < MaxConcurrent
    <3>1. Holding' = Holding \cup {c} /\ c \notin Holding
      BY <1>2, <2>1 DEF Acquire, Holding
    <3>2. Cardinality(Holding') = Cardinality(Holding) + 1
      BY <3>1, FS_AddElement
    <3>. QED
      BY <1>2, <2>1, <3>2 DEF Acquire
  <2>2. CASE ~(semaphore < MaxConcurrent)
    <3>1. Holding' = Holding /\ semaphore' = semaphore
      BY <1>2, <2>2 DEF Acquire, Holding
    <3>. QED
      BY <1>1, <3>1
  <2>. QED
    BY <2>1, <2>2
<1>3. ASSUME NEW c \in Captures, CommandEnds(c) \/ ContextEnds(c) \/ Killed(c) \/ Closing(c)
      PROVE  semaphore' = Cardinality(Holding)' /\ semaphore' <= MaxConcurrent
  <2>1. Holding' = Holding /\ semaphore' = semaphore
    BY <1>3 DEF CommandEnds, ContextEnds, Killed, Closing, Close, CloseHangs, Holding, Follows
  <2>. QED
    BY <1>1, <2>1
<1>4. ASSUME NEW c \in Captures, Release(c)
      PROVE  semaphore' = Cardinality(Holding)' /\ semaphore' <= MaxConcurrent
  <2>1. Holding' = Holding \ {c} /\ c \in Holding
    BY <1>4 DEF Release, Holding
  <2>2. Cardinality(Holding') = Cardinality(Holding) - 1
    BY <2>1, FS_RemoveElement
  <2>. QED
    BY <1>4, <2>2 DEF Release
<1>5. CASE UNCHANGED poolVars
  BY <1>1, <1>5 DEF poolVars, Holding
<1>. QED
  BY <1>2, <1>3, <1>4, <1>5 DEF PoolNext, Own

LEMMA PoolOwned ==
  ASSUME PoolInv, [PoolNext]_poolVars
  PROVE  /\ Owned' /\ browsers' \subseteq {Session[c] : c \in Captures}
         /\ leftOpen' \subseteq {Session[c] : c \in Captures}
<1>. USE DEF PoolInv, PoolTypeOK, Owned, Driving, At, Goto, Commands
<1>. DEFINE all == {Session[c] : c \in Captures}
<1>1. ASSUME NEW c \in Captures, Acquire(c)
      PROVE  Owned' /\ browsers' \subseteq all /\ leftOpen' \subseteq all
  <2>1. browsers' = browsers /\ leftOpen' \subseteq leftOpen /\ leftOpen \ leftOpen' \subseteq {Session[c]}
    BY <1>1 DEF Acquire
  <2>2. Driving \subseteq Driving' /\ (leftOpen' # leftOpen => c \in Driving')
    BY <1>1 DEF Acquire
  <2>. QED
    BY <2>1, <2>2
<1>2. ASSUME NEW c \in Captures, ContextEnds(c) \/ Release(c)
      PROVE  Owned' /\ browsers' \subseteq all /\ leftOpen' \subseteq all
  BY <1>2 DEF ContextEnds, Release
<1>3. ASSUME NEW c \in Captures, CommandEnds(c) \/ Killed(c)
      PROVE  Owned' /\ browsers' \subseteq all /\ leftOpen' \subseteq all
  <2>1. browsers' \subseteq browsers \cup {Session[c]} /\ leftOpen' = leftOpen
    BY <1>3 DEF CommandEnds, Killed
  <2>2. c \in Driving' /\ Driving' = Driving
    BY <1>3 DEF CommandEnds, Killed, Follows
  <2>. QED
    BY <2>1, <2>2
<1>4. ASSUME NEW c \in Captures, Close(c)
      PROVE  Owned' /\ browsers' \subseteq all /\ leftOpen' \subseteq all
  <2>1. Driving' = Driving \ {c}
    BY <1>4 DEF Close
  <2>2. CASE browsers' = browsers \ {Session[c]} /\ leftOpen' = leftOpen \ {Session[c]}
    BY <2>1, <2>2
  <2>3. CASE browsers' = browsers /\ leftOpen' = leftOpen \cup (browsers \cap {Session[c]})
    BY <2>1, <2>3
  <2>. QED
    BY <1>4, <2>2, <2>3 DEF Close
<1>5. ASSUME NEW c \in Captures, CloseHangs(c)
      PROVE  Owned' /\ browsers' \subseteq all /\ leftOpen' \subseteq all
  <2>1. browsers' \subseteq browsers /\ leftOpen' = leftOpen /\ Driving' = Driving
    BY <1>5 DEF CloseHangs
  <2>. QED
    BY <2>1
<1>6. CASE UNCHANGED poolVars
  BY <1>6 DEF poolVars
<1>. QED
  BY <1>1, <1>2, <1>3, <1>4, <1>5, <1>6 DEF PoolNext, Own, Closing

LEMMA PoolStepInv == PoolInv /\ [PoolNext]_poolVars => PoolInv'
<1>. SUFFICES ASSUME PoolInv, [PoolNext]_poolVars PROVE PoolInv'
  OBVIOUS
<1>1. /\ pc' \in [Captures -> Commands \cup {"idle", "refused", "close", "hung", "release", "returned"}]
      /\ expired' \subseteq Captures
  BY DEF PoolInv, PoolTypeOK, PoolNext, Own, Closing, Acquire, CommandEnds, ContextEnds, Killed, Close, CloseHangs, Release,
     Goto, Commands, Follows, poolVars
<1>. QED
  BY <1>1, PoolSlots, PoolOwned DEF PoolInv, PoolTypeOK

LEMMA PoolInvHolds == PoolSpec => []PoolInv
  BY PoolInitInv, PoolStepInv, PTL DEF PoolSpec

\* The semaphore counts the captures between Acquire and Release, and the rest
\* has the types of the code (agentbrowser/capture.go:40-53).
THEOREM PoolTypes == PoolSpec => []PoolTypeOK
<1>1. PoolInv => PoolTypeOK
  BY DEF PoolInv
<1>. QED
  BY <1>1, PoolInvHolds, PTL

\* However many captures are asked for, and whichever of them share a session,
\* there are never more browsers than slots, those left out that a close failed
\* to end (agentbrowser/capture.go:41-53).
THEOREM BrowsersAreBounded == PoolSpec => []BrowsersBounded
<1>1. PoolInv => BrowsersBounded
  <2>. SUFFICES ASSUME PoolInv PROVE Cardinality(browsers \ leftOpen) <= MaxConcurrent
    BY DEF BrowsersBounded
  <2>. DEFINE shown == [c \in Driving |-> Session[c]]
              owned == {Session[c] : c \in Driving}
  <2>1. Driving \in SUBSET Holding
    BY DEF Driving, Holding
  <2>2. IsFiniteSet(Driving) /\ Cardinality(Driving) <= Cardinality(Holding)
    BY <2>1, HoldingIsFinite, FS_Subset
  <2>3. shown \in Surjection(Driving, owned)
    BY DEF Surjection
  <2>4. IsFiniteSet(owned) /\ Cardinality(owned) <= Cardinality(Driving)
    BY <2>2, <2>3, FS_Surjection
  <2>5. IsFiniteSet(browsers \ leftOpen) /\ Cardinality(browsers \ leftOpen) <= Cardinality(owned)
    BY <2>4, FS_Subset DEF PoolInv, Owned
  <2>6. /\ Cardinality(browsers \ leftOpen) \in Nat /\ Cardinality(owned) \in Nat
        /\ Cardinality(Driving) \in Nat
    BY <2>2, <2>4, <2>5, FS_CardinalityType
  <2>. QED
    BY <2>2, <2>4, <2>5, <2>6, HoldingIsFinite, PoolAssumption DEF PoolInv, PoolTypeOK
<1>. QED
  BY <1>1, PoolInvHolds, PTL

-----------------------------------------------------------------------------
(* ProcessStart.                                                           *)

\* The schema is written by one process at a time, and only while it is not there.
OneWriter == versions <= 1 /\ (writer # NoProcess => versions = 0)

\* Who finds the migrations leaves them only when the schema is there.
Migrated == \A p \in Processes :
  kind[p] # "cli" /\ p \notin fileless /\ phase[p] \in {"report", "open", "retention", "serving"} => versions > 0

StartInv == StartTypeOK /\ OneWriter /\ Migrated

LEMMA StartInitInv == StartInit => StartInv
  BY NoProcessAssumption
  DEF StartInit, StartInv, StartTypeOK, OneWriter, Migrated, InPhase, Starting, Kinds

\* A step of one process: an exit never leaves a migration half written, and
\* nobody passes the migration before the schema is there.
LEMMA StartStepInv == StartInv /\ [StartNext]_startVars => StartInv'
<1>. SUFFICES ASSUME StartInv, [StartNext]_startVars PROVE StartInv'
  OBVIOUS
<1>. USE NoProcessAssumption
     DEF StartInv, StartTypeOK, OneWriter, Migrated, InPhase, ToPhase, Exit, Starting, Kinds
<1>1. ASSUME NEW p \in Processes, Launch(p) PROVE StartInv'
  BY <1>1 DEF Launch
<1>2. ASSUME NEW p \in Processes, SchemaVersion(p) PROVE StartInv'
  BY <1>2 DEF SchemaVersion
<1>3. ASSUME NEW p \in Processes, Apply(p) PROVE StartInv'
  BY <1>3 DEF Apply, ApplyFile
<1>4. ASSUME NEW p \in Processes, Commit(p) PROVE StartInv'
  <2>1. writer = p /\ versions = 0 /\ versions' = 1 /\ writer' = NoProcess
    BY <1>4 DEF Commit
  <2>. QED
    BY <1>4, <2>1 DEF Commit
<1>5. ASSUME NEW p \in Processes, Report(p) \/ Open(p) \/ Retention(p) PROVE StartInv'
  BY <1>5 DEF Report, Open, Retention
<1>6. ASSUME NEW p \in Processes, FailStart(p) \/ End(p) PROVE StartInv'
  BY <1>6 DEF FailStart, End
<1>7. CASE UNCHANGED startVars
  BY <1>7 DEF startVars
<1>. QED
  BY <1>1, <1>2, <1>3, <1>4, <1>5, <1>6, <1>7 DEF StartNext, Start

\* However many processes find the database empty, and whichever of them fail,
\* lose the reply of their commit or are killed, the schema is applied once, and
\* a process that finds the migrations serves only on it (postgres/database.go:41-104).
THEOREM SchemaComesFirst == StartSpec => []SchemaBeforeService
<1>1. StartInv => SchemaBeforeService
  BY DEF StartInv, OneWriter, Migrated, SchemaBeforeService, SchemaAppliedOnce, ServesOnSchema, InPhase
<1>. QED
  BY <1>1, StartInitInv, StartStepInv, PTL DEF StartSpec

-----------------------------------------------------------------------------
(* StreamSession.                                                          *)

\* The types and the answers: an answer counts only while its line is handled.
AnswersInv == StreamTypeOK /\ OneAnswerPerLine

\* A sign-in that has revoked the old session of its stream, and made no new one.
Renewing == {"clear_failures", "create_session"}

\* The token of a stream is of a session made for it, and its client was told so.
HeldIsOwn == \A s \in Streams : token[s] # NoSession => owner[token[s]] = s /\ told[s]

\* Only a session that was made for a stream has a row.
OwnedIsMade == \A i \in Sessions : session[i] # "none" => owner[i] \in Streams

\* What a client was told last is so, unless a sign-in is about to replace it.
ToldIsUsable == \A s \in Streams :
  told[s] /\ s \notin troubled /\ step[s] \notin Renewing \cup {"ended"} => Usable(token[s])

OldIsRevoked == \A s \in Streams :
  step[s] \in Renewing /\ s \notin troubled => ~Usable(token[s])

SessionInv ==
  /\ ActsOnlyWhenSignedIn /\ SignedInIsServed /\ NoForgottenSession
  /\ HeldIsOwn /\ OwnedIsMade /\ ToldIsUsable /\ OldIsRevoked

StreamInv == AnswersInv /\ SessionInv

LEMMA StreamInitInv == StreamInit => StreamInv
<1>. SUFFICES ASSUME StreamInit PROVE StreamInv
  OBVIOUS
<1>1. AnswersInv
  BY StreamAssumption DEF StreamInit, AnswersInv, StreamTypeOK, OneAnswerPerLine, AtStep, Handling
<1>2. SessionInv
  BY DEF StreamInit, SessionInv, ActsOnlyWhenSignedIn, SignedInIsServed, NoForgottenSession, HeldIsOwn,
         OwnedIsMade, ToldIsUsable, OldIsRevoked, AtStep, Usable
<1>. QED
  BY <1>1, <1>2 DEF StreamInv

\* What counts the lines and the answers of a stream.
Counts == /\ step \in [Streams -> Handling \cup {"read", "ended"}]
          /\ asked \in [Streams -> 0..MaxLines] /\ answers \in [Streams -> 0..MaxLines]
          /\ OneAnswerPerLine

\* The line a handler writes is the answer to the line it handles; then the next
\* one is read, or the stream has ended.
LEMMA AnswerCounts ==
  ASSUME StreamInv, NEW s \in Streams, step[s] \in Handling, Write(s),
         ToStep(s, "read") \/ ToStep(s, "ended")
  PROVE  Counts'
<1>1. answers[s] + 1 = asked[s] /\ asked[s] \in 0..MaxLines /\ answers[s] \in 0..MaxLines
  BY DEF StreamInv, AnswersInv, StreamTypeOK, OneAnswerPerLine
<1>2. answers' = [answers EXCEPT ![s] = asked[s]] /\ asked' = asked
  BY <1>1 DEF Write, StreamInv, AnswersInv, StreamTypeOK
<1>. QED
  BY <1>1, <1>2, StreamAssumption
     DEF StreamInv, AnswersInv, StreamTypeOK, OneAnswerPerLine, Counts, ToStep, AtStep, Handling

\* A step of a handler that writes nothing goes on with the same line.
LEMMA HandlingGoesOn ==
  ASSUME StreamInv, NEW s \in Streams, step[s] \in Handling, NEW l \in Handling,
         ToStep(s, l), UNCHANGED client
  PROVE  Counts'
  BY StreamAssumption
     DEF StreamInv, AnswersInv, StreamTypeOK, OneAnswerPerLine, Counts, ToStep, AtStep, client, Handling

\* Each handler writes one line on each of its paths, at its end.
LEMMA StreamStepCounts == StreamInv /\ [StreamNext]_streamVars => Counts'
<1>. SUFFICES ASSUME StreamInv, [StreamNext]_streamVars PROVE Counts'
  OBVIOUS
<1>1. ASSUME NEW s \in Streams, NEW o \in Operations, Read(s, o) PROVE Counts'
  BY <1>1, StreamAssumption
     DEF Read, Operations, StreamInv, AnswersInv, StreamTypeOK, OneAnswerPerLine, Counts, ToStep, AtStep, Handling
<1>2. ASSUME NEW s \in Streams, EndOfInput(s) \/ Kill(s) PROVE Counts'
  BY <1>2
     DEF EndOfInput, Kill, client, StreamInv, AnswersInv, StreamTypeOK, OneAnswerPerLine, Counts, ToStep, AtStep, Handling
<1>3. ASSUME NEW s \in Streams, TooLong(s) \/ Malformed(s) \/ Public(s) \/ Act(s) PROVE Counts'
  BY <1>3, AnswerCounts DEF TooLong, Malformed, Public, Act, AtStep, Handling, Respond
<1>4. ASSUME NEW s \in Streams, Verify(s) \/ RevokeOld(s) \/ ClearFailures(s) PROVE Counts'
  BY <1>4, AnswerCounts, HandlingGoesOn DEF Verify, RevokeOld, ClearFailures, AtStep, Handling, Respond
<1>5. ASSUME NEW s \in Streams, CreateSession(s) \/ SignOut(s) PROVE Counts'
  BY <1>5, AnswerCounts DEF CreateSession, SignOut, AtStep, Handling, Respond
<1>6. ASSUME NEW s \in Streams, Authorize(s) PROVE Counts'
  BY <1>6, AnswerCounts, HandlingGoesOn DEF Authorize, AtStep, Handling, Respond
<1>7. CASE (\E i \in Sessions : DropSession(i)) \/ UNCHANGED streamVars
  BY <1>7
     DEF DropSession, streamVars, client, StreamInv, AnswersInv, StreamTypeOK, OneAnswerPerLine, Counts, AtStep
<1>. QED
  BY <1>1, <1>2, <1>3, <1>4, <1>5, <1>6, <1>7 DEF StreamNext, Handle

LEMMA StreamStepTypes ==
  StreamInv /\ [StreamNext]_streamVars =>
    /\ session' \in [Sessions -> {"none", "authenticated", "revoked"}]
    /\ owner' \in [Sessions -> Streams \cup {NoStream}]
    /\ token' \in [Streams -> Sessions \cup {NoSession}]
    /\ told' \in [Streams -> BOOLEAN] /\ refused' \in [Streams -> BOOLEAN]
    /\ troubled' \subseteq Streams
<1>. SUFFICES ASSUME StreamInv, [StreamNext]_streamVars
     PROVE  /\ session' \in [Sessions -> {"none", "authenticated", "revoked"}]
            /\ owner' \in [Sessions -> Streams \cup {NoStream}]
            /\ token' \in [Streams -> Sessions \cup {NoSession}]
            /\ told' \in [Streams -> BOOLEAN] /\ refused' \in [Streams -> BOOLEAN]
            /\ troubled' \subseteq Streams
  OBVIOUS
<1>. /\ session \in [Sessions -> {"none", "authenticated", "revoked"}]
     /\ owner \in [Sessions -> Streams \cup {NoStream}]
     /\ token \in [Streams -> Sessions \cup {NoSession}]
     /\ told \in [Streams -> BOOLEAN] /\ refused \in [Streams -> BOOLEAN]
     /\ troubled \subseteq Streams
  BY DEF StreamInv, AnswersInv, StreamTypeOK
<1>1. session' \in [Sessions -> {"none", "authenticated", "revoked"}]
  BY DEF StreamNext, Handle, streamVars, client, Read, EndOfInput, Kill, TooLong, Malformed, Public, Act, Verify,
         RevokeOld, ClearFailures, CreateSession, SignOut, Authorize, DropSession
<1>2. owner' \in [Sessions -> Streams \cup {NoStream}]
  <2>1. ASSUME NEW s \in Streams, CreateSession(s) PROVE owner' \in [Sessions -> Streams \cup {NoStream}]
    <3>1. CASE UNCHANGED owner
      BY <3>1
    <3>2. ASSUME NEW i \in Sessions, owner' = [owner EXCEPT ![i] = s]
          PROVE  owner' \in [Sessions -> Streams \cup {NoStream}]
      BY <3>2
    <3>. QED
      BY <2>1, <3>1, <3>2 DEF CreateSession
  <2>2. CASE UNCHANGED owner
    BY <2>2
  <2>. QED
    BY <2>1, <2>2
       DEF StreamNext, Handle, streamVars, Read, EndOfInput, Kill, TooLong, Malformed, Public, Act, Verify,
           RevokeOld, ClearFailures, SignOut, Authorize, DropSession
<1>3. token' \in [Streams -> Sessions \cup {NoSession}]
  BY DEF StreamNext, Handle, streamVars, client, Read, EndOfInput, Kill, TooLong, Malformed, Public, Act, Verify,
         RevokeOld, ClearFailures, CreateSession, SignOut, Authorize, DropSession
<1>4. told' \in [Streams -> BOOLEAN] /\ refused' \in [Streams -> BOOLEAN]
  BY DEF StreamNext, Handle, streamVars, client, Read, EndOfInput, Kill, TooLong, Malformed, Public, Act, Verify,
         RevokeOld, ClearFailures, CreateSession, SignOut, Authorize, DropSession, Says, SaysNothing
<1>5. ASSUME NEW s \in Streams, Fault(s) \/ NoFault PROVE troubled' \subseteq Streams
  BY <1>5 DEF Fault, NoFault
<1>6. ASSUME NEW i \in Sessions, DropSession(i) PROVE troubled' \subseteq Streams
  <2>1. session[i] # "none" /\ troubled' = troubled \cup {owner[i]}
    BY <1>6 DEF DropSession
  <2>2. owner[i] \in Streams
    BY <2>1 DEF StreamInv, SessionInv, OwnedIsMade
  <2>. QED
    BY <2>1, <2>2
<1>7. ASSUME UNCHANGED troubled PROVE troubled' \subseteq Streams
  BY <1>7
<1>8. ASSUME NEW s \in Streams,
             \/ \E o \in Operations : Read(s, o)
             \/ EndOfInput(s) \/ Kill(s) \/ TooLong(s) \/ Malformed(s) \/ Public(s) \/ Act(s) \/ Verify(s)
      PROVE  troubled' \subseteq Streams
  BY <1>7, <1>8 DEF Read, EndOfInput, Kill, TooLong, Malformed, Public, Act, Verify, NoFault
<1>9. ASSUME NEW s \in Streams, RevokeOld(s) \/ ClearFailures(s) \/ CreateSession(s) \/ SignOut(s) \/ Authorize(s)
      PROVE  troubled' \subseteq Streams
  BY <1>5, <1>9 DEF RevokeOld, ClearFailures, CreateSession, SignOut, Authorize
<1>10. troubled' \subseteq Streams
  BY <1>6, <1>7, <1>8, <1>9 DEF StreamNext, Handle, streamVars
<1>. QED
  BY <1>1, <1>2, <1>3, <1>4, <1>10

\* The session of one stream is never that of another, so that only its own
\* sign-in, its own sign-out and the retention touch it.
LEMMA StreamStepSession == StreamInv /\ [StreamNext]_streamVars => SessionInv'
<1>. SUFFICES ASSUME StreamInv, [StreamNext]_streamVars PROVE SessionInv'
  OBVIOUS
<1>. USE StreamAssumption
     DEF StreamInv, AnswersInv, StreamTypeOK, SessionInv, ActsOnlyWhenSignedIn, SignedInIsServed,
         NoForgottenSession, HeldIsOwn, OwnedIsMade, ToldIsUsable, OldIsRevoked, Renewing, Handling,
         Usable, AtStep, ToStep, client, Write, Respond, Says, SaysNothing, Fault, NoFault
<1>1. ASSUME NEW s \in Streams, NEW o \in Operations, Read(s, o) PROVE SessionInv'
  BY <1>1 DEF Read, Operations
<1>2. ASSUME NEW s \in Streams, EndOfInput(s) \/ Kill(s) PROVE SessionInv'
  BY <1>2 DEF EndOfInput, Kill
<1>3. ASSUME NEW s \in Streams, TooLong(s) \/ Malformed(s) \/ Public(s) \/ Act(s) PROVE SessionInv'
  BY <1>3 DEF TooLong, Malformed, Public, Act
<1>4. ASSUME NEW s \in Streams, Verify(s) \/ ClearFailures(s) PROVE SessionInv'
  BY <1>4 DEF Verify, ClearFailures
<1>5. ASSUME NEW s \in Streams, RevokeOld(s) PROVE SessionInv'
  BY <1>5 DEF RevokeOld
<1>6. ASSUME NEW s \in Streams, CreateSession(s) PROVE SessionInv'
  <2>1. CASE Fault(s) /\ SaysNothing(s) /\ UNCHANGED <<session, owner, token>>
    BY <1>6, <2>1 DEF CreateSession
  <2>2. ASSUME NEW i \in Sessions,
               /\ owner[i] = NoStream
               /\ session' = [session EXCEPT ![i] = "authenticated"]
               /\ owner' = [owner EXCEPT ![i] = s]
               /\ token' = [token EXCEPT ![s] = i]
               /\ Says(s, TRUE) /\ NoFault
        PROVE  SessionInv'
    <3>1. step' = [step EXCEPT ![s] = "read"] /\ step[s] = "create_session"
      BY <1>6 DEF CreateSession
    <3>2. ActsOnlyWhenSignedIn' /\ SignedInIsServed' /\ OwnedIsMade'
      BY <2>2, <3>1
    <3>3. NoForgottenSession'
      BY <2>2, <3>1
    <3>4. HeldIsOwn' /\ ToldIsUsable' /\ OldIsRevoked'
      BY <2>2, <3>1
    <3>. QED
      BY <3>2, <3>3, <3>4
  <2>. QED
    BY <1>6, <2>1, <2>2 DEF CreateSession
<1>7. ASSUME NEW s \in Streams, SignOut(s) PROVE SessionInv'
  BY <1>7 DEF SignOut
<1>8. ASSUME NEW s \in Streams, Authorize(s) PROVE SessionInv'
  BY <1>8 DEF Authorize
<1>9. ASSUME NEW i \in Sessions, DropSession(i) PROVE SessionInv'
  BY <1>9 DEF DropSession
<1>10. CASE UNCHANGED streamVars
  BY <1>10 DEF streamVars
<1>. QED
  BY <1>1, <1>2, <1>3, <1>4, <1>5, <1>6, <1>7, <1>8, <1>9, <1>10 DEF StreamNext, Handle

LEMMA StreamInvHolds == StreamSpec => []StreamInv
<1>1. StreamInv /\ [StreamNext]_streamVars => StreamInv'
  BY StreamStepCounts, StreamStepTypes, StreamStepSession DEF StreamInv, AnswersInv, StreamTypeOK, Counts
<1>. QED
  BY <1>1, StreamInitInv, PTL DEF StreamSpec

\* Every line that wants an answer gets one, before the next line is read, on
\* every path of every handler (jsonl/protocol.go, Serve and handle).
THEOREM LinesAreAnswered == StreamSpec => []OneAnswerPerLine
<1>1. StreamInv => OneAnswerPerLine
  BY DEF StreamInv, AnswersInv
<1>. QED
  BY <1>1, StreamInvHolds, PTL

\* Whatever lines the streams send and whichever calls fail: a protected operation
\* runs only while its client was told that it is signed in, who was told so is not
\* refused without a cause, and no session is left that nobody holds
\* (jsonl/auth_operations.go, jsonl/protocol.go).
THEOREM SessionsAreAsTold == StreamSpec => []SessionIsAsTold
<1>1. StreamInv => SessionIsAsTold
  BY DEF StreamInv, AnswersInv, SessionInv, SessionIsAsTold
<1>. QED
  BY <1>1, StreamInvHolds, PTL
=============================================================================
