----------------------------- MODULE CapturePool -----------------------------
(***************************************************************************)
(* Capturer.Capture of adapters/agentbrowser/capture.go: at most           *)
(* MaxConcurrent captures drive the external agent-browser, each with      *)
(* three commands under one deadline, and a close that has none.  A        *)
(* command is a process whose output is read to its end                    *)
(* (cmd/bookmarker-web/main.go, processRunner); the deadline kills it.     *)
(***************************************************************************)
EXTENDS Naturals, FiniteSets

CONSTANTS
  Captures,
  Session,        \* the browser session of a capture: the id of its draft
  MaxConcurrent

ASSUME PoolAssumption ==
  /\ IsFiniteSet(Captures)
  /\ DOMAIN Session = Captures
  /\ MaxConcurrent \in Nat \ {0}

VARIABLES
  semaphore,    \* how many slots are taken
  pc,           \* the command that runs for a capture, or its next step
  expired,      \* the captures whose context is done: deadline or client
  browsers,     \* external: the browser sessions that are open
  leftOpen      \* history: those whose close failed, no capture driving them since

poolVars == <<semaphore, pc, expired, browsers, leftOpen>>

Commands == {"open", "wait", "screenshot"}
Follows == [open |-> "wait", wait |-> "screenshot", screenshot |-> "close"]
At(c, label) == pc[c] = label
Goto(c, label) == pc' = [pc EXCEPT ![c] = label]

PoolInit ==
  /\ semaphore = 0
  /\ pc = [c \in Captures |-> "idle"]
  /\ expired = {}
  /\ browsers = {} /\ leftOpen = {}

\* The select: a slot, or ErrCapacityLimited at once.  With the slot a capture
\* takes over the browser that an earlier one of its session may have left.
Acquire(c) ==
  /\ At(c, "idle")
  /\ \/ /\ semaphore < MaxConcurrent
        /\ semaphore' = semaphore + 1 /\ Goto(c, "open")
        /\ leftOpen' = leftOpen \ {Session[c]}
     \/ semaphore = MaxConcurrent /\ UNCHANGED <<semaphore, leftOpen>> /\ Goto(c, "refused")
  /\ UNCHANGED <<expired, browsers>>

\* External: the command ends, with success or a failure that Capture returns
\* after the close.  An open may leave a browser behind in either case.
CommandEnds(c) ==
  /\ pc[c] \in Commands
  /\ \/ Goto(c, Follows[pc[c]])
     \/ Goto(c, "close")
  /\ browsers' \in {browsers, IF At(c, "open") THEN browsers \cup {Session[c]} ELSE browsers}
  /\ UNCHANGED <<semaphore, expired, leftOpen>>

ContextEnds(c) ==
  /\ pc[c] \in Commands /\ c \notin expired
  /\ expired' = expired \cup {c}
  /\ UNCHANGED <<semaphore, pc, browsers, leftOpen>>

\* Mutant: a command that fails skips the close.
KilledWithoutClose(c) ==
  /\ pc[c] \in Commands /\ c \in expired
  /\ Goto(c, "release")
  /\ browsers' \in {browsers, IF At(c, "open") THEN browsers \cup {Session[c]} ELSE browsers}
  /\ UNCHANGED <<semaphore, expired, leftOpen>>

\* exec.CommandContext kills the command, and Capture returns an error.
Killed(c) ==
  /\ pc[c] \in Commands /\ c \in expired
  /\ Goto(c, "close")
  /\ browsers' \in {browsers, IF At(c, "open") THEN browsers \cup {Session[c]} ELSE browsers}
  /\ UNCHANGED <<semaphore, expired, leftOpen>>

\* The deferred close, on context.Background(), comes before the slot is
\* released.  It may fail and leave the browser: its error is dropped.
Close(c) ==
  /\ At(c, "close")
  /\ \/ browsers' = browsers \ {Session[c]} /\ leftOpen' = leftOpen \ {Session[c]}
     \/ browsers' = browsers /\ leftOpen' = leftOpen \cup (browsers \cap {Session[c]})
  /\ Goto(c, "release")
  /\ UNCHANGED <<semaphore, expired>>

\* External: agent-browser never ends the close, which has no deadline.
CloseHangs(c) ==
  /\ At(c, "close")
  /\ browsers' \in {browsers, browsers \ {Session[c]}}
  /\ Goto(c, "hung")
  /\ UNCHANGED <<semaphore, expired, leftOpen>>

\* Mutant: the slot is released only by a capture that has not expired.
ReleaseUnexpired(c) ==
  /\ At(c, "release") /\ c \notin expired
  /\ semaphore' = semaphore - 1 /\ Goto(c, "returned")
  /\ UNCHANGED <<expired, browsers, leftOpen>>

Release(c) ==
  /\ At(c, "release")
  /\ semaphore' = semaphore - 1 /\ Goto(c, "returned")
  /\ UNCHANGED <<expired, browsers, leftOpen>>

Own(c) == Killed(c) \/ Release(c)
Closing(c) == Close(c) \/ CloseHangs(c)
PoolNext == \E c \in Captures : Acquire(c) \/ CommandEnds(c) \/ ContextEnds(c) \/ Closing(c) \/ Own(c)

\* The deadline passes and the runtime acts on it; no command need end by
\* itself, and a close either ends or hangs.
PoolFairness == \A c \in Captures : WF_poolVars(ContextEnds(c)) /\ WF_poolVars(Own(c)) /\ WF_poolVars(Closing(c))

PoolSpec == PoolInit /\ [][PoolNext]_poolVars /\ PoolFairness

-----------------------------------------------------------------------------
(* Properties.                                                             *)

Holding == {c \in Captures : pc[c] \in Commands \cup {"close", "hung", "release"}}

\* The semaphore counts the captures between Acquire and Release.
PoolTypeOK ==
  /\ pc \in [Captures -> Commands \cup {"idle", "refused", "close", "hung", "release", "returned"}]
  /\ expired \subseteq Captures
  /\ browsers \subseteq {Session[c] : c \in Captures}
  /\ leftOpen \subseteq {Session[c] : c \in Captures}
  /\ semaphore = Cardinality(Holding)

\* There are never more browsers than slots, those left out whose own close failed:
\* the defers of capture.go:41-53 close the browser before they give the slot
\* away, on every return.
BrowsersBounded == Cardinality(browsers \ leftOpen) <= MaxConcurrent

\* A slot that was taken is given back whatever the commands do, failing, hanging or
\* killed (capture.go:20-22 promises a bounded timeout): a close that hangs is the one
\* thing that keeps it for good.
OnlyAHungCloseKeepsASlot == \A c \in Captures : At(c, "open") ~> pc[c] \in {"returned", "hung"}

\* Not so: "bounded timeout, bounded global concurrency, structured JSON output,
\* and a guaranteed close" (capture.go:21-22).  A close that fails leaves its
\* browser and gives the slot away, to a capture that opens one more.
BrowsersNeverExceedSlots == Cardinality(browsers) <= MaxConcurrent
=============================================================================
