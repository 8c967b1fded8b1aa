---------------------------- MODULE DraftLifecycle ----------------------------
(***************************************************************************)
(* What a capture draft promises, whoever works on it: the states of       *)
(* CaptureState and the transitions that its predicates CanRetry,          *)
(* CanDiscard and CanConsume and the retention statement allow.  A draft   *)
(* that is consumed, discarded or expired (IsTerminal) stays so until its  *)
(* row is deleted with the session that owns it.  Of a draft that two work *)
(* on at a time (contested) nothing is promised but that its row, once     *)
(* deleted, does not come back.                                            *)
(***************************************************************************)
CONSTANT Drafts

VARIABLE state      \* the state of a draft; "none" before and "gone" after its row

Becomes(d, from, to) == state[d] \in from /\ state' = [state EXCEPT ![d] = to]

Init == state = [d \in Drafts |-> "none"]

Terminal == {"consumed", "discarded", "expired"}
Expirable == {"capturing", "ready", "failed"}

Start(d) == Becomes(d, {"none"}, "capturing")
Finish(d) == Becomes(d, {"capturing"}, "ready") \/ Becomes(d, {"capturing"}, "failed")
Retry(d) == Becomes(d, {"failed"}, "capturing")
Consume(d) == Becomes(d, {"ready"}, "consumed")
Discard(d) == Becomes(d, {"ready", "failed"}, "discarded")
Contest(d) == Becomes(d, Expirable \cup Terminal, "contested")
Forget(d) == Becomes(d, Expirable \cup Terminal \cup {"contested"}, "gone")

\* One statement expires the drafts that are due.  Those of them that a request
\* is working on are contested from then on.
Expire(D, C) ==
  /\ C \subseteq D /\ \A d \in D : state[d] \in Expirable
  /\ state' = [d \in Drafts |-> IF d \in C THEN "contested" ELSE IF d \in D THEN "expired" ELSE state[d]]

Next == \/ \E d \in Drafts : \/ Start(d) \/ Finish(d) \/ Retry(d) \/ Consume(d) \/ Discard(d)
                            \/ Contest(d) \/ Forget(d)
        \/ \E D, C \in SUBSET Drafts : Expire(D, C)

Spec == Init /\ [][Next]_state
=============================================================================
