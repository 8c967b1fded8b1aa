----------------------------- MODULE SignIn_proofs -----------------------------
(***************************************************************************)
(* Proofs about SignIn for any pairs, sessions, handlers and limits.       *)
(***************************************************************************)
EXTENDS SignIn, FiniteSetTheorems, TLAPS

-----------------------------------------------------------------------------
(* Types and control.  Types alone are not inductive: that a failure is     *)
(* recorded for a pair rests on the step that has been reached.             *)

Control(h) ==
  /\ pc[h] \in Attempting => pair[h] \in Pairs /\ token[h] \in Sessions
  /\ pc[h] = "sign_out" => token[h] \in Sessions
  /\ now[h] <= clock

\* A function with one value replaced.
LEMMA UpdatedFunction ==
  ASSUME NEW S, NEW T, NEW f \in [S -> T], NEW x \in S, NEW y \in T
  PROVE  [f EXCEPT ![x] = y] \in [S -> T]
  OBVIOUS

\* Counting one more wrong password.
LEMMA CountedOnce ==
  ASSUME NEW p \in Pairs, NEW t \in 0..MaxClock,
         wrong \in [Pairs -> [0..MaxClock -> Nat]], wrong' = [wrong EXCEPT ![p][t] = @ + 1]
  PROVE  wrong' \in [Pairs -> [0..MaxClock -> Nat]]
<1>. DEFINE Instants == 0..MaxClock
            more == [wrong[p] EXCEPT ![t] = wrong[p][t] + 1]
<1>1. t \in Instants /\ wrong \in [Pairs -> [Instants -> Nat]]
  OBVIOUS
<1>2. wrong' = [wrong EXCEPT ![p] = more]
  BY Zenon
<1>. HIDE DEF Instants
<1>3. more \in [Instants -> Nat]
  <2>1. wrong[p] \in [Instants -> Nat]
    BY <1>1
  <2>. QED
    BY <1>1, <2>1
<1>. HIDE DEF more
<1>4. [wrong EXCEPT ![p] = more] \in [Pairs -> [Instants -> Nat]]
  BY <1>1, <1>3
<1>. QED
  BY <1>2, <1>4 DEF Instants

LEMMA InitTypes == Init => TypeOK /\ \A h \in Handlers : Control(h)
<1>. SUFFICES ASSUME Init PROVE TypeOK /\ \A h \in Handlers : Control(h)
  OBVIOUS
<1>1. 0 \in 0..MaxClock /\ 0 \in 0..(MaxClock + BlockDuration)
  BY ConstantsAssumption
<1>2. row \in [Pairs -> [failure_count : Nat, window_started_at : 0..MaxClock,
                         blocked_until : 0..(MaxClock + BlockDuration)]]
  BY <1>1 DEF Init, NoRow
<1>3. wrong \in [Pairs -> [0..MaxClock -> Nat]]
  BY DEF Init
<1>4. pc \in [Handlers -> Attempting \cup {"idle", "sign_out"}]
  BY DEF Init
<1>5. TypeOK
  BY <1>1, <1>2, <1>3, <1>4 DEF Init, TypeOK
<1>6. ASSUME NEW h \in Handlers PROVE Control(h)
  BY DEF Init, Control, Attempting
<1>. QED
  BY <1>5, <1>6

\* The row a failure writes.
LEMMA FailedType ==
  ASSUME TypeOK, NEW p \in Pairs, NEW t \in 0..MaxClock
  PROVE  Failed(p, t) \in [failure_count : Nat, window_started_at : 0..MaxClock,
                           blocked_until : 0..(MaxClock + BlockDuration)]
<1>1. row[p].failure_count \in Nat /\ row[p].window_started_at \in 0..MaxClock
      /\ row[p].blocked_until \in 0..(MaxClock + BlockDuration)
  BY DEF TypeOK
<1>2. t + BlockDuration \in 0..(MaxClock + BlockDuration)
  BY ConstantsAssumption
<1>. QED
  BY <1>1, <1>2 DEF Failed

\* A handler that answers forgets its request.
LEMMA AnswerTypes ==
  ASSUME TypeOK, NEW h \in Handlers, Answer(h)
  PROVE  /\ pc' \in [Handlers -> Attempting \cup {"idle", "sign_out"}]
         /\ pair' \in [Handlers -> Pairs \cup {NoPair}]
         /\ token' \in [Handlers -> Sessions \cup {NoSession}]
         /\ now' \in [Handlers -> 0..MaxClock]
         /\ pc'[h] = "idle" /\ now'[h] = 0
         /\ \A g \in Handlers \ {h} : /\ pc'[g] = pc[g] /\ pair'[g] = pair[g]
                                      /\ token'[g] = token[g] /\ now'[g] = now[g]
<1>1. 0 \in 0..MaxClock
  BY ConstantsAssumption
<1>. QED
  BY <1>1 DEF TypeOK, Answer

\* One that goes on keeps it.
LEMMA GotoTypes ==
  ASSUME TypeOK, NEW h \in Handlers, NEW label \in Attempting \cup {"sign_out"}, Goto(h, label)
  PROVE  /\ pc' \in [Handlers -> Attempting \cup {"idle", "sign_out"}]
         /\ pair' = pair /\ token' = token /\ now' = now
         /\ pc'[h] = label /\ \A g \in Handlers \ {h} : pc'[g] = pc[g]
  BY DEF TypeOK, Goto, request

LEMMA StepTypes ==
  TypeOK /\ (\A h \in Handlers : Control(h)) /\ [Next]_vars => TypeOK' /\ \A h \in Handlers : Control(h)'
<1>. SUFFICES ASSUME TypeOK, \A h \in Handlers : Control(h), [Next]_vars
              PROVE  TypeOK' /\ \A h \in Handlers : Control(h)'
  OBVIOUS
<1>. USE DEF At, NoFault, Fault, Stores, Revokes
<1>0. /\ \A h \in Handlers : now[h] \in 0..MaxClock
      /\ clock \in 0..MaxClock /\ MaxClock \in Nat
  BY ConstantsAssumption DEF TypeOK
<1>1. CASE LoginPage
  BY <1>1 DEF LoginPage, TypeOK, Control, request
<1>2. ASSUME NEW h \in Handlers, BeginSignIn(h) PROVE TypeOK' /\ \A g \in Handlers : Control(g)'
  <2>1. PICK p \in Pairs :
          /\ pair' = [pair EXCEPT ![h] = p] /\ token' = [token EXCEPT ![h] = cookie]
          /\ now' = [now EXCEPT ![h] = clock] /\ pc' = [pc EXCEPT ![h] = "is_blocked"]
          /\ wrong' \in {wrong, [wrong EXCEPT ![p] = [t \in 0..MaxClock |-> 0]]}
          /\ raced' \in {raced, raced \cup {p}}
    BY <1>2 DEF BeginSignIn
  <2>2. cookie \in Sessions /\ UNCHANGED <<row, session, cookie, clock, faults>>
    BY <1>2 DEF BeginSignIn, Active
  <2>3. wrong' \in [Pairs -> [0..MaxClock -> Nat]]
    <3>1. [t \in 0..MaxClock |-> 0] \in [0..MaxClock -> Nat] /\ wrong \in [Pairs -> [0..MaxClock -> Nat]]
      BY DEF TypeOK
    <3>. QED
      BY <2>1, <3>1, UpdatedFunction
  <2>4. TypeOK'
    BY <2>1, <2>2, <2>3 DEF TypeOK, Attempting
  <2>5. ASSUME NEW g \in Handlers PROVE Control(g)'
    BY <1>0, <2>1, <2>2 DEF TypeOK, Control
  <2>. QED
    BY <2>4, <2>5
<1>3. ASSUME NEW h \in Handlers, IsBlocked(h) PROVE TypeOK' /\ \A g \in Handlers : Control(g)'
  <2>1. Goto(h, "verify") \/ Answer(h)
    BY <1>3 DEF IsBlocked
  <2>2. pc[h] \in Attempting /\ "verify" \in Attempting
    BY <1>3 DEF IsBlocked, Attempting
  <2>3. TypeOK'
    BY <1>3, <2>1, <2>2, AnswerTypes, GotoTypes DEF IsBlocked, TypeOK
  <2>4. ASSUME NEW g \in Handlers PROVE Control(g)'
    BY <1>0, <1>3, <2>1, <2>2, AnswerTypes, GotoTypes DEF IsBlocked, Control, Attempting
  <2>. QED
    BY <2>3, <2>4
<1>4. ASSUME NEW h \in Handlers, Verify(h) PROVE TypeOK' /\ \A g \in Handlers : Control(g)'
  <2>1. Goto(h, "revoke_old") \/ Goto(h, "record_failure")
    BY <1>4 DEF Verify
  <2>2. pc[h] \in Attempting /\ "revoke_old" \in Attempting /\ "record_failure" \in Attempting
    BY <1>4 DEF Verify, Attempting
  <2>3. pair[h] \in Pairs /\ now[h] \in 0..MaxClock
    BY <1>0, <2>2 DEF Control
  <2>4. wrong' = wrong \/ wrong' = [wrong EXCEPT ![pair[h]][now[h]] = @ + 1]
    BY <1>4 DEF Verify
  <2>5. wrong \in [Pairs -> [0..MaxClock -> Nat]]
    BY DEF TypeOK
  <2>6. wrong' \in [Pairs -> [0..MaxClock -> Nat]]
    <3>1. CASE wrong' = [wrong EXCEPT ![pair[h]][now[h]] = @ + 1]
      <4>. HIDE DEF At, NoFault, Fault, Stores, Revokes
      <4>. QED
        BY <2>3, <2>5, <3>1, CountedOnce, Zenon
    <3>. QED
      BY <2>4, <2>5, <3>1
  <2>7. TypeOK'
    BY <1>4, <2>1, <2>2, <2>6, GotoTypes DEF Verify, TypeOK
  <2>8. ASSUME NEW g \in Handlers PROVE Control(g)'
    BY <1>4, <2>1, <2>2, GotoTypes DEF Verify, Control
  <2>. QED
    BY <2>7, <2>8
<1>5. ASSUME NEW h \in Handlers, RecordFailure(h) PROVE TypeOK' /\ \A g \in Handlers : Control(g)'
  <2>1. pair[h] \in Pairs
    BY <1>5 DEF RecordFailure, Control, Attempting
  <2>2. row' \in [Pairs -> [failure_count : Nat, window_started_at : 0..MaxClock,
                            blocked_until : 0..(MaxClock + BlockDuration)]]
    <3>1. Failed(pair[h], now[h]) \in [failure_count : Nat, window_started_at : 0..MaxClock,
                                       blocked_until : 0..(MaxClock + BlockDuration)]
      BY <1>0, <2>1, FailedType
    <3>2. row' = row \/ row' = [row EXCEPT ![pair[h]] = Failed(pair[h], now[h])]
      BY <1>5 DEF RecordFailure
    <3>3. row \in [Pairs -> [failure_count : Nat, window_started_at : 0..MaxClock,
                             blocked_until : 0..(MaxClock + BlockDuration)]]
      BY DEF TypeOK
    <3>. QED
      BY <2>1, <3>1, <3>2, <3>3, UpdatedFunction, Zenon
  <2>3. TypeOK'
    BY <1>5, <2>2, AnswerTypes DEF RecordFailure, TypeOK
  <2>4. ASSUME NEW g \in Handlers PROVE Control(g)'
    BY <1>0, <1>5, AnswerTypes DEF RecordFailure, Control, Attempting
  <2>. QED
    BY <2>3, <2>4
<1>6. ASSUME NEW h \in Handlers, RevokeOld(h) PROVE TypeOK' /\ \A g \in Handlers : Control(g)'
  <2>1. Goto(h, "clear_failures") /\ "clear_failures" \in Attempting /\ pc[h] \in Attempting
    BY <1>6 DEF RevokeOld, Attempting
  <2>2. TypeOK'
    BY <1>6, <2>1, GotoTypes DEF RevokeOld, TypeOK
  <2>3. ASSUME NEW g \in Handlers PROVE Control(g)'
    BY <1>6, <2>1, GotoTypes DEF RevokeOld, Control
  <2>. QED
    BY <2>2, <2>3
<1>7. ASSUME NEW h \in Handlers, ClearFailures(h) PROVE TypeOK' /\ \A g \in Handlers : Control(g)'
  <2>1. Goto(h, "create_session") \/ Answer(h)
    BY <1>7 DEF ClearFailures
  <2>2. "create_session" \in Attempting /\ pc[h] \in Attempting
    BY <1>7 DEF ClearFailures, Attempting
  <2>3. NoRow \in [failure_count : Nat, window_started_at : 0..MaxClock, blocked_until : 0..(MaxClock + BlockDuration)]
    BY ConstantsAssumption DEF NoRow
  <2>4. row' \in [Pairs -> [failure_count : Nat, window_started_at : 0..MaxClock,
                            blocked_until : 0..(MaxClock + BlockDuration)]]
    BY <1>7, <2>3 DEF ClearFailures, TypeOK
  <2>5. wrong' \in [Pairs -> [0..MaxClock -> Nat]]
    <3>1. [t \in 0..MaxClock |-> 0] \in [0..MaxClock -> Nat] /\ wrong \in [Pairs -> [0..MaxClock -> Nat]]
      BY DEF TypeOK
    <3>2. pair[h] \in Pairs
      BY <2>2 DEF Control
    <3>. QED
      BY <1>7, <3>1, <3>2, UpdatedFunction DEF ClearFailures
  <2>6. TypeOK'
    BY <1>7, <2>1, <2>2, <2>4, <2>5, AnswerTypes, GotoTypes DEF ClearFailures, TypeOK
  <2>7. ASSUME NEW g \in Handlers PROVE Control(g)'
    BY <1>0, <1>7, <2>1, <2>2, AnswerTypes, GotoTypes DEF ClearFailures, Control, Attempting
  <2>. QED
    BY <2>6, <2>7
<1>8. ASSUME NEW h \in Handlers, CreateSession(h) PROVE TypeOK' /\ \A g \in Handlers : Control(g)'
  <2>1. TypeOK'
    BY <1>8, AnswerTypes DEF CreateSession, TypeOK
  <2>2. ASSUME NEW g \in Handlers PROVE Control(g)'
    BY <1>0, <1>8, AnswerTypes DEF CreateSession, Control, Attempting
  <2>. QED
    BY <2>1, <2>2
<1>9. ASSUME NEW h \in Handlers, BeginSignOut(h) PROVE TypeOK' /\ \A g \in Handlers : Control(g)'
  BY <1>9 DEF BeginSignOut, TypeOK, Control, Attempting
<1>10. ASSUME NEW h \in Handlers, SignOut(h) PROVE TypeOK' /\ \A g \in Handlers : Control(g)'
  <2>1. TypeOK'
    BY <1>10, AnswerTypes DEF SignOut, TypeOK
  <2>2. ASSUME NEW g \in Handlers PROVE Control(g)'
    BY <1>0, <1>10, AnswerTypes DEF SignOut, Control, Attempting
  <2>. QED
    BY <2>1, <2>2
<1>11. CASE Tick
  <2>1. clock' \in 0..MaxClock /\ clock' = clock + 1
    BY <1>0, <1>11 DEF Tick
  <2>2. TypeOK'
    BY <1>11, <2>1 DEF Tick, TypeOK, request
  <2>3. ASSUME NEW g \in Handlers PROVE Control(g)'
    BY <1>0, <1>11, <2>1 DEF Tick, Control, request
  <2>. QED
    BY <2>2, <2>3
<1>12. CASE UNCHANGED vars
  BY <1>12 DEF vars, request, TypeOK, Control
<1>. QED
  BY <1>1, <1>2, <1>3, <1>4, <1>5, <1>6, <1>7, <1>8, <1>9, <1>10, <1>11, <1>12 DEF Next

\* The throttle rows, the sessions and the requests keep the types of the code
\* (auth.go:67-94, auth_store.go:34-124).
THEOREM TypesHold == Spec => []TypeOK
<1>. DEFINE I == TypeOK /\ \A h \in Handlers : Control(h)
<1>1. I /\ [Next]_vars => I'
  BY StepTypes
<1>2. Init => I
  BY InitTypes
<1>3. I => TypeOK
  OBVIOUS
<1>. HIDE DEF I
<1>. QED
  BY <1>1, <1>2, <1>3, PTL DEF Spec
-----------------------------------------------------------------------------
(* The throttle.  A handler reads the clock once and acts on it later: what *)
(* it was told stays true as long as no other attempt of its pair is under  *)
(* way, and from then on the pair counts as raced.                          *)

\* Past the throttle, no block of the pair reaches beyond the instant that was read.
Unblocked ==
  \A h \in Handlers :
    pc[h] \in Attempting \ {"is_blocked", "create_session"} /\ pair[h] \notin raced
    => row[pair[h]].blocked_until <= now[h]

\* Attempts of the same pair at a time are noticed.
Alone ==
  \A g, h \in Handlers :
    g # h /\ pc[g] \in Attempting /\ pc[h] \in Attempting /\ pair[g] = pair[h] => pair[g] \in raced

\* The old session is revoked before the new one is made.
Rotated ==
  \A h \in Handlers :
    faults = {} /\ pc[h] \in {"clear_failures", "create_session"} => session[token[h]] = "revoked"

IInv == TypeOK /\ (\A h \in Handlers : Control(h)) /\ Unblocked /\ Alone /\ Rotated

\* A row is changed by a request of its pair only: one that ends with a failure, or
\* one whose success removes it.
LEMMA RowEffect ==
  ASSUME IInv, [Next]_vars, NEW p \in Pairs, row'[p] # row[p]
  PROVE  \E h \in Handlers : /\ pair[h] = p /\ pc[h] \in {"record_failure", "clear_failures"}
                             /\ pc[h] = "record_failure" => pc'[h] = "idle"
                             /\ pc[h] = "clear_failures" => row'[p] = NoRow
<1>1. CASE UNCHANGED row
  BY <1>1
<1>2. ASSUME NEW h \in Handlers, RecordFailure(h), row' # row
      PROVE  pair[h] = p /\ pc[h] = "record_failure" /\ pc'[h] = "idle"
  BY <1>2 DEF RecordFailure, IInv, TypeOK, Answer, At
<1>3. ASSUME NEW h \in Handlers, ClearFailures(h), row' # row
      PROVE  pair[h] = p /\ pc[h] = "clear_failures" /\ row'[p] = NoRow
  BY <1>3 DEF ClearFailures, IInv, TypeOK, At
<1>. QED
  BY <1>1, <1>2, <1>3 DEF Next, vars, LoginPage, Tick, BeginSignIn, IsBlocked, Verify, RevokeOld,
     CreateSession, BeginSignOut, SignOut

\* What a step does to a request: it begins an attempt, moves it on, ends it, or
\* leaves it alone; and pairs stay raced.
Stays(h) == pc'[h] = pc[h] /\ pair'[h] = pair[h] /\ token'[h] = token[h] /\ now'[h] = now[h]
Moves(h) ==
  /\ pair'[h] = pair[h] /\ token'[h] = token[h] /\ now'[h] = now[h]
  /\ pc[h] \in Attempting /\ pc'[h] \in Attempting \ {"is_blocked"}

LEMMA RequestEffect ==
  ASSUME IInv, [Next]_vars, NEW h \in Handlers
  PROVE  /\ raced \subseteq raced'
         /\ \/ Moves(h) \/ BeginSignIn(h) \/ pc'[h] \notin Attempting
            \/ Stays(h)
<1>. USE DEF IInv, TypeOK, At, Moves, Stays, Attempting
<1>1. ASSUME NEW g \in Handlers,
             IsBlocked(g) \/ Verify(g) \/ RecordFailure(g) \/ RevokeOld(g) \/ ClearFailures(g)
             \/ CreateSession(g) \/ SignOut(g)
      PROVE  Goto(g, "verify") \/ Goto(g, "revoke_old") \/ Goto(g, "record_failure")
             \/ Goto(g, "clear_failures") \/ Goto(g, "create_session") \/ Answer(g)
  BY <1>1 DEF IsBlocked, Verify, RecordFailure, RevokeOld, ClearFailures, CreateSession, SignOut
<1>2. ASSUME NEW g \in Handlers,
             IsBlocked(g) \/ Verify(g) \/ RecordFailure(g) \/ RevokeOld(g) \/ ClearFailures(g)
             \/ CreateSession(g) \/ SignOut(g)
      PROVE  raced' = raced /\ (pc[g] \in Attempting \/ Answer(g))
  BY <1>2 DEF IsBlocked, Verify, RecordFailure, RevokeOld, ClearFailures, CreateSession, SignOut
<1>3. ASSUME NEW g \in Handlers, Answer(g)
      PROVE  pc'[h] \notin Attempting
             \/ Stays(h)
  <2>1. CASE g = h
    <3>1. pc'[h] = "idle"
      BY <1>3, <2>1, AnswerTypes, Zenon
    <3>. QED
      BY <3>1
  <2>2. CASE g # h
    BY <1>3, <2>2, AnswerTypes
  <2>. QED
    BY <2>1, <2>2
<1>4. ASSUME NEW g \in Handlers, pc[g] \in Attempting,
             Goto(g, "verify") \/ Goto(g, "revoke_old") \/ Goto(g, "record_failure")
             \/ Goto(g, "clear_failures") \/ Goto(g, "create_session")
      PROVE  Moves(h)
             \/ Stays(h)
  BY <1>4 DEF Goto, request
<1>5. ASSUME NEW g \in Handlers,
             IsBlocked(g) \/ Verify(g) \/ RecordFailure(g) \/ RevokeOld(g) \/ ClearFailures(g)
             \/ CreateSession(g) \/ SignOut(g)
      PROVE  /\ raced \subseteq raced'
             /\ \/ Moves(h) \/ pc'[h] \notin Attempting
                \/ Stays(h)
  BY <1>1, <1>2, <1>3, <1>4, <1>5, Zenon
<1>6. ASSUME NEW g \in Handlers, BeginSignIn(g)
      PROVE  /\ raced \subseteq raced'
             /\ \/ BeginSignIn(h)
                \/ Stays(h)
  BY <1>6 DEF BeginSignIn
<1>7. ASSUME NEW g \in Handlers, BeginSignOut(g)
      PROVE  /\ raced' = raced
             /\ \/ pc'[h] \notin Attempting
                \/ Stays(h)
  BY <1>7 DEF BeginSignOut
<1>8. ASSUME LoginPage \/ Tick \/ UNCHANGED vars
      PROVE  raced' = raced /\ pc' = pc /\ pair' = pair /\ token' = token /\ now' = now
  BY <1>8 DEF LoginPage, Tick, vars, request
<1>. QED
  BY <1>5, <1>6, <1>7, <1>8 DEF Next
\* Only its own steps move a handler.
LEMMA OwnStep ==
  ASSUME IInv, [Next]_vars, NEW h \in Handlers, pc'[h] # pc[h]
  PROVE  \/ BeginSignIn(h) \/ IsBlocked(h) \/ Verify(h) \/ RecordFailure(h) \/ RevokeOld(h)
         \/ ClearFailures(h) \/ CreateSession(h) \/ BeginSignOut(h) \/ SignOut(h)
<1>. USE DEF IInv, TypeOK, Goto, Answer
<1>1. pc' # pc
  OBVIOUS
<1>2. ASSUME NEW g \in Handlers, IsBlocked(g) \/ Verify(g) \/ RecordFailure(g) \/ RevokeOld(g)
      PROVE  g = h
  BY <1>2 DEF IsBlocked, Verify, RecordFailure, RevokeOld
<1>3. ASSUME NEW g \in Handlers, ClearFailures(g) \/ CreateSession(g) \/ SignOut(g)
      PROVE  g = h
  BY <1>3 DEF ClearFailures, CreateSession, SignOut
<1>4. ASSUME NEW g \in Handlers, BeginSignIn(g) \/ BeginSignOut(g)
      PROVE  g = h
  BY <1>4 DEF BeginSignIn, BeginSignOut
<1>. QED
  BY <1>1, <1>2, <1>3, <1>4 DEF Next, vars, LoginPage, Tick

LEMMA UnblockedKept == IInv /\ [Next]_vars => Unblocked'
<1>. SUFFICES ASSUME IInv, [Next]_vars, NEW h \in Handlers,
                     pc'[h] \in Attempting \ {"is_blocked", "create_session"}, pair'[h] \notin raced'
              PROVE  row'[pair'[h]].blocked_until <= now'[h]
  BY DEF Unblocked
<1>1. TypeOK' /\ Control(h)'
  BY StepTypes DEF IInv
<1>2. pair'[h] \in Pairs /\ now'[h] \in Nat
  BY <1>1 DEF Control, TypeOK
<1>3. pair'[h] = pair[h] /\ now'[h] = now[h] /\ pc[h] \in Attempting /\ pc[h] # "create_session"
      /\ pair[h] \notin raced
  <2>1. CASE Moves(h)
    <3>1. pc[h] # "create_session"
      BY <2>1 DEF Next, vars, request, LoginPage, Tick, BeginSignIn, IsBlocked, Verify, RecordFailure,
         RevokeOld, ClearFailures, CreateSession, BeginSignOut, SignOut, At, Goto, Answer, Moves,
         Attempting, IInv, TypeOK
    <3>. QED
      BY <2>1, <3>1, RequestEffect DEF Moves, Stays
  <2>2. CASE BeginSignIn(h)
    BY <2>2 DEF BeginSignIn, IInv, TypeOK
  <2>. QED
    BY <2>1, <2>2, RequestEffect DEF Stays
<1>4. row[pair[h]].blocked_until <= now[h]
  <2>1. CASE pc[h] = "is_blocked"
    <3>1. IsBlocked(h)
      BY <2>1, <1>3 DEF Next, vars, request, LoginPage, Tick, BeginSignIn, IsBlocked, Verify, RecordFailure,
         RevokeOld, ClearFailures, CreateSession, BeginSignOut, SignOut, At, Goto, Answer,
         Attempting, IInv, TypeOK
    <3>2. ~Blocked(pair[h], now[h])
      BY <3>1 DEF IsBlocked, Answer, IInv, TypeOK, Attempting
    <3>. QED
      BY <1>2, <1>3, <3>2 DEF Blocked, IInv, TypeOK
  <2>. QED
    BY <1>3, <2>1 DEF IInv, Unblocked
<1>5. CASE row'[pair[h]] = row[pair[h]]
  BY <1>3, <1>4, <1>5
<1>6. CASE row'[pair[h]] # row[pair[h]]
  <2>1. PICK g \in Handlers : /\ pair[g] = pair[h] /\ pc[g] \in {"record_failure", "clear_failures"}
                              /\ pc[g] = "record_failure" => pc'[g] = "idle"
                              /\ pc[g] = "clear_failures" => row'[pair[h]] = NoRow
    BY <1>2, <1>3, <1>6, RowEffect
  <2>2. g = h
    BY <1>3, <2>1 DEF IInv, Alone, Attempting
  <2>3. row'[pair[h]] = NoRow
    BY <2>1, <2>2 DEF Attempting
  <2>. QED
    BY <1>2, <1>3, <2>3 DEF NoRow
<1>. QED
  BY <1>5, <1>6

LEMMA AloneKept == IInv /\ [Next]_vars => Alone'
<1>. SUFFICES ASSUME IInv, [Next]_vars, NEW g \in Handlers, NEW h \in Handlers, g # h,
                     pc'[g] \in Attempting, pc'[h] \in Attempting, pair'[g] = pair'[h]
              PROVE  pair'[g] \in raced'
  BY DEF Alone
<1>1. ASSUME NEW k \in Handlers, BeginSignIn(k)
      PROVE  \A j \in Handlers \ {k} : pc'[j] = pc[j] /\ pair'[j] = pair[j]
  BY <1>1 DEF BeginSignIn, IInv, TypeOK
<1>2. ASSUME NEW k \in Handlers, NEW j \in Handlers, j # k, BeginSignIn(k),
             pc'[j] \in Attempting, pair'[j] = pair'[k]
      PROVE  pair'[k] \in raced'
  <2>1. PICK p \in Pairs :
          /\ pair' = [pair EXCEPT ![k] = p]
          /\ IF \E i \in Handlers : pc[i] \in Attempting /\ pair[i] = p
             THEN raced' = raced \cup {p} ELSE UNCHANGED raced
    BY <1>2 DEF BeginSignIn
  <2>2. pair'[k] = p /\ pc[j] \in Attempting /\ pair[j] = p
    BY <1>1, <1>2, <2>1 DEF IInv, TypeOK
  <2>. QED
    BY <2>1, <2>2
<1>3. CASE BeginSignIn(g) \/ BeginSignIn(h)
  BY <1>2, <1>3
<1>4. CASE ~BeginSignIn(g) /\ ~BeginSignIn(h)
  <2>1. /\ pc[g] \in Attempting /\ pair'[g] = pair[g]
        /\ pc[h] \in Attempting /\ pair'[h] = pair[h]
    BY <1>4, RequestEffect DEF Moves, Stays
  <2>. QED
    BY <2>1, RequestEffect DEF IInv, Alone
<1>. QED
  BY <1>3, <1>4

\* A revoked session stays revoked.
LEMMA RevokedForGood ==
  ASSUME IInv, [Next]_vars, NEW s \in Sessions, session[s] = "revoked"
  PROVE  session'[s] = "revoked"
<1>. USE DEF IInv, TypeOK
<1>1. ASSUME NEW t, NEW kind, Stores(t, kind) PROVE session'[s] = "revoked"
  BY <1>1 DEF Stores
<1>2. ASSUME NEW t, Revokes(t) PROVE session'[s] = "revoked"
  BY <1>2 DEF Revokes
<1>. QED
  BY <1>1, <1>2 DEF Next, vars, LoginPage, Tick, BeginSignIn, IsBlocked, Verify, RecordFailure,
     RevokeOld, ClearFailures, CreateSession, BeginSignOut, SignOut

LEMMA RotatedKept == IInv /\ [Next]_vars => Rotated'
<1>. SUFFICES ASSUME IInv, [Next]_vars, NEW h \in Handlers,
                     faults' = {}, pc'[h] \in {"clear_failures", "create_session"}
              PROVE  session'[token'[h]] = "revoked"
  BY DEF Rotated
<1>1. faults = {}
  BY DEF Next, vars, LoginPage, Tick, BeginSignIn, IsBlocked, Verify, RecordFailure, RevokeOld,
     ClearFailures, CreateSession, BeginSignOut, SignOut, Fault, NoFault
<1>2. CASE RevokeOld(h)
  <2>1. session' = [session EXCEPT ![token[h]] = "revoked"] /\ token' = token /\ pc[h] \in Attempting
    BY <1>2 DEF RevokeOld, Fault, Revokes, Goto, request, At, Attempting
  <2>2. token[h] \in Sessions
    BY <2>1 DEF IInv, Control
  <2>. QED
    BY <2>1, <2>2 DEF IInv, TypeOK
<1>3. CASE ~RevokeOld(h)
  <2>1. pc[h] \in {"clear_failures", "create_session"} /\ token'[h] = token[h]
    <3>1. CASE pc'[h] = pc[h]
      <4>1. ~BeginSignIn(h)
        BY <3>1 DEF BeginSignIn, At
      <4>. QED
        BY <3>1, <4>1, RequestEffect DEF Moves, Stays, Attempting
    <3>2. CASE pc'[h] # pc[h]
      <4>1. ClearFailures(h)
        BY <1>3, <3>2, OwnStep DEF BeginSignIn, IsBlocked, Verify, RecordFailure, CreateSession,
           BeginSignOut, SignOut, At, Goto, Answer, IInv, TypeOK
      <4>. QED
        BY <4>1 DEF ClearFailures, At, Goto, Answer, request, IInv, TypeOK
    <3>. QED
      BY <3>1, <3>2
  <2>2. session[token[h]] = "revoked"
    BY <1>1, <2>1 DEF IInv, Rotated
  <2>3. token[h] \in Sessions
    BY <2>1 DEF IInv, Control, Attempting
  <2>. QED
    BY <2>1, <2>2, <2>3, RevokedForGood
<1>. QED
  BY <1>2, <1>3

LEMMA Initially == Init => IInv
<1>1. Init => Unblocked /\ Alone /\ Rotated
  BY DEF Init, Unblocked, Alone, Rotated, Attempting
<1>. QED
  BY <1>1, InitTypes DEF IInv

LEMMA Inductive == IInv /\ [Next]_vars => IInv'
  BY StepTypes, UnblockedKept, AloneKept, RotatedKept DEF IInv

LEMMA Invariance == Spec => []IInv
  BY Initially, Inductive, PTL DEF Spec

-----------------------------------------------------------------------------
\* While a pair is blocked no password is tried for it, however much time passes
\* between the check of the throttle and the password (auth.go:69-76).
THEOREM BlocksAreEnforced == Spec => BlockedPairVerifiesNothing
<1>1. IInv /\ [Next]_vars =>
        [\A h \in Handlers : /\ At(h, "verify") /\ pc'[h] # "verify" /\ pair[h] \notin raced
                             => ~Blocked(pair[h], clock)]_vars
  <2>. SUFFICES ASSUME IInv, NEW h \in Handlers, At(h, "verify"), pair[h] \notin raced
                PROVE  ~Blocked(pair[h], clock)
    OBVIOUS
  <2>1. row[pair[h]].blocked_until <= now[h] /\ pair[h] \in Pairs /\ now[h] <= clock
    BY DEF IInv, Unblocked, Control, At, Attempting
  <2>2. row[pair[h]].blocked_until \in Nat /\ now[h] \in Nat /\ clock \in Nat
    BY <2>1, ConstantsAssumption DEF IInv, TypeOK
  <2>. QED
    BY <2>1, <2>2 DEF Blocked
<1>. QED
  BY <1>1, Invariance, PTL DEF Spec, BlockedPairVerifiesNothing

\* A block stands until it ends: neither a failure nor a success of an attempt that
\* was let through can replace it (auth_store.go:96-124).
THEOREM BlocksLast == Spec => BlockStands
<1>1. IInv /\ [Next]_vars => [\A p \in Pairs \ raced : Blocked(p, clock) => row'[p] = row[p]]_vars
  <2>. SUFFICES ASSUME IInv, [Next]_vars, NEW p \in Pairs, p \notin raced, Blocked(p, clock),
                       row'[p] # row[p]
                PROVE  FALSE
    OBVIOUS
  <2>1. PICK h \in Handlers : pair[h] = p /\ pc[h] \in {"record_failure", "clear_failures"}
    BY RowEffect
  <2>2. row[p].blocked_until <= now[h] /\ now[h] <= clock
    BY <2>1 DEF IInv, Unblocked, Control, Attempting
  <2>3. row[p].blocked_until \in Nat /\ now[h] \in Nat /\ clock \in Nat
    BY ConstantsAssumption DEF IInv, TypeOK
  <2>. QED
    BY <2>2, <2>3 DEF Blocked
<1>. QED
  BY <1>1, Invariance, PTL DEF Spec, BlockStands

\* When a sign-in ends, the session the browser came with is no longer usable,
\* whatever its other tabs did (auth.go:78-82).
THEOREM SignInsRotate == Spec => SignInRotates
<1>1. IInv /\ [Next]_vars =>
        [\A h \in Handlers : /\ At(h, "create_session") /\ pc'[h] = "idle" /\ faults = {}
                             => ~Active(token[h])]_vars
  BY DEF IInv, Rotated, At, Active
<1>. QED
  BY <1>1, Invariance, PTL DEF Spec, SignInRotates

-----------------------------------------------------------------------------
(* How many passwords are wrong.  The row of a pair counts the attempts of *)
(* one window, which starts with the first of them; a full window ends     *)
(* with a block that outlasts it.  So a stretch as long as the window that *)
(* reaches into two counting windows meets the full second one and, of the *)
(* first, neither the attempt that started it nor one that filled it.      *)

From(T, s) == {a \in T : s <= a[1]}
Span(T, s, e) == {a \in T : s <= a[1] /\ a[1] < e}

\* What the row r says of the wrong attempts T it stands for.
Stands(T, r) ==
  LET n == r.failure_count
      start == r.window_started_at
  IN  /\ n <= ThrottleFailures
      /\ n = 0 => T = {}
      /\ n > 0 =>
           /\ Cardinality(From(T, start)) = n
           /\ \E a \in T : a[1] = start
           /\ \A a \in T : a[1] < start + ThrottleWindow
           /\ \A s \in Nat : s <= start /\ start < s + ThrottleWindow
                => Cardinality(Span(T, s, start)) <= ThrottleFailures - 2
      /\ n = ThrottleFailures => \A a \in T : a[1] + ThrottleWindow <= r.blocked_until
      /\ \A s \in Nat : Cardinality(Span(T, s, s + ThrottleWindow)) <= 2 * ThrottleFailures - 2

\* Cardinalities of parts of a finite set.
LEMMA PartOf ==
  ASSUME NEW B, IsFiniteSet(B), NEW A, A \subseteq B
  PROVE  /\ IsFiniteSet(A) /\ Cardinality(A) \in Nat /\ Cardinality(B) \in Nat
         /\ Cardinality(A) <= Cardinality(B)
  BY FS_Subset, FS_CardinalityType

LEMMA BothParts ==
  ASSUME NEW A, IsFiniteSet(A), NEW B, IsFiniteSet(B)
  PROVE  IsFiniteSet(A \cup B) /\ Cardinality(A \cup B) <= Cardinality(A) + Cardinality(B)
<1>1. Cardinality(A) \in Nat /\ Cardinality(B) \in Nat /\ Cardinality(A \cap B) \in Nat
  BY FS_CardinalityType, FS_Intersection
<1>2. IsFiniteSet(A \cup B)
      /\ Cardinality(A \cup B) = Cardinality(A) + Cardinality(B) - Cardinality(A \cap B)
  BY FS_Union
<1>. QED
  BY <1>1, <1>2

\* One attempt more is one more at most, and one more when it is in the part.
LEMMA OneMore ==
  ASSUME NEW A, IsFiniteSet(A), NEW x, x \notin A
  PROVE  IsFiniteSet(A \cup {x}) /\ Cardinality(A \cup {x}) = Cardinality(A) + 1
  BY FS_AddElement

\* A wrong attempt x at t, which the throttle let through, is what the row that
\* RecordFailure writes then counts (auth_store.go:96-117).
LEMMA FailureStands ==
  ASSUME NEW p \in Pairs, NEW t \in Nat, NEW T \in SUBSET (Nat \X Nat), NEW x \in Nat \X Nat,
         IsFiniteSet(T), x \notin T, x[1] = t, \A a \in T : a[1] <= t,
         row[p].failure_count \in Nat, row[p].window_started_at \in Nat, row[p].blocked_until \in Nat,
         row[p].blocked_until <= t, Stands(T, row[p])
  PROVE  Stands(T \cup {x}, Failed(p, t))
<1>. DEFINE n == row[p].failure_count
            start == row[p].window_started_at
            U == T \cup {x}
            F == ThrottleFailures
            W == ThrottleWindow
            Fresh == n = 0 \/ start + W <= t
            row2 == Failed(p, t)
<1>0. /\ n \in Nat /\ start \in Nat /\ F \in Nat /\ F >= 2 /\ W \in Nat /\ W >= 1
      /\ BlockDuration \in Nat /\ BlockDuration >= W
      /\ \A a \in U : a[1] \in Nat
  BY ConstantsAssumption
<1>1. IsFiniteSet(U)
  BY FS_AddElement
<1>2. /\ row2.failure_count = IF Fresh THEN 1 ELSE n + 1
      /\ row2.window_started_at = IF Fresh THEN t ELSE start
      /\ row2.failure_count >= F => row2.blocked_until = t + BlockDuration
  BY DEF Failed
<1>3. /\ n <= F /\ (n = 0 => T = {})
      /\ n > 0 => /\ Cardinality(From(T, start)) = n
                  /\ \E a \in T : a[1] = start
                  /\ \A a \in T : a[1] < start + W
                  /\ \A s \in Nat : s <= start /\ start < s + W => Cardinality(Span(T, s, start)) <= F - 2
      /\ n = F => \A a \in T : a[1] + W <= row[p].blocked_until
      /\ \A s \in Nat : Cardinality(Span(T, s, s + W)) <= 2 * F - 2
  BY DEF Stands
<1>. HIDE DEF n, start, row2
<1>4. ASSUME NEW s \in Nat, NEW e \in Nat
      PROVE  /\ IsFiniteSet(Span(T, s, e)) /\ Cardinality(Span(T, s, e)) \in Nat
             /\ s <= t /\ t < e => Cardinality(Span(U, s, e)) = Cardinality(Span(T, s, e)) + 1
             /\ ~(s <= t /\ t < e) => Span(U, s, e) = Span(T, s, e)
  <2>1. Span(T, s, e) \subseteq T /\ x \notin Span(T, s, e)
    BY DEF Span
  <2>2. IsFiniteSet(Span(T, s, e)) /\ Cardinality(Span(T, s, e)) \in Nat
    BY <2>1, PartOf
  <2>3. s <= t /\ t < e => Span(U, s, e) = Span(T, s, e) \cup {x}
    BY DEF Span
  <2>4. ~(s <= t /\ t < e) => Span(U, s, e) = Span(T, s, e)
    BY DEF Span
  <2>5. Cardinality(Span(T, s, e) \cup {x}) = Cardinality(Span(T, s, e)) + 1
    BY <2>1, <2>2, OneMore
  <2>. QED
    BY <2>2, <2>3, <2>4, <2>5
<1>5. /\ T \subseteq U /\ x \in U /\ \A a \in U : a \in T \/ a = x
      /\ \A s : From(U, s) \subseteq U
  BY DEF From
<1>6. CASE Fresh
  <2>1. \A a \in T : a[1] < t
    BY <1>0, <1>3, <1>6
  <2>2. ASSUME NEW s \in Nat, s <= t, t < s + W
        PROVE  Cardinality(Span(T, s, s + W)) <= F - 2
    <3>0. s + W \in Nat
      BY <1>0
    <3>1. CASE n = 0
      <4>1. Span(T, s, s + W) = {}
        BY <1>3, <3>1 DEF Span
      <4>2. Cardinality(Span(T, s, s + W)) = 0
        BY <4>1, FS_EmptySet
      <4>. QED
        BY <1>0, <4>2
    <3>2. CASE n = F
      <4>1. \A a \in T : a[1] + W <= t
        BY <1>0, <1>3, <3>2
      <4>2. Span(T, s, s + W) = {}
        BY <1>0, <2>2, <4>1 DEF Span
      <4>3. Cardinality(Span(T, s, s + W)) = 0
        BY <4>2, FS_EmptySet
      <4>. QED
        BY <1>0, <4>3
    <3>3. CASE n > 0 /\ n < F
      <4>1. start + W <= t /\ start < s
        BY <1>0, <1>6, <2>2, <3>3
      <4>2. PICK a \in T : a[1] = start
        BY <1>3, <3>3
      <4>3. From(T, start) \subseteq T /\ a \in From(T, start)
        BY <1>0, <4>2 DEF From
      <4>4. IsFiniteSet(From(T, start) \ {a}) /\ Cardinality(From(T, start) \ {a}) = n - 1
        BY <1>3, <3>3, <4>3, PartOf, FS_RemoveElement
      <4>5. Span(T, s, s + W) \subseteq From(T, start) \ {a}
        BY <1>0, <4>1, <4>2 DEF From, Span
      <4>6. Cardinality(Span(T, s, s + W)) <= n - 1 /\ Cardinality(Span(T, s, s + W)) \in Nat
        BY <4>4, <4>5, PartOf
      <4>. HIDE DEF F, W
      <4>. QED
        BY <1>0, <3>3, <4>6
    <3>. QED
      BY <1>0, <1>3, <3>1, <3>2, <3>3
  <2>3. Cardinality(From(U, t)) = 1
    <3>1. From(U, t) = {x}
      BY <1>0, <2>1 DEF From
    <3>. QED
      BY <3>1, FS_Singleton
  <2>4. ASSUME NEW s \in Nat, s <= t, t < s + W
        PROVE  Cardinality(Span(U, s, t)) <= F - 2
    <3>1. Span(U, s, t) = Span(T, s, s + W)
      BY <1>0, <2>1, <2>4 DEF Span
    <3>. QED
      BY <2>2, <2>4, <3>1
  <2>5. ASSUME NEW s \in Nat PROVE Cardinality(Span(U, s, s + W)) <= 2 * F - 2
    <3>1. s + W \in Nat
      BY <1>0
    <3>2. CASE s <= t /\ t < s + W
      <4>1. /\ Cardinality(Span(U, s, s + W)) = Cardinality(Span(T, s, s + W)) + 1
            /\ Cardinality(Span(T, s, s + W)) \in Nat /\ Cardinality(Span(T, s, s + W)) <= F - 2
        BY <1>4, <2>2, <3>1, <3>2
      <4>. QED
        BY <1>0, <4>1
    <3>3. CASE ~(s <= t /\ t < s + W)
      BY <1>3, <1>4, <3>1, <3>3
    <3>. QED
      BY <3>2, <3>3
  <2>6. /\ row2.failure_count = 1 /\ row2.window_started_at = t /\ F # 1 /\ F >= 1
        /\ \E a \in U : a[1] = t
        /\ \A a \in U : a[1] < t + W
    BY <1>0, <1>2, <1>6, <2>1
  <2>. HIDE DEF U
  <2>7. Stands(U, row2)
    BY <2>3, <2>4, <2>5, <2>6 DEF Stands
  <2>. QED
    BY <2>7 DEF U, row2
<1>7. CASE ~Fresh
  <2>1. PICK a \in T : a[1] = start
    BY <1>3, <1>0, <1>7
  <2>2. start <= t /\ t < start + W /\ n > 0
    BY <1>0, <1>7, <2>1
  <2>3. n < F
    <3>1. n = F => start + W <= t
      BY <1>0, <1>3, <2>1
    <3>. QED
      BY <1>0, <1>3, <2>2, <3>1
  <2>4. Cardinality(From(U, start)) = n + 1 /\ IsFiniteSet(From(U, start))
    <3>1. From(U, start) = From(T, start) \cup {x} /\ x \notin From(T, start) /\ From(T, start) \subseteq T
      BY <1>0, <2>2 DEF From
    <3>2. IsFiniteSet(From(T, start))
      BY <3>1, PartOf
    <3>3. Cardinality(From(T, start)) = n
      BY <1>3, <2>2
    <3>4. IsFiniteSet(From(T, start) \cup {x})
          /\ Cardinality(From(T, start) \cup {x}) = Cardinality(From(T, start)) + 1
      BY <3>1, <3>2, OneMore
    <3>. QED
      BY <3>1, <3>3, <3>4
  <2>5. ASSUME NEW s \in Nat, s <= start, start < s + W
        PROVE  Cardinality(Span(U, s, start)) <= F - 2 /\ Cardinality(Span(U, s, start)) \in Nat
               /\ IsFiniteSet(Span(U, s, start))
    <3>1. Span(U, s, start) = Span(T, s, start)
      BY <1>0, <2>2 DEF Span
    <3>. QED
      BY <1>0, <1>3, <1>4, <2>2, <2>5, <3>1
  <2>. HIDE DEF U, F, W
  <2>6. ASSUME NEW s \in Nat PROVE Cardinality(Span(U, s, s + W)) <= 2 * F - 2
    <3>1. s + W \in Nat
      BY <1>0
    <3>2. CASE ~(s <= t /\ t < s + W)
      BY <1>3, <1>4, <3>1, <3>2
    <3>3. CASE s <= t /\ t < s + W /\ start < s
      <4>1. Span(U, s, s + W) \subseteq From(U, start)
        BY <1>0, <3>3 DEF Span, From
      <4>2. Cardinality(Span(U, s, s + W)) <= n + 1 /\ Cardinality(Span(U, s, s + W)) \in Nat
        BY <2>4, <4>1, PartOf
      <4>. QED
        BY <1>0, <2>3, <4>2
    <3>4. CASE s <= start /\ start < s + W
      <4>. DEFINE A == Span(U, s, start)
                  B == From(U, start)
      <4>1. Span(U, s, s + W) \subseteq A \cup B
        BY <1>0 DEF Span, From
      <4>2. IsFiniteSet(A) /\ Cardinality(A) \in Nat /\ Cardinality(A) <= F - 2
        BY <2>5, <3>4
      <4>3. IsFiniteSet(B) /\ Cardinality(B) = n + 1
        BY <2>4
      <4>. HIDE DEF A, B
      <4>4. IsFiniteSet(A \cup B) /\ Cardinality(A \cup B) <= Cardinality(A) + Cardinality(B)
        BY <4>2, <4>3, BothParts
      <4>5. /\ Cardinality(A \cup B) \in Nat /\ Cardinality(Span(U, s, s + W)) \in Nat
            /\ Cardinality(Span(U, s, s + W)) <= Cardinality(A \cup B)
        BY <4>1, <4>4, PartOf
      <4>. QED
        BY <1>0, <2>3, <4>2, <4>3, <4>4, <4>5
    <3>. QED
      BY <1>0, <2>2, <3>2, <3>3, <3>4
  <2>7. /\ row2.failure_count = n + 1 /\ row2.window_started_at = start
        /\ n + 1 >= F => row2.blocked_until = t + BlockDuration
    BY <1>2, <1>7
  <2>8. /\ \E b \in U : b[1] = start
        /\ \A b \in U : b[1] < start + W
        /\ \A b \in U : b[1] + W <= t + BlockDuration
    BY <1>0, <1>3, <1>5, <2>1, <2>2
  <2>9. n + 1 > 0 /\ n + 1 <= F /\ n + 1 # 0
    BY <1>0, <2>3
  <2>10. Stands(U, row2)
    BY <2>4, <2>5, <2>6, <2>7, <2>8, <2>9 DEF Stands, F, W
  <2>. QED
    BY <2>10 DEF U, row2
<1>. QED
  BY <1>6, <1>7

\* Between the password and RecordFailure an attempt is one that the row does not count.
Recording(h, p) == pc[h] = "record_failure" /\ pair[h] = p

\* The row of a pair, or the one that RecordFailure is about to write, counts the wrong
\* attempts, and these lie in the past of whoever will fail next.
Counting(p) ==
  /\ IsFiniteSet(Tries(p))
  /\ \A h \in Handlers : Recording(h, p) => Stands(Tries(p), Failed(p, now[h]))
  /\ (\A h \in Handlers : ~Recording(h, p)) => Stands(Tries(p), row[p])
  /\ \A a \in Tries(p) : /\ a[1] <= clock
                         /\ \A h \in Handlers : pc[h] \in Attempting /\ pair[h] = p => a[1] <= now[h]

GuessInv == faults = {} => \A p \in Pairs \ raced : Counting(p)

\* What a step is to a pair: nothing, a password that is wrong, its record, or a success.
Quiet(p) ==
  /\ row'[p] = row[p] /\ wrong'[p] = wrong[p]
  /\ \A h \in Handlers : /\ Recording(h, p)' <=> Recording(h, p)
                         /\ Recording(h, p) => now'[h] = now[h]
Fails(h, p) ==
  /\ pc[h] = "verify" /\ pair[h] = p /\ pc'[h] = "record_failure"
  /\ \A g \in Handlers \ {h} : pc'[g] = pc[g]
  /\ UNCHANGED <<row, pair, now>> /\ wrong' = [wrong EXCEPT ![p][now[h]] = @ + 1]
Records(h, p) ==
  /\ Recording(h, p) /\ pc'[h] = "idle"
  /\ \A g \in Handlers \ {h} : pc'[g] = pc[g] /\ pair'[g] = pair[g]
  /\ row'[p] = Failed(p, now[h]) /\ wrong' = wrong
Clears(h, p) ==
  /\ pc[h] = "clear_failures" /\ pair[h] = p /\ pc'[h] = "create_session"
  /\ \A g \in Handlers \ {h} : pc'[g] = pc[g]
  /\ pair' = pair /\ row'[p] = NoRow /\ wrong'[p] = [t \in 0..MaxClock |-> 0]

LEMMA PairEffect ==
  ASSUME IInv, [Next]_vars, NEW p \in Pairs, p \notin raced', faults' = {}
  PROVE  Quiet(p) \/ \E h \in Handlers : Fails(h, p) \/ Records(h, p) \/ Clears(h, p)
<1>. DEFINE Goal == Quiet(p) \/ \E h \in Handlers : Fails(h, p) \/ Records(h, p) \/ Clears(h, p)
<1>0. TypeOK /\ faults = {} /\ p \notin raced
  <2>1. faults = {}
    BY DEF Next, vars, LoginPage, Tick, BeginSignIn, IsBlocked, Verify, RecordFailure, RevokeOld,
       ClearFailures, CreateSession, BeginSignOut, SignOut, Fault, NoFault
  <2>2. raced \subseteq raced'
    BY DEF Next, vars, LoginPage, Tick, BeginSignIn, IsBlocked, Verify, RecordFailure, RevokeOld,
       ClearFailures, CreateSession, BeginSignOut, SignOut
  <2>. QED
    BY <2>1, <2>2 DEF IInv
<1>. USE <1>0 DEF At, Recording
<1>1. ASSUME NEW h \in Handlers, pc[h] # "record_failure", row' = row, wrong'[p] = wrong[p],
             pc'[h] # "record_failure", \A g \in Handlers \ {h} : pc'[g] = pc[g] /\ pair'[g] = pair[g] /\ now'[g] = now[g]
      PROVE  Goal
  BY <1>1 DEF Quiet
<1>2. ASSUME NEW h \in Handlers, BeginSignIn(h) PROVE Goal
  <2>1. PICK q \in Pairs :
          /\ pair' = [pair EXCEPT ![h] = q] /\ now' = [now EXCEPT ![h] = clock]
          /\ pc' = [pc EXCEPT ![h] = "is_blocked"] /\ row' = row /\ pc[h] = "idle"
          /\ \/ raced' = raced \cup {q} /\ wrong' = [wrong EXCEPT ![q] = [t \in 0..MaxClock |-> 0]]
             \/ wrong' = wrong
    BY <1>2 DEF BeginSignIn
  <2>2. wrong'[p] = wrong[p]
    BY <2>1 DEF TypeOK
  <2>. QED
    BY <1>1, <2>1, <2>2 DEF TypeOK
<1>3. ASSUME NEW h \in Handlers,
             IsBlocked(h) \/ RevokeOld(h) \/ CreateSession(h) \/ BeginSignOut(h) \/ SignOut(h)
      PROVE  Goal
  <2>1. /\ row' = row /\ wrong' = wrong /\ pc[h] # "record_failure"
        /\ \/ Goto(h, "verify") \/ Goto(h, "clear_failures") \/ Answer(h)
           \/ pc' = [pc EXCEPT ![h] = "sign_out"] /\ pair' = pair /\ now' = now
    BY <1>3 DEF IsBlocked, RevokeOld, CreateSession, BeginSignOut, SignOut
  <2>2. pc'[h] # "record_failure" /\ \A g \in Handlers \ {h} : pc'[g] = pc[g] /\ pair'[g] = pair[g] /\ now'[g] = now[g]
    BY <2>1 DEF Goto, request, Answer, TypeOK
  <2>. QED
    BY <1>1, <2>1, <2>2
<1>4. ASSUME NEW h \in Handlers, Verify(h) PROVE Goal
  <2>1. /\ pc[h] = "verify" /\ row' = row /\ pair' = pair /\ now' = now
        /\ \A g \in Handlers \ {h} : pc'[g] = pc[g]
    BY <1>4 DEF Verify, Goto, request, TypeOK
  <2>2. CASE Goto(h, "revoke_old") /\ wrong' = wrong
    BY <1>1, <2>1, <2>2 DEF Goto, TypeOK
  <2>3. CASE Goto(h, "record_failure") /\ pair[h] = p /\ wrong' = [wrong EXCEPT ![pair[h]][now[h]] = @ + 1]
    BY <2>1, <2>3 DEF Goto, Fails, TypeOK
  <2>4. CASE Goto(h, "record_failure") /\ pair[h] # p
    <3>1. wrong'[p] = wrong[p]
      BY <1>4, <2>4 DEF Verify, TypeOK, Goto
    <3>. QED
      BY <2>1, <2>4, <3>1 DEF Quiet
  <2>. QED
    BY <1>4, <2>2, <2>3, <2>4 DEF Verify, Goto
<1>5. ASSUME NEW h \in Handlers, RecordFailure(h) PROVE Goal
  <2>1. /\ row' = [row EXCEPT ![pair[h]] = Failed(pair[h], now[h])] /\ wrong' = wrong
        /\ pc[h] = "record_failure" /\ Answer(h)
    BY <1>5 DEF RecordFailure, Fault
  <2>2. pc'[h] = "idle" /\ \A g \in Handlers \ {h} : pc'[g] = pc[g] /\ pair'[g] = pair[g] /\ now'[g] = now[g]
    BY <2>1 DEF Answer, TypeOK
  <2>3. CASE pair[h] = p
    BY <2>1, <2>2, <2>3 DEF Records, TypeOK
  <2>4. CASE pair[h] # p
    <3>1. row'[p] = row[p]
      BY <2>1, <2>4 DEF TypeOK
    <3>. QED
      BY <2>1, <2>2, <2>4, <3>1 DEF Quiet
  <2>. QED
    BY <2>3, <2>4
<1>6. ASSUME NEW h \in Handlers, ClearFailures(h) PROVE Goal
  <2>1. /\ row' = [row EXCEPT ![pair[h]] = NoRow] /\ wrong' = [wrong EXCEPT ![pair[h]] = [t \in 0..MaxClock |-> 0]]
        /\ pc[h] = "clear_failures" /\ Goto(h, "create_session")
    BY <1>6 DEF ClearFailures, Fault
  <2>2. /\ pc'[h] = "create_session" /\ pair' = pair /\ now' = now
        /\ \A g \in Handlers \ {h} : pc'[g] = pc[g]
    BY <2>1 DEF Goto, request, TypeOK
  <2>3. CASE pair[h] = p
    BY <2>1, <2>2, <2>3 DEF Clears, TypeOK
  <2>4. CASE pair[h] # p
    <3>1. row'[p] = row[p] /\ wrong'[p] = wrong[p]
      BY <2>1, <2>4 DEF TypeOK
    <3>. QED
      BY <2>1, <2>2, <2>4, <3>1 DEF Quiet
  <2>. QED
    BY <2>3, <2>4
<1>7. CASE LoginPage \/ Tick \/ UNCHANGED vars
  BY <1>7 DEF LoginPage, Tick, vars, request, Quiet
<1>. QED
  BY <1>2, <1>3, <1>4, <1>5, <1>6, <1>7 DEF Next

\* The wrong attempts of a pair, and what one more is.
LEMMA TriesAre ==
  ASSUME TypeOK, NEW p \in Pairs
  PROVE  /\ Tries(p) \subseteq (0..MaxClock) \X (Nat \ {0})
         /\ \A t \in 0..MaxClock : \A i : <<t, i>> \in Tries(p) <=> i \in 1..wrong[p][t]
<1>1. \A t \in 0..MaxClock : wrong[p][t] \in Nat
  BY DEF TypeOK
<1>. QED
  BY <1>1 DEF Tries

LEMMA TriesMore ==
  ASSUME TypeOK, NEW p \in Pairs, NEW t \in 0..MaxClock, wrong' = [wrong EXCEPT ![p][t] = @ + 1]
  PROVE  /\ Tries(p)' = Tries(p) \cup {<<t, wrong[p][t] + 1>>}
         /\ <<t, wrong[p][t] + 1>> \notin Tries(p)
<1>. DEFINE Instants == 0..MaxClock
            W == wrong[p]
            V == wrong'[p]
<1>1. W \in [Instants -> Nat]
  BY DEF TypeOK
<1>2. V[t] = W[t] + 1 /\ \A u \in Instants : u # t => V[u] = W[u]
  BY DEF TypeOK
<1>3. /\ Tries(p) = UNION {{u} \X (1..W[u]) : u \in Instants}
      /\ Tries(p)' = UNION {{u} \X (1..V[u]) : u \in Instants}
  BY DEF Tries
<1>4. t \in Instants
  OBVIOUS
<1>. HIDE DEF W, V, Instants
<1>5. W[t] \in Nat /\ \A u \in Instants : W[u] \in Nat /\ V[u] \in Nat
  <2>1. \A u \in Instants : W[u] \in Nat
    BY <1>1
  <2>. QED
    BY <1>2, <1>4, <2>1
<1>6. 1..V[t] = (1..W[t]) \cup {W[t] + 1}
  BY <1>2, <1>4, <1>5
<1>7. Tries(p)' = Tries(p) \cup {<<t, W[t] + 1>>}
  BY <1>2, <1>3, <1>4, <1>5, <1>6
<1>8. <<t, W[t] + 1>> \notin Tries(p)
  BY <1>3, <1>4, <1>5
<1>. QED
  BY <1>7, <1>8 DEF W

LEMMA ClearedTries ==
  ASSUME NEW p, NEW h, Clears(h, p)
  PROVE  Tries(p)' = {}
<1>1. \A t \in 0..MaxClock : wrong'[p][t] = 0
  BY DEF Clears
<1>. QED
  BY <1>1 DEF Tries

\* What is in the past of an attempt stays so, and so does what it adds.
LEMMA StepPast ==
  ASSUME IInv, IInv', [Next]_vars, NEW p \in Pairs, p \notin raced', faults' = {}, Counting(p),
         NEW a \in Tries(p)'
  PROVE  /\ a[1] <= clock'
         /\ \A h \in Handlers : pc'[h] \in Attempting /\ pair'[h] = p => a[1] <= now'[h]
<1>0. /\ TypeOK /\ TypeOK' /\ p \notin raced /\ clock \in Nat /\ clock' \in Nat /\ clock <= clock'
      /\ \A t \in 0..MaxClock : t \in Nat
  <2>1. clock' = clock \/ clock' = clock + 1
    BY DEF Next, vars, LoginPage, Tick, BeginSignIn, IsBlocked, Verify, RecordFailure, RevokeOld,
       ClearFailures, CreateSession, BeginSignOut, SignOut
  <2>2. raced \subseteq raced'
    BY DEF Next, vars, LoginPage, Tick, BeginSignIn, IsBlocked, Verify, RecordFailure, RevokeOld,
       ClearFailures, CreateSession, BeginSignOut, SignOut
  <2>3. TypeOK /\ TypeOK'
    BY DEF IInv
  <2>4. clock \in Nat
    BY <2>3, ConstantsAssumption DEF TypeOK
  <2>. QED
    BY <2>1, <2>2, <2>3, <2>4, ConstantsAssumption
<1>1. ASSUME a \in Tries(p)
      PROVE  /\ a[1] <= clock'
             /\ \A h \in Handlers : pc'[h] \in Attempting /\ pair'[h] = p => a[1] <= now'[h]
  <2>1. a[1] \in Nat /\ a[1] <= clock
    BY <1>0, <1>1, TriesAre DEF Counting
  <2>2. a[1] <= clock'
    BY <1>0, <2>1
  <2>3. ASSUME NEW h \in Handlers, pc'[h] \in Attempting, pair'[h] = p PROVE a[1] <= now'[h]
    <3>1. CASE BeginSignIn(h)
      BY <1>0, <2>1, <3>1 DEF BeginSignIn, TypeOK
    <3>2. CASE Moves(h) \/ Stays(h)
      BY <1>1, <2>3, <3>2 DEF Moves, Stays, Counting
    <3>. QED
      BY <2>3, <3>1, <3>2, RequestEffect
  <2>. QED
    BY <2>2, <2>3
<1>2. ASSUME NEW g \in Handlers, Fails(g, p), a \notin Tries(p)
      PROVE  /\ a[1] <= clock'
             /\ \A h \in Handlers : pc'[h] \in Attempting /\ pair'[h] = p => a[1] <= now'[h]
  <2>1. now[g] \in 0..MaxClock /\ now[g] \in Nat /\ now[g] <= clock /\ pair'[g] = p /\ pc'[g] \in Attempting
    BY <1>0, <1>2 DEF IInv, Control, TypeOK, Fails, Attempting
  <2>2. wrong' = [wrong EXCEPT ![p][now[g]] = @ + 1]
    BY <1>2 DEF Fails
  <2>3. Tries(p)' = Tries(p) \cup {<<now[g], wrong[p][now[g]] + 1>>}
    BY <1>0, <2>1, <2>2, TriesMore
  <2>4. a[1] = now[g]
    BY <1>2, <2>3
  <2>5. \A h \in Handlers : pc'[h] \in Attempting /\ pair'[h] = p => h = g
    BY <2>1 DEF IInv, Alone
  <2>6. now'[g] = now[g]
    BY <1>2 DEF Fails
  <2>. QED
    BY <1>0, <2>1, <2>4, <2>5, <2>6
<1>3. a \in Tries(p) \/ \E g \in Handlers : Fails(g, p)
  <2>1. \A h \in Handlers : Clears(h, p) => Tries(p)' = {}
    BY ClearedTries
  <2>2. wrong'[p] = wrong[p] => Tries(p)' = Tries(p)
    BY DEF Tries
  <2>. QED
    BY <2>1, <2>2, PairEffect DEF Quiet, Records
<1>. QED
  BY <1>1, <1>2, <1>3

LEMMA EmptyStands == Stands({}, NoRow)
<1>1. \A s, e : Span({}, s, e) = {}
  BY DEF Span
<1>2. Cardinality({}) = 0
  BY FS_EmptySet
<1>. QED
  BY <1>1, <1>2, ConstantsAssumption DEF Stands, NoRow

LEMMA GuessesKept == IInv /\ IInv' /\ GuessInv /\ [Next]_vars => GuessInv'
<1>. SUFFICES ASSUME IInv, IInv', GuessInv, [Next]_vars, faults' = {}, NEW p \in Pairs, p \notin raced'
              PROVE  Counting(p)'
  BY DEF GuessInv
<1>0. TypeOK /\ TypeOK' /\ p \notin raced /\ Counting(p)
  <2>1. raced \subseteq raced' /\ faults = {}
    BY DEF Next, vars, LoginPage, Tick, BeginSignIn, IsBlocked, Verify, RecordFailure, RevokeOld,
       ClearFailures, CreateSession, BeginSignOut, SignOut, Fault, NoFault
  <2>. QED
    BY <2>1 DEF GuessInv, IInv
<1>a. IsFiniteSet(Tries(p))'
  <2>1. wrong'[p] = wrong[p] => Tries(p)' = Tries(p)
    BY DEF Tries
  <2>2. ASSUME NEW h \in Handlers, Fails(h, p) PROVE IsFiniteSet(Tries(p))'
    <3>1. now[h] \in 0..MaxClock /\ wrong' = [wrong EXCEPT ![p][now[h]] = @ + 1]
      BY <1>0, <2>2 DEF Fails, TypeOK
    <3>2. Tries(p)' = Tries(p) \cup {<<now[h], wrong[p][now[h]] + 1>>}
      BY <1>0, <3>1, TriesMore
    <3>. QED
      BY <1>0, <3>2, FS_AddElement DEF Counting
  <2>. QED
    BY <1>0, <2>1, <2>2, ClearedTries, PairEffect, FS_EmptySet DEF Quiet, Records, Counting
<1>1. SUFFICES /\ \A h \in Handlers : Recording(h, p)' => Stands(Tries(p), Failed(p, now[h]))'
               /\ (\A h \in Handlers : ~Recording(h, p)') => Stands(Tries(p), row[p])'
  BY <1>0, <1>a, StepPast DEF Counting
<1>2. CASE Quiet(p)
  <2>1. Tries(p)' = Tries(p) /\ row'[p] = row[p]
    BY <1>2 DEF Quiet, Tries
  <2>2. \A t : Failed(p, t)' = Failed(p, t)
    BY <2>1 DEF Failed
  <2>3. ASSUME NEW h \in Handlers, Recording(h, p)' PROVE Stands(Tries(p), Failed(p, now[h]))'
    <3>1. now'[h] = now[h] /\ Stands(Tries(p), Failed(p, now[h]))
      BY <1>0, <1>2, <2>3 DEF Quiet, Counting
    <3>2. Failed(p, now[h])' = Failed(p, now[h])
      BY <2>1, <3>1 DEF Failed
    <3>. QED
      BY <2>1, <3>1, <3>2 DEF Stands, From, Span
  <2>4. ASSUME \A h \in Handlers : ~Recording(h, p)' PROVE Stands(Tries(p), row[p])'
    <3>1. Stands(Tries(p), row[p])
      BY <1>0, <1>2, <2>4 DEF Quiet, Counting
    <3>. QED
      BY <2>1, <3>1 DEF Stands, From, Span
  <2>. QED
    BY <2>3, <2>4
<1>3. ASSUME NEW g \in Handlers, NEW h \in Handlers, pair[g] = p, pair[h] = p,
             pc[g] \in Attempting, pc[h] \in Attempting
      PROVE  g = h
  BY <1>0, <1>3 DEF IInv, Alone
<1>4. ASSUME NEW h \in Handlers, Fails(h, p)
      PROVE  /\ \A g \in Handlers : Recording(g, p)' => Stands(Tries(p), Failed(p, now[g]))'
             /\ (\A g \in Handlers : ~Recording(g, p)') => Stands(Tries(p), row[p])'
  <2>. DEFINE T == Tries(p)
              t == now[h]
              x == <<t, wrong[p][t] + 1>>
  <2>1. /\ t \in 0..MaxClock /\ t \in Nat /\ wrong[p][t] \in Nat /\ x \in Nat \X Nat
        /\ pc[h] \in Attempting \ {"is_blocked", "create_session"} /\ pair[h] = p
        /\ row' = row /\ now' = now /\ wrong' = [wrong EXCEPT ![p][t] = @ + 1]
    BY <1>0, <1>4 DEF TypeOK, Fails, Attempting
  <2>2. Tries(p)' = T \cup {x} /\ x \notin T
    BY <1>0, <2>1, TriesMore
  <2>3. Stands(T, row[p])
    <3>1. \A g \in Handlers : ~Recording(g, p)
      BY <1>3, <1>4, <2>1 DEF Recording, Fails, Attempting
    <3>. QED
      BY <1>0, <3>1 DEF Counting
  <2>4. /\ row[p].failure_count \in Nat /\ row[p].window_started_at \in Nat /\ row[p].blocked_until \in Nat
        /\ row[p].blocked_until <= t
    BY <1>0, <2>1 DEF TypeOK, IInv, Unblocked
  <2>5. T \in SUBSET (Nat \X Nat) /\ IsFiniteSet(T) /\ \A a \in T : a[1] <= t
    <3>1. T \subseteq (0..MaxClock) \X (Nat \ {0})
      BY <1>0, TriesAre
    <3>2. (0..MaxClock) \X (Nat \ {0}) \subseteq Nat \X Nat
      BY ConstantsAssumption
    <3>3. \A a \in T : a[1] <= t
      BY <1>0, <2>1 DEF Counting
    <3>4. IsFiniteSet(T)
      BY <1>0 DEF Counting
    <3>. HIDE DEF T
    <3>. QED
      BY <3>1, <3>2, <3>3, <3>4
  <2>6. x[1] = t
    OBVIOUS
  <2>. HIDE DEF T, t, x
  <2>7. Stands(T \cup {x}, Failed(p, t))
    BY <2>1, <2>2, <2>3, <2>4, <2>5, <2>6, FailureStands
  <2>8. ASSUME NEW g \in Handlers, Recording(g, p)' PROVE Stands(Tries(p), Failed(p, now[g]))'
    <3>1. g = h
      BY <1>0, <2>8, <1>4, <2>1 DEF IInv, Alone, Recording, Fails, Attempting
    <3>2. Failed(p, now[g])' = Failed(p, t)
      BY <2>1, <3>1 DEF Failed, t
    <3>. QED
      BY <2>2, <2>7, <3>2 DEF Stands, From, Span
  <2>9. Recording(h, p)'
    BY <1>4 DEF Recording, Fails
  <2>. QED
    BY <2>8, <2>9
<1>5. ASSUME NEW h \in Handlers, Records(h, p)
      PROVE  /\ \A g \in Handlers : Recording(g, p)' => Stands(Tries(p), Failed(p, now[g]))'
             /\ (\A g \in Handlers : ~Recording(g, p)') => Stands(Tries(p), row[p])'
  <2>1. Stands(Tries(p), Failed(p, now[h])) /\ Tries(p)' = Tries(p) /\ row'[p] = Failed(p, now[h])
    BY <1>0, <1>5 DEF Counting, Records, Tries
  <2>2. \A g \in Handlers : ~Recording(g, p)'
    BY <1>3, <1>5 DEF Records, Recording, Attempting
  <2>. QED
    BY <2>1, <2>2 DEF Stands, From, Span
<1>6. ASSUME NEW h \in Handlers, Clears(h, p)
      PROVE  /\ \A g \in Handlers : Recording(g, p)' => Stands(Tries(p), Failed(p, now[g]))'
             /\ (\A g \in Handlers : ~Recording(g, p)') => Stands(Tries(p), row[p])'
  <2>1. Tries(p)' = {} /\ row'[p] = NoRow
    BY <1>6, ClearedTries DEF Clears
  <2>2. \A g \in Handlers : ~Recording(g, p)'
    BY <1>3, <1>6 DEF Clears, Recording, Attempting
  <2>3. NoRow' = NoRow
    BY DEF NoRow
  <2>. QED
    BY <2>1, <2>2, <2>3, EmptyStands DEF Stands, From, Span
<1>. QED
  BY <1>0, <1>2, <1>4, <1>5, <1>6, PairEffect

LEMMA InitGuesses == Init => GuessInv
<1>. SUFFICES ASSUME Init, NEW p \in Pairs PROVE Counting(p)
  BY DEF GuessInv
<1>1. Tries(p) = {}
  BY DEF Init, Tries
<1>2. row[p] = NoRow /\ \A h \in Handlers : ~Recording(h, p)
  BY DEF Init, Recording
<1>. QED
  BY <1>1, <1>2, EmptyStands, FS_EmptySet DEF Counting

\* For any limit, window and block at least as long as the window: however the attempts of
\* a pair are spread over time, and over sessions and requests that do not overlap, at most
\* twice the limit less two passwords are wrong in any stretch as long as the window
\* (auth_store.go:96-117).
THEOREM GuessesAreBounded == Spec => []GuessesBounded
<1>1. IInv /\ GuessInv => GuessesBounded
  <2>. SUFFICES ASSUME IInv, GuessInv, faults = {}, NEW p \in Pairs \ raced, NEW s \in 0..MaxClock
                PROVE  WrongWithin(p, s) <= 2 * ThrottleFailures - 2
    BY DEF GuessesBounded
  <2>1. \E r : Stands(Tries(p), r)
    BY DEF GuessInv, Counting
  <2>2. s \in Nat
    BY ConstantsAssumption
  <2>. QED
    BY <2>1, <2>2 DEF Stands, Span, WrongWithin
<1>2. Spec => [](IInv /\ GuessInv)
  BY Initially, Inductive, InitGuesses, GuessesKept, PTL DEF Spec
<1>. QED
  BY <1>1, <1>2, PTL
=============================================================================
