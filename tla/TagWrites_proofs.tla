--------------------------- MODULE TagWrites_proofs ---------------------------
(***************************************************************************)
(* Proofs about TagWrites for any transactions, bookmarks and tags.        *)
(***************************************************************************)
EXTENDS TagWrites, FiniteSetTheorems, WellFoundedInduction, TLAPS

\* A transaction that has begun works on a bookmark, by the statements of its kind.
Begun == \A x \in Transactions :
  /\ pc[x] # "idle" => target[x] \in Bookmarks
  /\ pc[x] \in {"create", "update", "delete"} => op[x] = pc[x]
  /\ pc[x] = "clear" => op[x] = "update"
  /\ pc[x] = "tags" => op[x] \in {"create", "update"}
  /\ pc[x] \in {"idle", "create", "update", "delete", "clear"} => added[x] = {}
  /\ pc[x] \in {"idle", "create", "update", "delete", "clear"} => cleared[x] = {}

\* Who has locked a row writes it, and is past the only wait for a row it has.
RowOrder == \A x \in Transactions : \A b \in Bookmarks :
  rowLock[b] = x => target[x] = b /\ pc[x] \in {"clear", "tags"}

\* Who has locked a tag wants only later ones.
TagOrder == \A x \in Transactions : \A t \in Tags :
  tagLock[t] = x => pc[x] = "tags" /\ \A u \in left[x] : t < u

Base == TypeOK /\ Begun /\ RowOrder /\ TagOrder

LEMMA InitBase == Init => Base
BY ConstantsAssumption DEF Init, Base, TypeOK, Begun, RowOrder, TagOrder

LEMMA BeginBase ==
  ASSUME Base, NEW x \in Transactions, BeginSome(x)
  PROVE  Base'
<1>1. PICK o \in {"create", "update", "delete"}, b \in Bookmarks, T \in SUBSET Tags,
           s \in Spellings \cup {NoSpelling} : Begin(x, o, b, T, s)
  BY DEF BeginSome, BeginCreate, BeginUpdate, BeginDelete
<1>. USE <1>1 DEF Begin, At, Goto, Base, tables, locks
<1>2. TypeOK'
  BY DEF TypeOK
<1>3. Begun'
  BY DEF TypeOK, Begun
<1>4. RowOrder'
  BY ConstantsAssumption DEF TypeOK, RowOrder
<1>5. TagOrder'
  BY ConstantsAssumption DEF TypeOK, TagOrder
<1>. QED
  BY <1>2, <1>3, <1>4, <1>5

LEMMA InsertRowBase ==
  ASSUME Base, NEW x \in Transactions, InsertRow(x)
  PROVE  Base'
<1>. USE ConstantsAssumption DEF InsertRow, At, Goto, Base, tables, locks, request
<1>1. TypeOK'
  BY DEF TypeOK, Begun
<1>2. Begun'
  BY DEF TypeOK, Begun
<1>3. RowOrder'
  BY DEF TypeOK, Begun, RowOrder
<1>4. TagOrder'
  BY DEF TypeOK, Begun, TagOrder
<1>. QED
  BY <1>1, <1>2, <1>3, <1>4

LEMMA RollbackBase ==
  ASSUME Base, NEW x \in Transactions, pc[x] # "idle", Rollback(x)
  PROVE  Base'
<1>. USE ConstantsAssumption DEF Rollback, Ends, Goto, Base, tables, request
<1>1. TypeOK'
  BY DEF TypeOK
<1>2. Begun'
  BY DEF TypeOK, Begun
<1>3. RowOrder'
  BY DEF TypeOK, RowOrder
<1>4. TagOrder'
  BY DEF TypeOK, TagOrder
<1>. QED
  BY <1>1, <1>2, <1>3, <1>4

LEMMA UpdateRowBase ==
  ASSUME Base, NEW x \in Transactions, UpdateRow(x)
  PROVE  Base'
<1>1. CASE Rollback(x)
  BY <1>1, RollbackBase DEF UpdateRow, At
<1>2. CASE ~Rollback(x)
  <2>1. /\ At(x, "update") /\ Goto(x, "clear") /\ rowLock' = [rowLock EXCEPT ![target[x]] = x]
        /\ UNCHANGED <<tables, tagLock, request, left, cleared, added, lastWrite>>
    BY <1>2 DEF UpdateRow
  <2>. USE <2>1, ConstantsAssumption DEF At, Goto, Base, tables, request
  <2>2. TypeOK'
    BY DEF TypeOK
  <2>3. Begun'
    BY DEF TypeOK, Begun
  <2>4. RowOrder'
    BY DEF TypeOK, Begun, RowOrder
  <2>5. TagOrder'
    BY DEF TypeOK, TagOrder
  <2>. QED
    BY <2>2, <2>3, <2>4, <2>5
<1>. QED
  BY <1>1, <1>2

LEMMA ClearLinksBase ==
  ASSUME Base, NEW x \in Transactions, ClearLinks(x)
  PROVE  Base'
<1>. USE ConstantsAssumption DEF ClearLinks, At, Goto, Base, tables, locks, request
<1>1. TypeOK'
  BY DEF TypeOK, Begun
<1>2. Begun'
  BY DEF TypeOK, Begun
<1>3. RowOrder'
  BY DEF TypeOK, Begun, RowOrder
<1>4. TagOrder'
  BY DEF TypeOK, Begun, TagOrder
<1>. QED
  BY <1>1, <1>2, <1>3, <1>4

LEMMA UpsertTagBase ==
  ASSUME Base, NEW x \in Transactions, NEW t \in Tags, UpsertTag(x, t)
  PROVE  Base'
<1>. USE ConstantsAssumption DEF UpsertTag, NextTag, At, Goto, Base, tables, locks, request
<1>1. TypeOK'
  BY DEF TypeOK, Begun
<1>2. Begun'
  BY DEF TypeOK, Begun
<1>3. RowOrder'
  BY DEF TypeOK, Begun, RowOrder
<1>4. TagOrder'
  BY DEF TypeOK, Begun, TagOrder
<1>. QED
  BY <1>1, <1>2, <1>3, <1>4

LEMMA CommitBase ==
  ASSUME Base, NEW x \in Transactions, Commit(x)
  PROVE  Base'
<1>. USE ConstantsAssumption DEF Commit, Ends, At, Goto, Base, tables, locks, request
<1>1. TypeOK'
  BY DEF TypeOK, Begun
<1>2. Begun'
  BY DEF TypeOK, Begun
<1>3. RowOrder'
  BY DEF TypeOK, Begun, RowOrder
<1>4. TagOrder'
  BY DEF TypeOK, Begun, TagOrder
<1>. QED
  BY <1>1, <1>2, <1>3, <1>4

LEMMA DeleteRowBase ==
  ASSUME Base, NEW x \in Transactions, DeleteRow(x)
  PROVE  Base'
<1>. USE ConstantsAssumption DEF DeleteRow, Ends, At, Goto, Base, tables, locks, request
<1>1. TypeOK'
  BY DEF TypeOK, Begun
<1>2. Begun'
  BY DEF TypeOK, Begun
<1>3. RowOrder'
  BY DEF TypeOK, Begun, RowOrder
<1>4. TagOrder'
  BY DEF TypeOK, Begun, TagOrder
<1>. QED
  BY <1>1, <1>2, <1>3, <1>4

LEMMA StepBase == Base /\ [Next]_vars => Base'
<1>. SUFFICES ASSUME Base, [Next]_vars PROVE Base'
  OBVIOUS
<1>1. CASE UNCHANGED vars
  BY <1>1 DEF vars, tables, locks, request, Base, TypeOK, Begun, RowOrder, TagOrder
<1>2. ASSUME NEW x \in Transactions, BeginSome(x) PROVE Base'
  BY <1>2, BeginBase
<1>3. ASSUME NEW x \in Transactions, Step(x) PROVE Base'
  BY <1>3, InsertRowBase, UpdateRowBase, ClearLinksBase, UpsertTagBase, CommitBase, DeleteRowBase
     DEF Step
<1>4. ASSUME NEW x \in Transactions, Fail(x) PROVE Base'
  BY <1>4, RollbackBase DEF Fail
<1>. QED
  BY <1>1, <1>2, <1>3, <1>4 DEF Next

LEMMA BaseHolds == Spec => []Base
BY InitBase, StepBase, PTL DEF Spec

\* The tables, the locks and the statements have their types; a tag that a
\* transaction has inserted is locked by it and was not stored before.
THEOREM TypeCorrect == Spec => []TypeOK
<1>1. Base => TypeOK
  BY DEF Base
<1>. QED
  BY BaseHolds, <1>1, PTL

\* UpsertTag only inserts what is not stored, so a stored display form is never
\* written again, whatever transactions run beside (bookmark_create.go:34).
THEOREM FirstSpelling == Spec => FirstSpellingStays
<1>1. Base /\ [Next]_vars => [\A t \in Tags : display[t] # NoSpelling => display'[t] = display[t]]_vars
  <2>. SUFFICES ASSUME Base, Next, NEW t \in Tags, display[t] # NoSpelling
                PROVE  display'[t] = display[t]
    BY DEF vars, tables
  <2>1. ASSUME NEW x \in Transactions, Commit(x) PROVE display'[t] = display[t]
    BY <2>1 DEF Commit, Base, TypeOK
  <2>2. ASSUME NEW x \in Transactions, BeginSome(x) \/ Fail(x) PROVE display'[t] = display[t]
    BY <2>2 DEF BeginSome, BeginCreate, BeginUpdate, BeginDelete, Begin, Fail, Rollback, tables
  <2>3. ASSUME NEW x \in Transactions, Step(x), ~Commit(x) PROVE display'[t] = display[t]
    BY <2>3 DEF Step, InsertRow, UpdateRow, Rollback, ClearLinks, DeleteRow, UpsertTag, tables
  <2>. QED
    BY <2>1, <2>2, <2>3 DEF Next
<1>. QED
  BY BaseHolds, <1>1, PTL DEF Spec, FirstSpellingStays

-----------------------------------------------------------------------------
(* No circular wait.                                                       *)

\* A nonempty set of tags has a last one: that with the fewest tags above it.
LEMMA LastTag ==
  ASSUME NEW W \in SUBSET Tags, W # {}
  PROVE  \E t \in W : \A u \in W : u <= t
<1>. DEFINE Above(t) == {u \in Tags : t < u}
            C == {Cardinality(Above(t)) : t \in W}
<1>1. \A t \in Tags : IsFiniteSet(Above(t)) /\ Cardinality(Above(t)) \in Nat
  BY ConstantsAssumption, FS_Subset, FS_CardinalityType
<1>2. C \subseteq Nat /\ C # {}
  BY <1>1
<1>3. PICK n \in C : \A k \in C : ~(<<k, n>> \in OpToRel(<, Nat))
  BY <1>2, NatLessThanWellFounded, WFMin
<1>4. \A k \in C : n <= k
  <2>. HIDE DEF C
  <2>. SUFFICES ASSUME NEW k \in C PROVE n <= k
    OBVIOUS
  <2>1. k \in Nat /\ n \in Nat
    BY <1>2
  <2>2. ~(k < n)
    BY <1>3, <2>1 DEF OpToRel
  <2>. QED
    BY <2>1, <2>2
<1>5. PICK t \in W : n = Cardinality(Above(t))
  OBVIOUS
<1>6. ASSUME NEW u \in W, t < u PROVE FALSE
  <2>1. Above(u) \subseteq Above(t) /\ u \in Above(t) /\ u \notin Above(u)
    <3>1. u \in Tags /\ u \in Nat /\ t \in Nat /\ \A v \in Tags : v \in Nat
      BY ConstantsAssumption
    <3>2. \A v \in Tags : u < v => t < v
      BY <1>6, <3>1
    <3>3. ~(u < u)
      BY <3>1
    <3>. QED
      BY <1>6, <3>1, <3>2, <3>3
  <2>2. Cardinality(Above(u)) <= Cardinality(Above(t)) /\ Cardinality(Above(u)) # Cardinality(Above(t))
    <3>. DEFINE A == Above(t)
                B == Above(u)
    <3>1. B \in SUBSET A /\ A # B /\ IsFiniteSet(A)
      BY <2>1, <1>1
    <3>. HIDE DEF A, B
    <3>2. Cardinality(B) <= Cardinality(A) /\ Cardinality(A) # Cardinality(B)
      BY <3>1, FS_Subset
    <3>. QED
      BY <3>2 DEF A, B
  <2>3. n <= Cardinality(Above(u))
    BY <1>4
  <2>4. Cardinality(Above(u)) \in Nat /\ Cardinality(Above(t)) \in Nat
    BY <1>1
  <2>. HIDE DEF Above, C
  <2>. QED
    BY <2>2, <2>3, <2>4, <1>5
<1>. QED
  BY <1>6, ConstantsAssumption

\* Who waits for a row waits for one that itself waits for no row; who waits for a
\* tag waits for one that wants only later tags.  So in a set where everyone waits
\* for someone of it, the last of the tags that are waited for has nobody after it.
LEMMA OrderedWaits == Base => NoCircularWait
<1>. SUFFICES ASSUME Base, NEW X \in SUBSET Transactions, X # {},
                     \A x \in X : \E y \in X : WaitsFor(x, y)
              PROVE  FALSE
  BY DEF NoCircularWait
<1>. USE DEF Base, TypeOK
<1>. DEFINE W == {t \in Tags : \E x, y \in X : At(x, "tags") /\ t \in NextTag(x) /\ tagLock[t] = y}
<1>1. \A x, y \in X : WaitsForRow(x, y) => pc[y] \in {"clear", "tags"}
  BY DEF WaitsForRow, RowOrder, Begun
<1>2. \A x \in X : pc[x] \notin {"clear"}
  BY DEF WaitsFor, WaitsForRow, WaitsForTag, At
<1>3. \A x \in X : At(x, "tags") => \E t \in NextTag(x), y \in X : t \in W /\ tagLock[t] = y
  <2>. SUFFICES ASSUME NEW x \in X, At(x, "tags")
                PROVE  \E t \in NextTag(x), y \in X : t \in W /\ tagLock[t] = y
    OBVIOUS
  <2>1. PICK y \in X : WaitsFor(x, y)
    OBVIOUS
  <2>2. PICK t \in NextTag(x) : tagLock[t] = y
    BY <2>1 DEF WaitsFor, WaitsForRow, WaitsForTag, At
  <2>3. t \in Tags
    BY DEF NextTag
  <2>4. t \in W
    BY <2>2, <2>3
  <2>. QED
    BY <2>2, <2>4
<1>4. \A y \in X, t \in W : tagLock[t] = y => \E u \in W : t < u
  <2>. SUFFICES ASSUME NEW y \in X, NEW t \in W, tagLock[t] = y
                PROVE  \E u \in W : t < u
    OBVIOUS
  <2>1. pc[y] = "tags" /\ \A u \in left[y] : t < u
    BY DEF TagOrder
  <2>2. PICK u \in NextTag(y) : u \in W
    BY <2>1, <1>3 DEF At
  <2>. QED
    BY <2>1, <2>2 DEF NextTag
<1>5. W # {}
  <2>1. PICK x \in X : TRUE
    OBVIOUS
  <2>2. PICK y \in X : WaitsFor(x, y)
    BY <2>1
  <2>3. CASE WaitsForTag(x, y)
    BY <2>3, <1>3 DEF WaitsForTag
  <2>4. CASE WaitsForRow(x, y)
    BY <2>4, <1>1, <1>2, <1>3 DEF At
  <2>. QED
    BY <2>2, <2>3, <2>4 DEF WaitsFor
<1>6. PICK t \in W : \A u \in W : u <= t
  BY <1>5, LastTag
<1>7. PICK y \in X : tagLock[t] = y
  OBVIOUS
<1>8. PICK u \in W : t < u
  BY <1>4, <1>7
<1>9. u <= t /\ t \in Nat /\ u \in Nat
  BY <1>6, ConstantsAssumption
<1>. QED
  BY <1>8, <1>9

\* Whatever transactions there are, none waits, through any number of others, for
\* itself: rows are written before tags and tags in the order of NormalizeTags.
THEOREM NobodyWaitsInACircle == Spec => []NoCircularWait
BY BaseHolds, OrderedWaits, PTL

-----------------------------------------------------------------------------
(* The tags of a bookmark.                                                 *)

\* The bookmark of a create is stored by nobody else.
Creating == \A x \in Transactions :
  op[x] = "create" /\ pc[x] \in {"create", "tags"} =>
    /\ target[x] \notin stored /\ links[target[x]] = {} /\ cleared[x] = {}
    /\ \A y \in Transactions : target[y] = target[x] => y = x

\* An update has locked the row before it looks at its links, so those it has
\* deleted are all of them when it commits.
Updating == \A x \in Transactions :
  /\ pc[x] = "clear" => rowLock[target[x]] = x
  /\ op[x] = "update" /\ pc[x] = "tags" =>
       rowLock[target[x]] = x /\ cleared[x] = links[target[x]]

Written == \A b \in Bookmarks : lastWrite[b] \in Transactions => pc[lastWrite[b]] = "ended"

WriteInv == Base /\ Creating /\ Updating /\ Written /\ TagsAreOfLastWrite

LEMMA InitWrites == Init => WriteInv
BY InitBase, ConstantsAssumption DEF Init, WriteInv, Creating, Updating, Written, TagsAreOfLastWrite

LEMMA BeginWrites ==
  ASSUME WriteInv, Base', NEW x \in Transactions, BeginSome(x)
  PROVE  WriteInv'
<1>1. PICK o \in {"create", "update", "delete"}, b \in Bookmarks, T \in SUBSET Tags,
           s \in Spellings \cup {NoSpelling} :
        /\ Begin(x, o, b, T, s)
        /\ o = "create" => b \notin stored /\ \A y \in Transactions : target[y] # b
        /\ o # "create" => Known(b)
  BY DEF BeginSome, BeginCreate, BeginUpdate, BeginDelete
<1>. USE <1>1 DEF Begin, At, Goto, WriteInv, Base, TypeOK, tables, locks
<1>2. Creating'
  BY DEF Creating, Known, Begun, TagsAreOfLastWrite
<1>3. Updating'
  BY DEF Updating
<1>4. Written'
  BY DEF Written
<1>5. TagsAreOfLastWrite'
  BY DEF TagsAreOfLastWrite, Written
<1>. QED
  BY <1>2, <1>3, <1>4, <1>5

\* A transaction ends, and no row is the target of two that have come to their links.
LEMMA EndWrites ==
  ASSUME WriteInv, NEW x \in Transactions, pc[x] \notin {"idle", "ended"}, Ends(x),
         \A y \in Transactions \ {x} : pc[y] \in {"create", "clear", "tags"} =>
            links'[target[y]] = links[target[y]] /\ (target[y] \in stored' <=> target[y] \in stored)
  PROVE  Creating' /\ Updating'
<1>1. /\ pc'[x] = "ended" /\ cleared'[x] = {} /\ UNCHANGED <<op, target>>
      /\ \A y \in Transactions \ {x} : pc'[y] = pc[y] /\ cleared'[y] = cleared[y]
  BY DEF Ends, Goto, request, WriteInv, Base, TypeOK
<1>2. \A y \in Transactions \ {x} : pc[y] \in {"clear", "tags"} =>
        (rowLock[target[y]] = y => rowLock'[target[y]] = y)
  BY DEF Ends, WriteInv, Base, TypeOK, Begun
<1>3. Creating'
  BY <1>1 DEF WriteInv, Creating
<1>4. Updating'
  BY <1>1, <1>2 DEF WriteInv, Updating
<1>. QED
  BY <1>3, <1>4

LEMMA CommitWrites ==
  ASSUME WriteInv, Base', NEW x \in Transactions, Commit(x)
  PROVE  WriteInv'
<1>1. /\ pc[x] = "tags" /\ target[x] \in Bookmarks /\ Ends(x) /\ UNCHANGED <<tags, target>>
      /\ lastWrite' = [lastWrite EXCEPT ![target[x]] = x]
      /\ stored' = stored \cup {target[x]}
      /\ links' = [links EXCEPT ![target[x]] = (@ \ cleared[x]) \cup tags[x]]
  BY DEF Commit, At, Ends, request, WriteInv, Base, Begun
<1>2. \A y \in Transactions \ {x} : pc[y] \in {"create", "clear", "tags"} => target[y] # target[x]
  BY <1>1 DEF WriteInv, Base, TypeOK, Begun, Creating, Updating
<1>3. Creating' /\ Updating'
  <2>1. \A y \in Transactions \ {x} : pc[y] \in {"create", "clear", "tags"} =>
          links'[target[y]] = links[target[y]] /\ (target[y] \in stored' <=> target[y] \in stored)
    BY <1>1, <1>2 DEF WriteInv, Base, TypeOK, Begun
  <2>. QED
    BY <1>1, <2>1, EndWrites
<1>4. Written'
  BY <1>1, ConstantsAssumption DEF WriteInv, Base, TypeOK, Written, Ends, Goto
<1>5. links'[target[x]] = tags[x]
  <2>1. cleared[x] = links[target[x]] \/ links[target[x]] = {}
    BY <1>1 DEF WriteInv, Base, Begun, Creating, Updating
  <2>2. links'[target[x]] = (links[target[x]] \ cleared[x]) \cup tags[x]
    BY <1>1 DEF WriteInv, Base, TypeOK
  <2>. QED
    BY <2>1, <2>2
<1>6. TagsAreOfLastWrite'
  <2>. SUFFICES ASSUME NEW b \in Bookmarks
                PROVE  links'[b] = IF b \in stored' /\ lastWrite'[b] # NoTransaction
                                   THEN tags'[lastWrite'[b]] ELSE {}
    BY DEF TagsAreOfLastWrite
  <2>1. CASE b = target[x]
    BY <1>1, <1>5, <2>1, ConstantsAssumption DEF WriteInv, Base, TypeOK
  <2>2. CASE b # target[x]
    <3>1. links'[b] = links[b] /\ lastWrite'[b] = lastWrite[b] /\ (b \in stored' <=> b \in stored)
      BY <1>1, <2>2 DEF WriteInv, Base, TypeOK
    <3>. QED
      BY <1>1, <3>1 DEF WriteInv, TagsAreOfLastWrite
  <2>. QED
    BY <2>1, <2>2
<1>. QED
  BY <1>3, <1>4, <1>6 DEF WriteInv

LEMMA DeleteWrites ==
  ASSUME WriteInv, Base', NEW x \in Transactions, DeleteRow(x)
  PROVE  WriteInv'
<1>1. /\ pc[x] = "delete" /\ target[x] \in Bookmarks /\ Ends(x) /\ UNCHANGED <<tags, lastWrite>>
      /\ rowLock[target[x]] = NoTransaction
      /\ stored' = stored \ {target[x]} /\ links' = [links EXCEPT ![target[x]] = {}]
  BY DEF DeleteRow, At, Ends, request, WriteInv, Base, Begun
<1>2. \A y \in Transactions \ {x} : pc[y] \in {"create", "clear", "tags"} => target[y] # target[x]
  BY <1>1, ConstantsAssumption DEF WriteInv, Base, TypeOK, Begun, Creating, Updating
<1>3. Creating' /\ Updating'
  <2>1. \A y \in Transactions \ {x} : pc[y] \in {"create", "clear", "tags"} =>
          links'[target[y]] = links[target[y]] /\ (target[y] \in stored' <=> target[y] \in stored)
    BY <1>1, <1>2 DEF WriteInv, Base, TypeOK, Begun
  <2>. QED
    BY <1>1, <2>1, EndWrites
<1>4. Written'
  BY <1>1 DEF WriteInv, Base, TypeOK, Written, Ends, Goto
<1>5. TagsAreOfLastWrite'
  BY <1>1 DEF WriteInv, Base, TypeOK, TagsAreOfLastWrite
<1>. QED
  BY <1>3, <1>4, <1>5 DEF WriteInv

LEMMA RollbackWrites ==
  ASSUME WriteInv, Base', NEW x \in Transactions, pc[x] \notin {"idle", "ended"}, Rollback(x)
  PROVE  WriteInv'
<1>1. Ends(x) /\ UNCHANGED <<stored, links, lastWrite, tags>>
  BY DEF Rollback, Ends, tables, request
<1>2. Creating' /\ Updating'
  BY <1>1, EndWrites
<1>3. Written'
  BY <1>1 DEF WriteInv, Base, TypeOK, Written, Ends, Goto
<1>4. TagsAreOfLastWrite'
  BY <1>1 DEF WriteInv, TagsAreOfLastWrite
<1>. QED
  BY <1>2, <1>3, <1>4 DEF WriteInv

LEMMA StepWrites == WriteInv /\ [Next]_vars => WriteInv'
<1>. SUFFICES ASSUME WriteInv, [Next]_vars PROVE WriteInv'
  OBVIOUS
<1>1. Base'
  BY StepBase DEF WriteInv
<1>2. CASE UNCHANGED vars
  BY <1>1, <1>2 DEF vars, tables, locks, request, WriteInv, Creating, Updating, Written, TagsAreOfLastWrite
<1>3. ASSUME NEW x \in Transactions, BeginSome(x) PROVE WriteInv'
  BY <1>1, <1>3, BeginWrites
<1>4. ASSUME NEW x \in Transactions, Commit(x) \/ DeleteRow(x) PROVE WriteInv'
  BY <1>1, <1>4, CommitWrites, DeleteWrites
<1>5. ASSUME NEW x \in Transactions, pc[x] \notin {"idle", "ended"}, Rollback(x) PROVE WriteInv'
  BY <1>1, <1>5, RollbackWrites
<1>6. ASSUME NEW x \in Transactions, InsertRow(x) \/ (UpdateRow(x) /\ ~Rollback(x)) PROVE WriteInv'
  <2>1. /\ UNCHANGED <<tables, request, cleared, lastWrite>> /\ target[x] \in Bookmarks
        /\ rowLock' = [rowLock EXCEPT ![target[x]] = x]
        /\ \/ pc[x] = "create" /\ pc' = [pc EXCEPT ![x] = "tags"]
           \/ /\ pc[x] = "update" /\ pc' = [pc EXCEPT ![x] = "clear"]
              /\ rowLock[target[x]] = NoTransaction
    BY <1>6 DEF InsertRow, UpdateRow, At, Goto, WriteInv, Base, Begun
  <2>2. \A y \in Transactions \ {x} :
          pc[y] \in {"clear", "tags"} /\ rowLock[target[y]] = y => rowLock'[target[y]] = y
    BY <2>1, ConstantsAssumption DEF WriteInv, Base, TypeOK, Begun, Creating
  <2>3. Creating'
    BY <2>1 DEF WriteInv, Base, TypeOK, Begun, Creating, tables, request
  <2>4. Updating'
    BY <2>1, <2>2 DEF WriteInv, Base, TypeOK, Begun, Updating, tables, request
  <2>5. Written' /\ TagsAreOfLastWrite'
    BY <2>1 DEF WriteInv, Base, TypeOK, Written, TagsAreOfLastWrite, tables, request
  <2>. QED
    BY <1>1, <2>3, <2>4, <2>5 DEF WriteInv
<1>7. ASSUME NEW x \in Transactions, ClearLinks(x) PROVE WriteInv'
  <2>1. /\ UNCHANGED <<tables, request, rowLock, lastWrite>> /\ pc[x] = "clear" /\ op[x] = "update"
        /\ cleared' = [cleared EXCEPT ![x] = links[target[x]]] /\ pc' = [pc EXCEPT ![x] = "tags"]
    BY <1>7 DEF ClearLinks, At, Goto, locks, WriteInv, Base, Begun
  <2>2. Creating' /\ Updating'
    BY <2>1 DEF WriteInv, Base, TypeOK, Creating, Updating, tables, request
  <2>3. Written' /\ TagsAreOfLastWrite'
    BY <2>1 DEF WriteInv, Base, TypeOK, Written, TagsAreOfLastWrite, tables, request
  <2>. QED
    BY <1>1, <2>2, <2>3 DEF WriteInv
<1>8. ASSUME NEW x \in Transactions, NEW t \in Tags, UpsertTag(x, t) PROVE WriteInv'
  BY <1>1, <1>8 DEF UpsertTag, WriteInv, Creating, Updating, Written, TagsAreOfLastWrite, tables, request
<1>9. ASSUME NEW x \in Transactions, Step(x) PROVE WriteInv'
  <2>1. UpdateRow(x) /\ Rollback(x) => pc[x] = "update"
    BY DEF UpdateRow, At
  <2>. QED
    BY <1>4, <1>5, <1>6, <1>7, <1>8, <1>9, <2>1 DEF Step
<1>. QED
  BY <1>2, <1>3, <1>5, <1>9 DEF Next, Fail

\* The row of a bookmark is written before its links are read, so that updates,
\* deletions and failures in any number and order leave the tags of one request.
THEOREM TagsOfLastWrite == Spec => []TagsAreOfLastWrite
<1>1. WriteInv => TagsAreOfLastWrite
  BY DEF WriteInv
<1>. QED
  BY InitWrites, StepWrites, <1>1, PTL DEF Spec
=============================================================================
