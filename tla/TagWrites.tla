------------------------------ MODULE TagWrites ------------------------------
(***************************************************************************)
(* The transactions that write a bookmark and its tags: CreateBookmark     *)
(* (adapters/postgres/bookmark_create.go), UpdateBookmark and              *)
(* DeleteBookmark (bookmark_maintain.go) in WithTransaction (database.go). *)
(* PostgreSQL runs them READ COMMITTED: a statement sees what is committed *)
(* when it starts, a row that is written is locked until its transaction   *)
(* ends, and an insert of a tag waits for another transaction that has     *)
(* inserted or locked the tag of that name.  A create locks only its own   *)
(* row, which nobody else knows yet, before it comes to its tags.          *)
(*                                                                         *)
(* The link of a tag to a bookmark is inserted after both rows are locked, *)
(* waits for nobody, and is part of the upsert.  The screenshots of a      *)
(* bookmark are the subject of BookmarkFiles.                              *)
(***************************************************************************)
EXTENDS Naturals, FiniteSets

CONSTANTS
  Transactions,
  Bookmarks,
  Tags,          \* the normalized names, in the order of sort.Strings
  Spellings,     \* the display forms of a name
  NoTransaction, NoBookmark, NoSpelling

ASSUME ConstantsAssumption ==
  /\ Tags \subseteq Nat /\ IsFiniteSet(Tags)
  /\ NoTransaction \notin Transactions
  /\ NoBookmark \notin Bookmarks
  /\ NoSpelling \notin Spellings

VARIABLES
  stored,      \* table bookmarks, as committed
  links,       \* table bookmark_tags
  display,     \* table tags: the display_name of each stored tag
  rowLock,     \* the transaction that has locked the row of a bookmark
  tagLock,     \* ... or the row of a tag, or has inserted it
  pc,          \* the next statement of a transaction
  op, target,  \* what it does, and to which bookmark
  tags,        \* the tags it was asked to set
  spelling,    \* how it spells them
  left,        \* those it has not come to yet
  cleared,     \* the links it has deleted
  added,       \* the tags it has inserted
  lastWrite    \* the transaction that was the last to write a bookmark

tables == <<stored, links, display>>
locks == <<rowLock, tagLock>>
request == <<op, target, tags, spelling>>
vars == <<tables, locks, pc, request, left, cleared, added, lastWrite>>

At(x, label) == pc[x] = label
Goto(x, label) == pc' = [pc EXCEPT ![x] = label]

Init ==
  /\ stored \in SUBSET Bookmarks
  /\ links = [b \in Bookmarks |-> {}]
  /\ display = [t \in Tags |-> NoSpelling]
  /\ rowLock = [b \in Bookmarks |-> NoTransaction]
  /\ tagLock = [t \in Tags |-> NoTransaction]
  /\ pc = [x \in Transactions |-> "idle"]
  /\ op = [x \in Transactions |-> "none"]
  /\ target = [x \in Transactions |-> NoBookmark]
  /\ tags = [x \in Transactions |-> {}]
  /\ spelling = [x \in Transactions |-> NoSpelling]
  /\ left = [x \in Transactions |-> {}]
  /\ cleared = [x \in Transactions |-> {}]
  /\ added = [x \in Transactions |-> {}]
  /\ lastWrite = [b \in Bookmarks |-> NoTransaction]

-----------------------------------------------------------------------------
\* NormalizeTags drops blank and double names.
Begin(x, o, b, T, s) ==
  /\ At(x, "idle")
  /\ op' = [op EXCEPT ![x] = o]
  /\ target' = [target EXCEPT ![x] = b]
  /\ tags' = [tags EXCEPT ![x] = T]
  /\ spelling' = [spelling EXCEPT ![x] = s]
  /\ left' = [left EXCEPT ![x] = T]
  /\ Goto(x, o)
  /\ UNCHANGED <<tables, locks, cleared, added, lastWrite>>

\* A new id: no row has it, and no other transaction works on it.
BeginCreate(x, b, T, s) ==
  /\ b \notin stored /\ \A y \in Transactions : target[y] # b
  /\ Begin(x, "create", b, T, s)

\* The client has the id from a list: the bookmark is or was stored.
Known(b) == \A y \in Transactions : op[y] = "create" /\ target[y] = b => At(y, "ended")
BeginUpdate(x, b, T, s) == Known(b) /\ Begin(x, "update", b, T, s)
BeginDelete(x, b) == Known(b) /\ Begin(x, "delete", b, {}, NoSpelling)

\* INSERT INTO bookmarks.
InsertRow(x) ==
  /\ At(x, "create")
  /\ rowLock' = [rowLock EXCEPT ![target[x]] = x]
  /\ Goto(x, "tags")
  /\ UNCHANGED <<tables, tagLock, request, left, cleared, added, lastWrite>>

Ends(x) == /\ Goto(x, "ended")
           /\ rowLock' = [b \in Bookmarks |-> IF rowLock[b] = x THEN NoTransaction ELSE rowLock[b]]
           /\ tagLock' = [t \in Tags |-> IF tagLock[t] = x THEN NoTransaction ELSE tagLock[t]]
           /\ left' = [left EXCEPT ![x] = {}]
           /\ cleared' = [cleared EXCEPT ![x] = {}]
           /\ added' = [added EXCEPT ![x] = {}]
           /\ UNCHANGED request

Rollback(x) == Ends(x) /\ UNCHANGED <<tables, lastWrite>>

\* Mutant: the row is looked for, but not written before its links.
FindRow(x) ==
  /\ At(x, "update")
  /\ \/ /\ target[x] \in stored
        /\ Goto(x, "clear")
        /\ UNCHANGED <<tables, locks, request, left, cleared, added, lastWrite>>
     \/ target[x] \notin stored /\ Rollback(x)

\* UPDATE bookmarks waits for the lock, and then finds the row or not.
UpdateRow(x) ==
  /\ At(x, "update") /\ rowLock[target[x]] = NoTransaction
  /\ \/ /\ target[x] \in stored
        /\ rowLock' = [rowLock EXCEPT ![target[x]] = x]
        /\ Goto(x, "clear")
        /\ UNCHANGED <<tables, tagLock, request, left, cleared, added, lastWrite>>
     \/ target[x] \notin stored /\ Rollback(x)

\* DELETE FROM bookmark_tags.
ClearLinks(x) ==
  /\ At(x, "clear")
  /\ cleared' = [cleared EXCEPT ![x] = links[target[x]]]
  /\ Goto(x, "tags")
  /\ UNCHANGED <<tables, locks, request, left, added, lastWrite>>

\* Mutant: the tags come in the order of the form.
AnyTag(x) == left[x]

\* The tags are written in the order of their names.
NextTag(x) == {t \in left[x] : \A u \in left[x] : t <= u}

\* INSERT INTO tags ... ON CONFLICT DO UPDATE, which locks the row that is
\* there or inserts a new one, and the insert of the link.
UpsertTag(x, t) ==
  /\ At(x, "tags") /\ t \in NextTag(x)
  /\ tagLock[t] = NoTransaction
  /\ tagLock' = [tagLock EXCEPT ![t] = x]
  /\ added' = [added EXCEPT ![x] = IF display[t] = NoSpelling THEN @ \cup {t} ELSE @]
  /\ left' = [left EXCEPT ![x] = @ \ {t}]
  /\ UNCHANGED <<tables, rowLock, pc, request, cleared, lastWrite>>

Commit(x) ==
  /\ At(x, "tags") /\ left[x] = {}
  /\ stored' = stored \cup {target[x]}
  /\ links' = [links EXCEPT ![target[x]] = (@ \ cleared[x]) \cup tags[x]]
  /\ display' = [t \in Tags |-> IF t \in added[x] THEN spelling[x] ELSE display[t]]
  /\ lastWrite' = [lastWrite EXCEPT ![target[x]] = x]
  /\ Ends(x)

\* DELETE FROM bookmarks waits for the row, and takes the links with it.
DeleteRow(x) ==
  /\ At(x, "delete") /\ rowLock[target[x]] = NoTransaction
  /\ stored' = stored \ {target[x]}
  /\ links' = [links EXCEPT ![target[x]] = {}]
  /\ Ends(x)
  /\ UNCHANGED <<display, lastWrite>>

\* A statement or the commit fails, the client leaves, or the process dies.
Fail(x) == pc[x] \notin {"idle", "ended"} /\ Rollback(x)

BeginSome(x) ==
  \/ \E b \in Bookmarks, T \in SUBSET Tags, s \in Spellings :
       BeginCreate(x, b, T, s) \/ BeginUpdate(x, b, T, s)
  \/ \E b \in Bookmarks : BeginDelete(x, b)

Step(x) ==
  \/ InsertRow(x) \/ UpdateRow(x) \/ ClearLinks(x) \/ Commit(x) \/ DeleteRow(x)
  \/ \E t \in Tags : UpsertTag(x, t)

Next == \E x \in Transactions : BeginSome(x) \/ Step(x) \/ Fail(x)

Spec == Init /\ [][Next]_vars

\* A statement that waits for nobody is carried out.
FairSpec == Spec /\ \A x \in Transactions : WF_vars(Step(x))

-----------------------------------------------------------------------------
TypeOK ==
  /\ stored \subseteq Bookmarks
  /\ links \in [Bookmarks -> SUBSET Tags]
  /\ display \in [Tags -> Spellings \cup {NoSpelling}]
  /\ rowLock \in [Bookmarks -> Transactions \cup {NoTransaction}]
  /\ tagLock \in [Tags -> Transactions \cup {NoTransaction}]
  /\ pc \in [Transactions -> {"idle", "create", "update", "delete", "clear", "tags", "ended"}]
  /\ op \in [Transactions -> {"none", "create", "update", "delete"}]
  /\ target \in [Transactions -> Bookmarks \cup {NoBookmark}]
  /\ tags \in [Transactions -> SUBSET Tags]
  /\ spelling \in [Transactions -> Spellings \cup {NoSpelling}]
  /\ left \in [Transactions -> SUBSET Tags]
  /\ cleared \in [Transactions -> SUBSET Tags]
  /\ added \in [Transactions -> SUBSET Tags]
  /\ lastWrite \in [Bookmarks -> Transactions \cup {NoTransaction}]
  /\ \A t \in Tags, x \in Transactions :
       t \in added[x] => tagLock[t] = x /\ display[t] = NoSpelling

WaitsForRow(x, y) ==
  pc[x] \in {"update", "delete"} /\ rowLock[target[x]] = y
WaitsForTag(x, y) ==
  At(x, "tags") /\ \E t \in NextTag(x) : tagLock[t] = y
WaitsFor(x, y) == x # y /\ (WaitsForRow(x, y) \/ WaitsForTag(x, y))

\* In no set of transactions does everyone wait for someone in it: the
\* database never has to break a deadlock, because rows come before tags and
\* tags are sorted (NormalizeTags).
NoCircularWait ==
  \A X \in SUBSET Transactions :
    X # {} => \E x \in X : \A y \in X : ~WaitsFor(x, y)

\* The tags of a stored bookmark are those of the one request that wrote it
\* last, never a mixture of two, and nothing is linked to a bookmark that is
\* gone.
TagsAreOfLastWrite ==
  \A b \in Bookmarks :
    links[b] = IF b \in stored /\ lastWrite[b] # NoTransaction
               THEN tags[lastWrite[b]] ELSE {}

\* The display form of a tag is the first spelling that was committed: no
\* later write changes it (data-model.md, Tag).
FirstSpellingStays ==
  [][\A t \in Tags : display[t] # NoSpelling => display'[t] = display[t]]_vars

\* Every transaction that begins ends, whatever the others wait for.
TransactionsEnd ==
  \A x \in Transactions : pc[x] # "idle" ~> pc[x] = "ended"
=============================================================================
