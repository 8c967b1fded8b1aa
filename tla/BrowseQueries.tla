---------------------------- MODULE BrowseQueries ----------------------------
(***************************************************************************)
(* Browsing and searching (bookmarker/usecase/browse.go and search.go,     *)
(* adapters/postgres/bookmark_query.go, and the handlers of both adapters).*)
(* One answer takes three queries, each with a snapshot of its own: how    *)
(* many bookmarks match, which of them are on the page, and which tags     *)
(* those have.  Bookmarks are created, updated and deleted between them.   *)
(*                                                                         *)
(* One tag and one list of search words stand for the criteria.  The       *)
(* screenshots of a bookmark are not read by these queries.                *)
(***************************************************************************)
EXTENDS Pagination, FiniteSets, Functions

CONSTANTS
  Bookmarks,       \* the ids, in the order the database compares them
  CreatedAt,       \* the created_at of each: the clock is read before the
                   \* insert, so bookmarks appear in any order of it
  ListPageSize, SearchPageSize, MaximumResults,
  MaxPage,         \* bound: the largest page number asked for
  MaxTotal, PageSizes   \* bounds: the collections whose page links are checked

ASSUME BrowseAssumption ==
  /\ Bookmarks \subseteq Nat /\ CreatedAt \in [Bookmarks -> Nat]
  /\ {ListPageSize, SearchPageSize, MaximumResults} \subseteq Nat \ {0}
  /\ {MaxPage, MaxTotal} \subseteq Nat /\ PageSizes \subseteq Nat \ {0}

VARIABLES
  stored,     \* table bookmarks
  inserted,   \* all that ever were in it: no id is used twice
  tagged,     \* the stored bookmarks that have the tag
  worded,     \* those whose description contains the words
  query,      \* the next query of the request
  request,    \* what it asks for
  asked,      \* the criteria that the visitor entered last
  matches,    \* the result of the count
  ids,        \* the result of the page query
  labelled,   \* the bookmarks of the page whose tags include the tag
  moved,      \* the steps of the request before which a write committed
  walked,     \* the plain list has been read from page 1 to this one
  owed,       \* bookmarks stored since that walk began, not yet seen
  shrunk      \* a bookmark has been deleted during the walk

table == <<stored, inserted, tagged, worded>>
walk == <<walked, owed, shrunk>>
browseVars == <<table, query, request, asked, matches, ids, labelled, moved, walk>>

Criteria == [tag : BOOLEAN, words : BOOLEAN]
NoCriteria == [tag |-> FALSE, words |-> FALSE]
Request == [via : {"web", "stream"}, view : {"list", "search"},
            for : Criteria, page : Nat]

FirstPage == [via |-> "web", view |-> "list", for |-> NoCriteria, page |-> 1]

PageSize == IF request.view = "list" THEN ListPageSize ELSE SearchPageSize

\* The rows of tagFilterCondition and searchFilterCondition.
Matching(c) == {b \in stored : (c.tag => b \in tagged) /\ (c.words => b \in worded)}

\* ORDER BY created_at DESC, id DESC, and LIMIT and OFFSET.
Newer(b, c) == CreatedAt[b] > CreatedAt[c] \/ (CreatedAt[b] = CreatedAt[c] /\ b > c)
NewestFirst(S) ==
  CHOOSE rows \in [1..Cardinality(S) -> S] :
    \A i, j \in 1..Cardinality(S) : i < j => Newer(rows[i], rows[j])
Smaller(m, n) == IF m < n THEN m ELSE n
Limit(rows, n) == SubSeq(rows, 1, Smaller(n, Len(rows)))
Offset(rows, n) == SubSeq(rows, n + 1, Len(rows))

\* The count within the cap, which only a search has.
Within(n) == IF request.view = "search" THEN Smaller(n, MaximumResults) ELSE n

-----------------------------------------------------------------------------
BrowseInit ==
  /\ stored \in SUBSET Bookmarks /\ IsFiniteSet(stored) /\ inserted = stored
  /\ tagged = stored /\ worded = stored
  /\ query = "idle" /\ request = FirstPage /\ asked = NoCriteria
  /\ matches = 0 /\ ids = <<>> /\ labelled = {} /\ moved = {}
  /\ walked = 0 /\ owed = {} /\ shrunk = FALSE

\* No answer is on the screen, and no query has been made.
Blank == matches' = 0 /\ ids' = <<>> /\ labelled' = {} /\ moved' = {}

\* The handlers and the use cases up to the first query.  Without a criterion
\* the web shows the empty form or an error, and the stream answers an error:
\* there is nothing to query.
Ask(u) ==
  /\ IF u.view = "search" /\ u.for = NoCriteria
     THEN query' = "idle" /\ request' = FirstPage
     ELSE query' = "count" /\ request' = u
  /\ Blank
  /\ UNCHANGED <<table, walk>>

\* An address, a form or a line of the stream: the list has no words.  Page 0
\* stands for a page that is not given or is no number; only the web makes it
\* page 1.
Visit(via, view, c, n) ==
  /\ query = "idle"
  /\ view = "list" => ~c.words
  /\ Ask([via |-> via, view |-> view, for |-> c,
          page |-> IF via = "web" /\ n = 0 THEN 1 ELSE n])
  /\ asked' = c

\* The visitor turns to something else.
Leave == /\ query = "shown" /\ query' = "idle"
         /\ request' = FirstPage /\ asked' = NoCriteria
         /\ Blank /\ UNCHANGED <<table, walk>>

Answer == NewPagination(request.page, Within(matches), PageSize)

\* A link of the page on the screen is "?page=n": it keeps the path and
\* replaces the whole query.
Follow(i) ==
  /\ query = "shown" /\ request.via = "web"
  /\ i \in 1..Len(Answer.links) /\ ~Answer.links[i].ellipsis
  /\ Ask([request EXCEPT !.for = NoCriteria, !.page = Answer.links[i].page])
  /\ UNCHANGED asked

-----------------------------------------------------------------------------
Count ==
  /\ query = "count"
  /\ matches' = Cardinality(Matching(request.for))
  /\ query' = "page"
  /\ moved' = {}
  /\ UNCHANGED <<table, request, asked, ids, labelled, walk>>

\* Mutant: the offset is that of the page that was asked for.
OffsetOfRequested(rows) ==
  Limit(Offset(rows, IF request.page < 1 THEN 0 ELSE (request.page - 1) * PageSize), PageSize)

OnPage(rows) ==
  Limit(Offset(rows, (ClampPage(request.page, Within(matches), PageSize) - 1) * PageSize), PageSize)

Page(rows) == OnPage(IF request.view = "search" THEN Limit(rows, MaximumResults) ELSE rows)

\* What the page adds to a walk through the plain list.
Walk(page, seen) ==
  IF request.view # "list" \/ request.for # NoCriteria \/ page > walked + 1
  THEN /\ walked' = 0 /\ owed' = {} /\ shrunk' = FALSE
  ELSE IF page = 1
  THEN /\ walked' = 1 /\ owed' = stored \ seen /\ shrunk' = FALSE
  ELSE /\ walked' = (IF page > walked THEN page ELSE walked)
       /\ owed' = owed \ seen /\ UNCHANGED shrunk

QueryPage ==
  /\ query = "page"
  /\ ids' = Page(NewestFirst(Matching(request.for)))
  /\ query' = "tags"
  /\ Walk(Answer.page, Range(ids'))
  /\ UNCHANGED <<table, request, asked, matches, labelled, moved>>

HydrateTags ==
  /\ query = "tags"
  /\ labelled' = Range(ids) \cap tagged
  /\ query' = "shown"
  /\ UNCHANGED <<table, request, asked, matches, ids, moved, walk>>

\* Any of the three queries fails: an error page, or an error on the stream.
Fail ==
  /\ query \in {"count", "page", "tags"} /\ query' = "idle"
  /\ request' = FirstPage /\ asked' = NoCriteria
  /\ Blank /\ UNCHANGED <<table, walk>>

-----------------------------------------------------------------------------
(* The writes that commit meanwhile.                                       *)

Wrote == /\ moved' = IF query = "idle" THEN {} ELSE moved \cup {query}
         /\ UNCHANGED <<query, request, asked, matches, ids, labelled, walked>>

Labels(b, hasTag, hasWords) ==
  /\ tagged' = IF hasTag THEN tagged \cup {b} ELSE tagged \ {b}
  /\ worded' = IF hasWords THEN worded \cup {b} ELSE worded \ {b}

Insert(b) ==
  /\ b \notin inserted
  /\ stored' = stored \cup {b} /\ inserted' = inserted \cup {b}
  /\ \E t, w \in BOOLEAN : Labels(b, t, w)
  /\ Wrote /\ UNCHANGED <<owed, shrunk>>

Change(b) ==
  /\ b \in stored
  /\ \E t, w \in BOOLEAN : Labels(b, t, w)
  /\ Wrote /\ UNCHANGED <<stored, inserted, owed, shrunk>>

Delete(b) ==
  /\ b \in stored
  /\ stored' = stored \ {b} /\ Labels(b, FALSE, FALSE)
  /\ owed' = owed \ {b} /\ shrunk' = TRUE
  /\ Wrote /\ UNCHANGED inserted

BrowseNext ==
  \/ \E via \in {"web", "stream"}, view \in {"list", "search"},
        c \in Criteria, n \in 0..MaxPage : Visit(via, view, c, n)
  \/ \E i \in 1..Len(Answer.links) : Follow(i)
  \/ Leave \/ Count \/ QueryPage \/ HydrateTags \/ Fail
  \/ \E b \in Bookmarks : Insert(b) \/ Change(b) \/ Delete(b)

BrowseSpec == BrowseInit /\ [][BrowseNext]_browseVars

-----------------------------------------------------------------------------
BrowseTypeOK ==
  /\ stored \subseteq inserted /\ inserted \subseteq Bookmarks
  /\ tagged \subseteq stored /\ worded \subseteq stored
  /\ query \in {"idle", "count", "page", "tags", "shown"}
  /\ request \in Request /\ asked \in Criteria
  /\ matches \in Nat /\ Range(ids) \subseteq Bookmarks /\ labelled \subseteq Range(ids)
  /\ moved \subseteq {"count", "page", "tags", "shown"}
  /\ walked \in Nat /\ owed \subseteq stored /\ shrunk \in BOOLEAN

Rank(b, S) == Cardinality({c \in S : Newer(c, b)})

\* What the page of an answer should hold, told without sorting: the matching
\* bookmarks that have as many newer ones among them as the pages before hold,
\* and, in a search, fewer than the cap.
PageHolds(b) ==
  /\ b \in Matching(request.for)
  /\ Rank(b, Matching(request.for)) \div PageSize = Answer.page - 1
  /\ request.view = "search" => Rank(b, Matching(request.for)) < MaximumResults

\* An answer during which nothing was written lists exactly the bookmarks of
\* the page that it says it is, newest first, is empty only if nothing
\* matches, and shows the tag of each bookmark that has it.
QuietAnswerIsExact ==
  query = "shown" /\ moved = {} =>
    /\ Range(ids) = {b \in Bookmarks : PageHolds(b)}
    /\ \A i, j \in 1..Len(ids) : i < j => Newer(ids[i], ids[j])
    /\ ids = <<>> => Matching(request.for) = {}
    /\ labelled = Range(ids) \cap tagged

\* A bookmark found by its tag is shown with the tag, unless it was written
\* between the page query and the query for the tags.
FoundTagIsShown ==
  query = "shown" /\ request.for.tag /\ "tags" \notin moved => Range(ids) \subseteq labelled

\* What an answer says is true of the collection it was made from.
AnswersAreTrue == BrowseTypeOK /\ QuietAnswerIsExact /\ FoundTagIsShown

\* A visitor who reads the plain list from the first page to the last misses
\* no bookmark that was there all the time, however many are created
\* meanwhile, unless one is deleted, or a write falls between the count and
\* the page query of the last answer.
WalkMissesNothing ==
  query = "shown" /\ walked > 0 /\ Answer.page = Answer.last /\ walked = Answer.page
  /\ ~shrunk /\ "page" \notin moved
    => owed = {}

\* The pages hold the collection, and none but the single page of an empty one
\* is empty.
PagesHoldAll(p, total, size) ==
  /\ p.last * size >= total
  /\ p.last = 1 \/ (p.last - 1) * size < total

LinkedPages(p) == {p.links[i].page : i \in {j \in 1..Len(p.links) : ~p.links[j].ellipsis}}

\* The first, the last, the selected page and both its neighbours are one
\* selection away.
EndsAndNeighboursLinked(p) ==
  p.last > 1 =>
    {1, p.last, p.page, p.page - 1, p.page + 1} \cap 1..p.last \subseteq LinkedPages(p)

\* Two links side by side are consecutive pages, and an ellipsis stands between
\* two links and for at least one page: nothing is left out without a sign, and
\* no sign stands for nothing.
GapsAreMarked(links) ==
  \A i \in 1..Len(links) :
    IF links[i].ellipsis
    THEN /\ i \in 2..(Len(links) - 1)
         /\ ~links[i - 1].ellipsis /\ ~links[i + 1].ellipsis
         /\ links[i + 1].page > links[i - 1].page + 1
    ELSE i > 1 /\ ~links[i - 1].ellipsis => links[i].page = links[i - 1].page + 1

LinksCoverPages(n, total, size) ==
  LET p == NewPagination(n, total, size)
  IN  /\ p.page \in 1..p.last
      /\ PagesHoldAll(p, total, size) /\ EndsAndNeighboursLinked(p) /\ GapsAreMarked(p.links)
      /\ \A page \in LinkedPages(p), later \in total..MaxTotal :
            ClampPage(page, later, size) = page

EveryAnswerCoversPages ==
  \A total \in 0..MaxTotal, size \in PageSizes, n \in -1..(MaxTotal + 1) :
    LinksCoverPages(n, total, size)

\* The page of an answer exists, and its links account for every page
\* (spec.md SC-006); a link leads to the page it names as long as the collection
\* has not become smaller.  So it is for the answers of this instance, and would
\* be for any page of a collection of up to MaxTotal bookmarks.
PageLinksCoverPages ==
  query = "shown" => /\ LinksCoverPages(request.page, Within(matches), PageSize)
                  /\ EveryAnswerCoversPages

\* What the contract of the stream says: an answer without items is that of an
\* empty collection, on page 1 of 1 (contracts/cli-jsonl.md, Pagination).
EmptyAnswerIsPageOne == query = "shown" /\ ids = <<>> => Answer.last = 1

\* What the specification says of the list of a tag and its pages: following
\* its links, the visitor sees bookmarks that match what he asked for
\* (spec.md, User Story 1, Scenario 3).
PagesKeepCriteria ==
  query = "shown" /\ moved = {} => Range(ids) \subseteq Matching(asked)
=============================================================================
