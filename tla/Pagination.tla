------------------------------ MODULE Pagination ------------------------------
(***************************************************************************)
(* The arithmetic of bookmarker/model/pagination.go: how many pages a      *)
(* collection has, which page a requested number means, and which page     *)
(* links a page shows.  A link is a record; an ellipsis has page 0, the    *)
(* zero value that the Go literal leaves.                                  *)
(***************************************************************************)
EXTENDS Integers, Sequences

PageLinkSpread == 2

\* Mutant: the last page is not rounded up.
LastPageRoundedDown(totalItems, pageSize) ==
  IF totalItems < pageSize THEN 1 ELSE totalItems \div pageSize

LastPage(totalItems, pageSize) ==
  IF totalItems <= 0 \/ pageSize <= 0 THEN 1
  ELSE (totalItems + pageSize - 1) \div pageSize

ClampPage(requested, totalItems, pageSize) ==
  LET last == LastPage(totalItems, pageSize)
  IN  IF requested < 1 THEN 1 ELSE IF requested > last THEN last ELSE requested

Link(page, current) == [page |-> page, current |-> current, ellipsis |-> FALSE]
Ellipsis == [page |-> 0, current |-> FALSE, ellipsis |-> TRUE]

\* The numbered pages around the current one.
Low(page) == IF page - PageLinkSpread < 1 THEN 1 ELSE page - PageLinkSpread
High(page, last) ==
  IF page + PageLinkSpread > last THEN last ELSE page + PageLinkSpread

\* The first page and what is omitted after it; the last and what before it.
Leading(low) ==
  IF low = 1 THEN <<>>
  ELSE IF low = 2 THEN <<Link(1, FALSE)>> ELSE <<Link(1, FALSE), Ellipsis>>

\* Mutant: the ellipsis hides the page next to the last one only when more
\* than that page is hidden.
TrailingTight(high, last) ==
  IF high = last THEN <<>>
  ELSE IF high >= last - 2 THEN <<Link(last, FALSE)>> ELSE <<Ellipsis, Link(last, FALSE)>>

Trailing(high, last) ==
  IF high = last THEN <<>>
  ELSE IF high = last - 1 THEN <<Link(last, FALSE)>> ELSE <<Ellipsis, Link(last, FALSE)>>

Numbered(low, high, page) ==
  [i \in 1..(high - low + 1) |-> Link(low + i - 1, low + i - 1 = page)]

\* NewPagination: the page, the last page and the links; no links at all when
\* there is one page only.
NewPagination(requested, totalItems, pageSize) ==
  LET last == LastPage(totalItems, pageSize)
      page == ClampPage(requested, totalItems, pageSize)
      low  == Low(page)
      high == High(page, last)
  IN  [page |-> page, last |-> last,
       links |-> IF last <= 1 THEN <<>>
                 ELSE Leading(low) \o Numbered(low, high, page) \o Trailing(high, last)]
=============================================================================
