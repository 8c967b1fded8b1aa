SPECIFICATION FairSpec
CONSTANTS
  Transactions = {x1, x2, x3}
  Bookmarks = {b1, b2}
  Tags = {1, 2}
  Spellings = {s1}
  NoTransaction = NoTransaction
  NoBookmark = NoBookmark
  NoSpelling = NoSpelling
  x1 = x1
  x2 = x2
  x3 = x3
  b1 = b1
  b2 = b2
  s1 = s1
INVARIANT NoCircularWait
INVARIANT TagsAreOfLastWrite
PROPERTY TransactionsEnd
CONSTRAINT BegunInOrder
CHECK_DEADLOCK FALSE
