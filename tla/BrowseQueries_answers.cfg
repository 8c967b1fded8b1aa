SPECIFICATION BrowseSpec
CONSTANTS
  Bookmarks = {1, 2, 3}
  CreatedAt <- CreatedTogether
  ListPageSize = 2
  SearchPageSize = 1
  MaximumResults = 2
  MaxPage = 3
  MaxTotal = 19
  PageSizes = {1, 2, 10}
INVARIANT AnswersAreTrue
INVARIANT PageLinksCoverPages
INVARIANT WalkMissesNothing
CHECK_DEADLOCK FALSE
