SPECIFICATION FairReviewSpec
CONSTANTS
  ReviewedDiscs <- MCClimbable
  StoredRows <- MCRows
  Cached <- MCAnyCache
  MaxDrops = 1
PROPERTIES AnswerNeverRegresses Climbs
CHECK_DEADLOCK FALSE
