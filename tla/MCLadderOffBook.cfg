SPECIFICATION FairReviewSpec
CONSTANTS
  ReviewedDiscs <- MCOffBook
  StoredRows <- MCNoRow
  Cached <- MCEmptyCache
  MaxDrops = 0
PROPERTY Climbs
CHECK_DEADLOCK FALSE
