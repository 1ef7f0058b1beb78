SPECIFICATION ChannelsSpec
SYMMETRY CallSymmetry
CONSTANTS
  Stores = {t1, t2}
  StoreCalls = {c1, c2, c3}
  MaxInits = 3
  CartCalls = {c1, c2}
  Prices <- SomePrices
  MaxEdits = 2
  Flows = {c1, c2}
  Publishers = {p1}
  MaxConsents = 2
  MaxAttempts = 1
  ReviewIds = {1}
  ReviewCalls = {c1, c2}
  MaxReviewTasks = 2
INVARIANTS ChannelsTypeOK SourcesAreShared LinesArePriced PublishIsWhole ConnectedHasLatestToken RepliesStand
CHECK_DEADLOCK FALSE
