\* As many places as the code has: a ring that fills, wraps around, and holds a place that is
\* reserved and not filled in front of items that are.
CONSTANTS
  DISPATCH_QUEUE_SIZE = 8
  Item = {key, message}
  GEF_NONE = GEF_NONE
SPECIFICATION FairSpec
INVARIANTS
  TokenIsGood
  DataBelongsToItem
PROPERTIES
  ImplementsMailbox
  EveryItemIsHandled
