\* One submit whose signer outlives the lock it signs for.
CONSTANTS
  NCalls = 1
  Artifacts = {1, 2}
  Batches = {2}
  Items = 2
  Prices = {1, 3}
  Cap = 2
  NQuotes = 2
  SlowSigner = TRUE
SPECIFICATION Spec
CHECK_DEADLOCK FALSE
INVARIANTS
  PublishAgainstLiveQuote
