\* A submit that uploads, and a retry that its offline checks reject.
CONSTANTS
  NCalls = 2
  Artifacts = {1, 2}
  Batches = {2}
  Items = 2
  Prices = {1, 3}
  Cap = 2
  NQuotes = 3
  SlowSigner = FALSE
SPECIFICATION Spec
CHECK_DEADLOCK FALSE
INVARIANTS
  ReceiptsAlwaysCarried
