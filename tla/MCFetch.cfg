\* Two concurrent calls with one retry each.
CONSTANTS
  Calls = {1, 2}
  Requests <- MCRequests
  DenyHosts <- MCDenyHosts
  Locations <- MCLocations
  Statuses = {200, 302, 503}
  RetryableStatuses = {503}
  Retries = 1
  MaxRedirectHops = 2
  MaxBytes = 1
  ChunkSizes = {1, 2}
SPECIFICATION FairSpec
CHECK_DEADLOCK FALSE
INVARIANTS
  TypeOK
  EgressPolicy
  OutcomeMatchesAudit
PROPERTIES
  NoRequestAfterAbort
  CallSettles
