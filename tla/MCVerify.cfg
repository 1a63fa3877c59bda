\* Calls of verifyTx and verifyResolved against explorers and gateways that
\* answer at will, and the validator fixtures of the repository.
CONSTANTS
  stripUndefined <- Stripped
  EncodedSize <- SizeOf
  UINT32_MAX = 10000000
  TRANSPORT_CHUNK_MAX_BYTES = 64
  MAX_BLOCK_TIME_EXCLUSIVE = 100000
  MAX_SLOTS = 2
  MAX_DECODED_ENVELOPE_BYTES = 1500
  KDF_MEMORY_MAX = 100000
  Heights = {4, 5}
  Confirmations = {0, 1, 2}
  Inputs <- MCInputs
  Data <- MCData
SPECIFICATION Spec
INVARIANTS
  JudgedIsGenuine
  ResolutionPrecedence
  NetworkNeverCondemns
  ValidIsEarned
  LeavesProvable
  DecryptOnlyValidated
  FixturesPinned
PROPERTY
  EveryStepAdvances
