CONSTANTS
  stripUndefined <- Stripped
  EncodedSize <- SizeOf
  UINT32_MAX = 10000000
  MAX_SAFE_INTEGER = 100000000
  TRANSPORT_CHUNK_MAX_BYTES = 64
  MAX_SLOTS = 2
  MAX_DECODED_ENVELOPE_BYTES = 10000
  KDF_MEMORY_MAX = 100000
  CHUNK_SIZE = 2
  TAG_SIZE = 2
  COMMITMENT_LENGTH = 1
  PieceSizes = {1, 3, 9}
  StreamCalls <- MCStreamCalls
  HeaderAttacks <- MCHeaderAttacks
  Preparations <- MCPreparations
  Locations <- MCLocations
  Replaced <- MCReplaced
  Edits <- MCEdits
  Signers <- MCSigners
SPECIFICATION Spec
INVARIANTS
  OnlyWhatWasSealed
  SameAsBuffered
  PreparedSealStands
