SPECIFICATION RfcSpec
CONSTANTS
  Digest <- MCDigest
  DigestSize = 3
  Nonce = {1, 127, 128, 255, 256, 32768, 2147483647}
  Shape <- MCLeapShape
  Damage <- MCDamage
  MaxRequests = 2
INVARIANTS
  FailureIsTsaError
CHECK_DEADLOCK FALSE
