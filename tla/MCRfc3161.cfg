SPECIFICATION RfcSpec
CONSTANTS
  Digest <- MCDigest
  DigestSize = 3
  Nonce = {1, 127, 128, 255, 256, 32768, 2147483647}
  Shape <- MCShape
  Damage <- MCDamage
  MaxRequests = 2
INVARIANTS
  TokenAnswersCall
  GrantIsAccepted
  VerifyBindsDigest
CHECK_DEADLOCK FALSE
