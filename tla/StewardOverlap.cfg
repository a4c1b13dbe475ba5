CONSTANTS
  Chats = {c1, c2}
  MaxMessages = 8
SPECIFICATION Spec
SYMMETRY Symmetry
INVARIANTS ForgottenOnlyByStaleDigest WindowIsNewest PromptMissesTheJustCompacted
CHECK_DEADLOCK FALSE
