CONSTANTS
  Chats = {c1, c2}
  MaxMessages = 6
SPECIFICATION Spec
SYMMETRY Symmetry
INVARIANT NothingForgotten
CHECK_DEADLOCK FALSE
