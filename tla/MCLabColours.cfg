SPECIFICATION NodeSpec
CONSTANTS
  Uris = {u1, u2}
  Host = host
  Proxy = proxy
  MEMOS_MAX = 2
  Levels = {0, 7, 10, 99, 100, 255, 256}
  MAX_PUT_PAYLOAD_LEN = 11
INVARIANT LongestColourTaken
CHECK_DEADLOCK FALSE
