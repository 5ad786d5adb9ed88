SPECIFICATION CarefulSpec
CONSTANTS
  Uris = {u1, u2}
  Host = host
  Proxy = proxy
  MEMOS_MAX = 2
INVARIANT RetainedUri
CHECK_DEADLOCK FALSE
