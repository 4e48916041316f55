SPECIFICATION ReadsSpec
CONSTANTS
  NULL = NULL
  Apis = {"oauth_http_get", "oauth_http_post2", "oauth_post_file"}
  Lens = {0, 1}
  HeadLen = 1
  SndBuf = 1
  BlockSize = 1
  FileSizes = {0, 1}
  MaxFileChanges = 0
  ReplySpace = 5
  ReplyHead = 9
  MaxReplyBody = 3
  AddSize = 4
INVARIANTS
  ContentIsBody
PROPERTIES
  ImplementsExchange
CHECK_DEADLOCK FALSE
