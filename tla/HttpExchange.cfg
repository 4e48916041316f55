SPECIFICATION ClientFair
CONSTANTS
  NULL = NULL
  Apis = {"oauth_http_get", "oauth_http_post", "oauth_http_post2", "oauth_post_file"}
  Lens = {0, 2}
  HeadLen = 1
  SndBuf = 2
  BlockSize = 2
  FileSizes = {0, 1, 3}
  MaxFileChanges = 1
  ReplySpace = 5
  ReplyHead = 9
  MaxReplyBody = 1
INVARIANTS
  TypeOK
  DescriptorReleased
  HeapSettled
  AwaitsOnlyWholeRequest
  BodyWithinDeclared
  FaithfulReply
  NothingInvented
PROPERTIES
  CallEnds
  LostLinkEndsCall
CHECK_DEADLOCK FALSE
