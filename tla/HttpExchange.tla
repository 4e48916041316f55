---------------------------- MODULE HttpExchange ----------------------------
(***************************************************************************)
(* One call of the HTTP client (oauth_http.c over new_socket.c) together   *)
(* with the connection it opens, the server at the other end and, for      *)
(* oauth_post_file, the file it posts.  Requests and replies are byte      *)
(* counts: a request is a head of HeadLen bytes and a body, a reply is a   *)
(* header of ReplyHead bytes (the blank line included) and a body.  The    *)
(* reading stage stands for socket_read_alloc: it takes bytes in order,    *)
(* answers a buffer at the end of the stream and NULL on an error.         *)
(* ExchangeReads puts ReadAlloc in its place.                              *)
(***************************************************************************)
EXTENDS Naturals

CONSTANTS
  Apis,          \* the client functions called
  Lens,          \* strlen of the posted arguments, or the len of oauth_post_file
  HeadLen,       \* bytes of the request head
  SndBuf,        \* bytes in flight the connection holds before send blocks
  BlockSize,     \* const size_t blocksize of socket_write_file
  FileSizes,     \* sizes of the posted file
  MaxFileChanges,\* bound on the changes another process makes to that file
  ReplySpace,    \* place of the first space of a reply's status line
  ReplyHead,     \* bytes of a reply's header
  MaxReplyBody,  \* bound on a reply's body
  NULL

NotKeepaliveApis == {"oauth_http_get", "oauth_http_get2", "oauth_http_post"}
KeepaliveApis    == {"oauth_http_post2", "oauth_post_file"}
GetApis          == {"oauth_http_get", "oauth_http_get2"}
PostApis         == {"oauth_http_post", "oauth_http_post2"}

ASSUME ApisAssumption == Apis \subseteq (NotKeepaliveApis \cup KeepaliveApis)
ASSUME SizesAssumption ==
  /\ Lens \subseteq Nat
  /\ HeadLen \in Nat \ {0}
  /\ SndBuf \in Nat \ {0}
  /\ BlockSize \in Nat \ {0}
  /\ FileSizes \subseteq Nat
  /\ MaxFileChanges \in Nat
  /\ MaxReplyBody \in Nat
ASSUME ReplyAssumption ==       \* "HTTP", a space, and a blank line after it
  /\ ReplySpace \in Nat /\ ReplyHead \in Nat
  /\ 4 < ReplySpace /\ ReplySpace + 4 <= ReplyHead
Replies == [http : BOOLEAN, body : 0..MaxReplyBody]

ASSUME NullAssumption == NULL \notin Nat /\ NULL \notin Replies

VARIABLES
  call,        \* [api, query, len]: the function called and its arguments
  pc,          \* where the call is, see Stages
  heap,        \* the blocks the call has allocated and not freed
  sock,        \* the descriptor: "none", "open", "closed", "closed_twice"
  declared,    \* the Content-Length written into the head
  filesize,    \* file_size of socket_http_post_file, filesize of socket_write_file
  left,        \* bytes the current socket_write still has to send
  nread,       \* bytes of the file in the block being written
  ntotal,      \* bytes of the file written
  got,         \* bytes socket_read_alloc has taken
  answer,      \* what it returned: "none", "buffer", "null"
  result,      \* what the call returned: NULL, or the size of the content
  sent,        \* bytes send has accepted
  sendFailed,  \* a send has failed
  file,        \* size of the file to post, NULL when there is none
  fileMin,     \* the smallest size (0 for none) the file had during the call
  fileChanges,
  readFailed,  \* the file was there and fopen failed, or fread met an error
  link,        \* "none", "up", "fin" (closed by the server), "reset"
  srvRead,     \* bytes the server has read
  reply,       \* the server's reply [http, body], NULL before it has one
  srvSent      \* bytes of the reply the server has sent

request == <<declared, filesize>>
writing == <<left, nread, ntotal, sendFailed, sent>>
reading == <<got, answer, result>>
disk    == <<file, fileMin, fileChanges, readFailed>>
server  == <<srvRead, reply, srvSent>>
env     == <<disk, link, server>>
vars    == <<call, pc, heap, sock, request, writing, reading, env>>

Stages == {"stat", "build", "open", "connect", "head", "body", "restat", "fopen", "fread",
           "block", "file_end", "sent", "read", "nul", "close", "parse", "done", "crashed",
           "exited"}
Blocks  == {"http_request", "request", "uri", "fp", "block", "response", "data"}
Writing == {"head", "body", "block"}
Ended   == {"done", "crashed", "exited"}

Calls == [api : Apis \cap GetApis, query : BOOLEAN, len : {0}]
         \cup [api : Apis \ GetApis, query : {FALSE}, len : Lens]

Sized(f) == IF f = NULL THEN 0 ELSE f
Least(m, n) == IF m <= n THEN m ELSE n

Init ==
  /\ call \in Calls
  /\ pc = IF call.api = "oauth_post_file" /\ call.len = 0 THEN "stat" ELSE "build"
  /\ heap = {}
  /\ sock = "none"
  /\ declared = 0
  /\ filesize = call.len
  /\ left = 0
  /\ nread = 0
  /\ ntotal = 0
  /\ got = 0
  /\ answer = "none"
  /\ result = NULL
  /\ sendFailed = FALSE
  /\ sent = 0
  /\ file \in IF call.api = "oauth_post_file" THEN FileSizes \cup {NULL} ELSE {NULL}
  /\ fileMin = Sized(file)
  /\ fileChanges = 0
  /\ readFailed = FALSE
  /\ link = "none"
  /\ srvRead = 0
  /\ reply = NULL
  /\ srvSent = 0

-----------------------------------------------------------------------------
(* Making the request.                                                     *)

StatUnchecked ==
  /\ pc = "stat"
  /\ pc' = "build"
  /\ filesize' = file
  /\ UNCHANGED <<call, heap, sock, declared, writing, reading, env>>

(* socket_http_post_file asks for the size of the file when it is given 0, *)
(* and returns NULL when stat fails, as it does when there is no file.     *)
Stat ==
  /\ pc = "stat"
  /\ \/ file # NULL /\ pc' = "build" /\ filesize' = file
     \/ pc' = "done" /\ UNCHANGED filesize
  /\ UNCHANGED <<call, heap, sock, declared, writing, reading, env>>

Build(blocks, length) ==
  /\ pc = "build"
  /\ heap' = heap \cup {"http_request", "request"} \cup blocks
  /\ declared' = length
  /\ pc' = "open"
  /\ UNCHANGED <<call, sock, filesize, writing, reading, env>>

(* A query is joined to the uri in a block of its own.                     *)
BuildGet == call.api \in GetApis /\ Build(IF call.query THEN {"uri"} ELSE {}, 0)

BuildPost == call.api \in PostApis /\ Build({}, call.len)

BuildPostFile == call.api = "oauth_post_file" /\ Build({}, filesize)

Open ==
  /\ pc = "open"
  /\ \/ sock' = "open" /\ pc' = "connect"
     \/ pc' = "done" /\ UNCHANGED sock
  /\ UNCHANGED <<call, heap, request, writing, reading, env>>

Closed == IF sock = "open" THEN "closed" ELSE "closed_twice"

Connect ==
  /\ pc = "connect"
  /\ link' = "up"
  /\ heap' = heap \ {"http_request"}
  /\ left' = HeadLen
  /\ pc' = "head"
  /\ UNCHANGED <<call, sock, request, nread, ntotal, sendFailed, sent, reading, disk, server>>

ConnectFailsAndKeepsSock ==
  /\ pc = "connect"
  /\ pc' = "done"
  /\ UNCHANGED <<call, heap, sock, request, writing, reading, env>>

(* socket_connect closes the descriptor itself; its caller returns NULL at *)
(* once and leaves the blocks of the request allocated.                    *)
ConnectFails ==
  /\ pc = "connect"
  /\ sock' = Closed
  /\ pc' = "done"
  /\ UNCHANGED <<call, heap, request, writing, reading, env>>

-----------------------------------------------------------------------------
(* Writing the request.                                                    *)

SendIgnoresShort(n) ==
  /\ pc \in Writing
  /\ n \in 1..left
  /\ link \in {"up", "fin"}
  /\ sent + n <= srvRead + SndBuf
  /\ left' = 0
  /\ sent' = sent + n
  /\ link' = IF link = "fin" THEN "reset" ELSE link
  /\ UNCHANGED <<call, pc, heap, sock, request, nread, ntotal, sendFailed, reading, disk, server>>

(* send accepts n bytes, waiting for room.  Data sent to a server that has *)
(* closed is answered by a reset.                                          *)
Send(n) ==
  /\ pc \in Writing
  /\ n \in 1..left
  /\ link \in {"up", "fin"}
  /\ sent + n <= srvRead + SndBuf
  /\ left' = left - n
  /\ sent' = sent + n
  /\ link' = IF link = "fin" THEN "reset" ELSE link
  /\ UNCHANGED <<call, pc, heap, sock, request, nread, ntotal, sendFailed, reading, disk, server>>

WriteRetries ==
  /\ left = 0
  /\ sendFailed' = sendFailed

(* socket_write is over: it has sent everything, or a send has failed.     *)
WriteOver ==
  /\ left = 0 \/ link = "reset"
  /\ sendFailed' = (sendFailed \/ left # 0)

(* What socket_write_str returns is not looked at: the body is written     *)
(* after a failed head too.                                                *)
HeadWritten ==
  /\ pc = "head"
  /\ WriteOver
  /\ \/ call.api \in GetApis /\ pc' = "sent" /\ left' = 0
     \/ call.api \in PostApis /\ pc' = "body" /\ left' = call.len
     \/ call.api = "oauth_post_file" /\ pc' = "restat" /\ left' = 0
  /\ UNCHANGED <<call, heap, sock, request, nread, ntotal, sent, reading, env>>

BodyWritten ==
  /\ pc = "body"
  /\ WriteOver
  /\ left' = 0
  /\ pc' = "sent"
  /\ UNCHANGED <<call, heap, sock, request, nread, ntotal, sent, reading, env>>

(* socket_write_file asks for the size when it is given 0, which is also   *)
(* what it is given for a file found empty.                                *)
Restat ==
  /\ pc = "restat"
  /\ \/ filesize # 0 /\ pc' = "fopen" /\ UNCHANGED filesize
     \/ filesize = 0 /\ file # NULL /\ pc' = "fopen" /\ filesize' = file
     \/ filesize = 0 /\ pc' = "sent" /\ UNCHANGED filesize
  /\ UNCHANGED <<call, heap, sock, declared, writing, reading, env>>

(* fopen may fail on a file that exists.                                   *)
Fopen ==
  /\ pc = "fopen"
  /\ \/ /\ file # NULL
        /\ heap' = heap \cup {"fp", "block"}
        /\ pc' = "fread"
        /\ UNCHANGED disk
     \/ /\ readFailed' = (file # NULL)
        /\ pc' = "sent"
        /\ UNCHANGED <<heap, file, fileMin, fileChanges>>
  /\ UNCHANGED <<call, sock, request, writing, reading, link, server>>

(* What fread would give: a whole block, or what is left of the file.      *)
Readable == IF ntotal < Sized(file) THEN Least(BlockSize, Sized(file) - ntotal) ELSE 0

(* fread gives n bytes, fewer than it could when it meets an error; the    *)
(* loop goes on with a block of the given size, or ends.                   *)
NextBlock(n, size) ==
  /\ pc = "fread"
  /\ readFailed' = (readFailed \/ n < Readable)
  /\ IF n > 0 /\ ntotal < filesize
       THEN nread' = size /\ left' = size /\ pc' = "block"
       ELSE pc' = "file_end" /\ UNCHANGED <<left, nread>>
  /\ UNCHANGED <<call, heap, sock, request, ntotal, sendFailed, sent, reading, file, fileMin,
                 fileChanges, link, server>>

FreadUnclipped == \E n \in 0..Readable : NextBlock(n, n)

(* The block that is written is cut at filesize.                           *)
Fread == \E n \in 0..Readable : NextBlock(n, Least(n, filesize - ntotal))

(* The block is written, or a send failed and the loop is left.            *)
BlockWritten ==
  /\ pc = "block"
  /\ WriteOver
  /\ IF left = 0
       THEN pc' = "fread" /\ ntotal' = ntotal + nread
       ELSE pc' = "file_end" /\ UNCHANGED ntotal
  /\ left' = 0
  /\ UNCHANGED <<call, heap, sock, request, nread, sent, reading, env>>

FileEnd ==
  /\ pc = "file_end"
  /\ heap' = heap \ {"fp", "block"}
  /\ pc' = "sent"
  /\ UNCHANGED <<call, sock, request, writing, reading, env>>

RequestKept ==
  /\ pc = "sent"
  /\ pc' = "read"
  /\ UNCHANGED <<call, heap, sock, request, writing, reading, env>>

(* free(request): whatever came of the writing, the reply is awaited.      *)
RequestSent ==
  /\ pc = "sent"
  /\ heap' = heap \ {"request"}
  /\ pc' = "read"
  /\ UNCHANGED <<call, sock, request, writing, reading, env>>

-----------------------------------------------------------------------------
(* Reading the reply.                                                      *)

Recv ==
  /\ pc = "read"
  /\ got < srvSent
  /\ got' \in (got + 1)..srvSent
  /\ UNCHANGED <<call, pc, heap, sock, request, writing, answer, result, env>>

(* recv answers 0 at the end of the stream, or on a failed connection      *)
(* whose error an earlier send has already reported.                       *)
RecvEof ==
  /\ pc = "read"
  /\ (link = "fin" /\ got = srvSent) \/ link = "reset"
  /\ heap' = heap \cup {"response"}
  /\ answer' = "buffer"
  /\ pc' = "nul"
  /\ UNCHANGED <<call, sock, request, writing, got, result, env>>

RecvError ==
  /\ pc = "read"
  /\ link = "reset"
  /\ answer' = "null"
  /\ pc' = "nul"
  /\ UNCHANGED <<call, heap, sock, request, writing, got, result, env>>

(* xrealloc finds no memory for the reply, and the process ends.           *)
ReadExits ==
  /\ pc = "read"
  /\ pc' = "exited"
  /\ UNCHANGED <<call, heap, sock, request, writing, reading, env>>

(* response[response_size] = '\0', also when response is NULL.             *)
Terminate ==
  /\ pc = "nul"
  /\ pc' = IF answer = "buffer" THEN "close" ELSE "crashed"
  /\ UNCHANGED <<call, heap, sock, request, writing, reading, env>>

Close ==
  /\ pc = "close"
  /\ sock' = Closed
  /\ pc' = "parse"
  /\ UNCHANGED <<call, heap, request, writing, reading, env>>

ParsedPastFirstByte(n) ==
  IF n <= 4 \/ ~ reply.http \/ n < ReplySpace THEN NULL
  ELSE IF ReplyHead + 1 < n THEN n - ReplyHead ELSE 0

ParsedWithBlankLine(n) ==
  IF n <= 4 \/ ~ reply.http \/ n < ReplySpace THEN NULL
  ELSE IF ReplyHead < n THEN n - (ReplyHead - 4) ELSE 0

(* parse_http_result on the first n bytes of the reply: NULL, or the size  *)
(* of the data, 0 for a response without data.  The blank line is found    *)
(* only when a byte follows it.                                            *)
Parsed(n) ==
  IF n <= 4 \/ ~ reply.http \/ n < ReplySpace THEN NULL
  ELSE IF ReplyHead < n THEN n - ReplyHead ELSE 0

(* The response is parsed and freed; of what parse_http_result allocated   *)
(* the wrapper frees all but the data, which it returns.                   *)
ParseReply ==
  /\ pc = "parse"
  /\ LET size == Parsed(got)
         some == size \in Nat /\ size > 0 IN
       /\ result' = IF some THEN size ELSE NULL
       /\ heap' = (heap \ {"response"}) \cup (IF some THEN {"data"} ELSE {})
  /\ pc' = "done"
  /\ UNCHANGED <<call, sock, request, writing, got, answer, env>>

-----------------------------------------------------------------------------
(* The server, the network and the file.                                   *)

ReplyLength == ReplyHead + reply.body

WholeReplySent == reply # NULL /\ srvSent = ReplyLength

ServerRead ==
  /\ link = "up"
  /\ srvRead < sent
  /\ srvRead' \in (srvRead + 1)..sent
  /\ UNCHANGED <<call, pc, heap, sock, request, writing, reading, disk, link, reply, srvSent>>

(* A server may answer as soon as it has the head, for instance to refuse. *)
ServerReply ==
  /\ link = "up"
  /\ reply = NULL
  /\ srvRead >= HeadLen
  /\ reply' \in Replies
  /\ UNCHANGED <<call, pc, heap, sock, request, writing, reading, disk, link, srvRead, srvSent>>

ServerSend ==
  /\ link = "up"
  /\ reply # NULL
  /\ srvSent < ReplyLength
  /\ srvSent' \in (srvSent + 1)..ReplyLength
  /\ UNCHANGED <<call, pc, heap, sock, request, writing, reading, disk, link, srvRead, reply>>

(* Closing with request bytes unread resets the connection.                *)
Closing == IF srvRead < sent THEN "reset" ELSE "fin"

(* Connection: close.                                                      *)
ServerClose ==
  /\ call.api \in NotKeepaliveApis
  /\ link = "up"
  /\ WholeReplySent
  /\ link' = Closing
  /\ UNCHANGED <<call, pc, heap, sock, request, writing, reading, disk, server>>

(* The server ends an idle connection, gives up, or the network fails.     *)
LinkLost ==
  /\ link = "up"
  /\ link' \in {Closing, "reset"}
  /\ UNCHANGED <<call, pc, heap, sock, request, writing, reading, disk, server>>

(* Another process writes, cuts, removes or creates the file.  A file that *)
(* is open can be removed, but its bytes stay; the call does not see it.   *)
FileChange ==
  /\ call.api = "oauth_post_file"
  /\ pc \in {"stat", "build", "open", "connect", "head", "restat", "fopen", "fread", "block"}
  /\ fileChanges < MaxFileChanges
  /\ file' \in (FileSizes \cup {NULL}) \ {file}
  /\ "fp" \in heap => file' # NULL
  /\ fileMin' = Least(fileMin, Sized(file'))
  /\ fileChanges' = fileChanges + 1
  /\ UNCHANGED <<call, pc, heap, sock, request, writing, reading, readFailed, link, server>>

-----------------------------------------------------------------------------
Caller ==
  \/ Stat
  \/ BuildGet
  \/ BuildPost
  \/ BuildPostFile
  \/ Open
  \/ Connect
  \/ ConnectFails
  \/ \E n \in 1..left : Send(n)
  \/ HeadWritten
  \/ BodyWritten
  \/ Restat
  \/ Fopen
  \/ Fread
  \/ BlockWritten
  \/ FileEnd
  \/ RequestSent
  \/ Terminate
  \/ Close
  \/ ParseReply

Reading ==
  \/ Recv
  \/ RecvEof
  \/ RecvError
  \/ ReadExits

Client == Caller \/ Reading

RequestComplete == srvRead >= HeadLen + declared

(* What a server owes: to read, to answer a whole request, to close when   *)
(* asked to.                                                               *)
ServerDuty ==
  \/ ServerRead
  \/ ServerReply /\ RequestComplete
  \/ ServerSend
  \/ ServerClose

Environment == ServerRead \/ ServerReply \/ ServerSend \/ ServerClose \/ LinkLost \/ FileChange

Next == Client \/ Environment

Spec == Init /\ [][Next]_vars

(* The call is one thread of control and its system calls return unless    *)
(* they wait for the server.  Memory need not run out, so a call that      *)
(* waits is not rescued by ReadExits.                                      *)
ClientFair == Spec /\ WF_vars(Client /\ pc' # "exited")

ServerFair == WF_vars(ServerDuty)

-----------------------------------------------------------------------------
(* Each variable holds a value of its type.                                *)
TypeOK ==
  /\ call \in Calls
  /\ pc \in Stages
  /\ heap \subseteq Blocks
  /\ sock \in {"none", "open", "closed", "closed_twice"}
  /\ declared \in Nat
  /\ filesize \in Nat
  /\ left \in Nat
  /\ nread \in Nat
  /\ ntotal \in Nat
  /\ sendFailed \in BOOLEAN
  /\ sent \in Nat
  /\ got \in 0..srvSent
  /\ answer \in {"none", "buffer", "null"}
  /\ result \in Nat \cup {NULL}
  /\ file \in FileSizes \cup {NULL}
  /\ fileMin \in FileSizes \cup {0}
  /\ fileChanges \in 0..MaxFileChanges
  /\ readFailed \in BOOLEAN
  /\ link \in {"none", "up", "fin", "reset"}
  /\ srvRead \in 0..sent
  /\ reply \in Replies \cup {NULL}
  /\ srvSent \in Nat

(* Every call that ends has closed the descriptor it opened, once, on the  *)
(* path through socket_connect's failure (new_socket.c:148, then 519-521)  *)
(* and on the ordinary one (535); until then the descriptor is open        *)
(* whenever it is read or written.                                         *)
DescriptorReleased ==
  /\ pc = "done" => sock \in {"none", "closed"}
  /\ sock # "closed_twice"
  /\ pc \in Writing \cup {"connect", "read", "close"} => sock = "open"

(* A call that got as far as connecting returns with nothing allocated but *)
(* what it returns, and the uri joined to a query                          *)
(* (new_socket.c:490, never freed).                                        *)
HeapSettled ==
  pc = "done" /\ link # "none" =>
    heap = (IF result = NULL THEN {} ELSE {"data"}) \cup
           (IF call.query THEN {"uri"} ELSE {})

(* The client waits for a reply only after sending as many bytes as its    *)
(* Content-Length declared, so the server is never left waiting for the    *)
(* rest while the client waits for it; except when a send has failed, the  *)
(* file was at some time during the call shorter than declared, or it      *)
(* could not be opened or read (new_socket.c:270 and 276 end the body      *)
(* without a word to the caller).                                          *)
AwaitsOnlyWholeRequest ==
  pc = "read" =>
    \/ sent >= HeadLen + declared
    \/ sendFailed
    \/ call.api = "oauth_post_file" /\ (fileMin < declared \/ readFailed)

(* A body never runs over the Content-Length declared for it, however the  *)
(* file grows while it is posted; only a file declared empty can (the      *)
(* second stat, new_socket.c:257-263).                                     *)
BodyWithinDeclared ==
  \/ sent <= HeadLen + declared
  \/ call.api = "oauth_post_file" /\ declared = 0

(* When the server has sent a whole reply and closed, the call returns its *)
(* body, byte for byte; a body of no bytes is returned as NULL.            *)
FaithfulReply ==
  pc = "done" /\ link = "fin" /\ WholeReplySent =>
    result = IF reply.http /\ reply.body > 0 THEN reply.body ELSE NULL

(* Content is never made up: what is returned is bytes of the body of an   *)
(* HTTP reply the server sent.                                             *)
NothingInvented ==
  result # NULL => reply # NULL /\ reply.http /\ result \in 1..reply.body

(* Against a server that answers whole requests and honours                *)
(* Connection: close, every call that asks for it ends.                    *)
CallEnds == ServerFair => (call.api \in NotKeepaliveApis ~> pc \in Ended)

(* Once the server has closed, or the connection has failed, any call      *)
(* ends, whatever it was doing.                                            *)
LostLinkEndsCall == link \in {"fin", "reset"} ~> pc \in Ended

-----------------------------------------------------------------------------
(* What the comments of oauth_http.c say.                                  *)

(* oauth_http.c:57: "In case of an error NULL is returned".                *)
ErrorGivesNull == pc # "crashed"

(* oauth_http.c:57-58: "otherwise a pointer to the replied content".       *)
ReplyGivesContent ==
  pc = "done" /\ link = "fin" /\ WholeReplySent /\ reply.http
    => result # NULL
=============================================================================
