--------------------------- MODULE HttpExchangeProofs -------------------------
(***************************************************************************)
(* Proofs about a call of the HTTP client, for every size of request,      *)
(* reply, block and file, every split of the data into sends and receives, *)
(* and every behaviour of the server and of the file.  The last part is    *)
(* about a call that reads with ReadAlloc.                                 *)
(***************************************************************************)
EXTENDS ExchangeReads, TLAPS

(* Stages before the connection is up, and those that end the call.        *)
Unlinked == {"stat", "build", "open", "connect"}
Answered == {"nul", "close", "parse", "done", "crashed"}

(* The descriptor follows pc.                                              *)
SockInv ==
  /\ pc \in {"stat", "build", "open"} => sock = "none"
  /\ pc \in {"connect", "read", "nul", "close", "restat", "fopen", "fread", "file_end",
             "sent", "crashed", "exited"} \cup Writing => sock = "open"
  /\ pc = "parse" => sock = "closed"
  /\ pc = "done" => sock \in {"none", "closed"}

(* So does the connection: it exists from connect on, and it is over once  *)
(* recv has answered 0 or an error.                                        *)
LinkInv ==
  /\ pc \in Unlinked => link = "none"
  /\ pc \notin Unlinked \cup {"done"} => link # "none"
  /\ pc \in Answered => link # "up"
  /\ pc \notin Answered => answer = "none"
  /\ pc \in {"close", "parse"} => answer = "buffer"

(* So does each block.                                                     *)
HeapInv ==
  /\ pc \in {"stat", "build"} => heap = {}
  /\ pc \in {"open", "connect"} => "http_request" \in heap
  /\ pc \notin Unlinked \cup {"done"} => "http_request" \notin heap
  /\ pc \notin {"stat", "build", "done"} => ("uri" \in heap <=> call.query)
  /\ pc \in {"read"} \cup (Answered \ {"done"}) => "request" \notin heap
  /\ "fp" \in heap <=> pc \in {"fread", "block", "file_end"}
  /\ "block" \in heap <=> pc \in {"fread", "block", "file_end"}
  /\ pc \notin Answered => "response" \notin heap
  /\ "data" \in heap => pc = "done"
  /\ call.query => call.api \in GetApis
  /\ pc = "stat" => ~ call.query
  /\ HeapSettled

(* What has been sent, stage by stage: an upper bound that always holds,   *)
(* and the exact count unless a send has failed.                           *)
Sends(count) == sent <= count /\ (sendFailed \/ sent = count)

FileShort == call.api = "oauth_post_file" /\ (fileMin < declared \/ readFailed)

SendInv ==
  /\ fileMin <= Sized(file)
  /\ pc \in Unlinked => sent = 0
  /\ pc \in Unlinked \cup {"head"} => ~ sendFailed /\ ntotal = 0
  /\ pc \notin {"stat", "build", "done"} /\ call.api \in GetApis => declared = 0
  /\ pc \notin {"stat", "build", "done"} /\ call.api \in PostApis => declared = call.len
  /\ pc \in {"open", "connect", "head", "restat"} /\ call.api = "oauth_post_file" => filesize = declared
  /\ pc = "body" => call.api \in PostApis
  /\ pc \in {"restat", "fopen", "fread", "block", "file_end"} => call.api = "oauth_post_file"
  /\ pc \in {"fopen", "fread", "block", "file_end"} => filesize = declared \/ declared = 0
  /\ pc = "head" => Sends(HeadLen - left) /\ left <= HeadLen
  /\ pc = "body" => Sends(HeadLen + declared - left) /\ left <= declared
  /\ pc \in {"restat", "fopen"} => Sends(HeadLen) /\ ntotal = 0
  /\ pc = "fread" => Sends(HeadLen + ntotal) /\ ntotal <= filesize
  /\ pc = "block" => Sends(HeadLen + ntotal + nread - left) /\ left <= nread /\ ntotal + nread <= filesize
  /\ pc = "file_end" => sent <= HeadLen + filesize
  /\ pc \in {"file_end", "sent", "read"} => sendFailed \/ sent >= HeadLen + declared \/ FileShort
  /\ BodyWithinDeclared

ReplyInv ==
  /\ reply = NULL => srvSent = 0
  /\ reply # NULL => srvSent <= ReplyHead + reply.body
  /\ pc \in {"nul", "close", "parse"} /\ link = "fin" => got = srvSent
  /\ pc # "done" => result = NULL
  /\ NothingInvented
  /\ FaithfulReply

IInv == TypeOK /\ SockInv /\ LinkInv /\ HeapInv /\ SendInv /\ ReplyInv

-----------------------------------------------------------------------------
(* The shape of a call, and of a reply.                                    *)
LEMMA CallShape == ASSUME NEW c \in Calls
                   PROVE  /\ c.len \in Nat /\ c.api \in Apis /\ c.query \in BOOLEAN
                          /\ c.query => c.api \in GetApis
<1>1. CASE c \in [api : Apis \cap GetApis, query : BOOLEAN, len : {0}]
  BY <1>1
<1>2. CASE c \in [api : Apis \ GetApis, query : {FALSE}, len : Lens]
  BY <1>2, SizesAssumption
<1>3. QED
  BY <1>1, <1>2 DEF Calls

(* A reply is a record, and is not NULL.                                   *)
LEMMA ReplyShape == ASSUME NEW r \in Replies
                    PROVE  r.http \in BOOLEAN /\ r.body \in 0..MaxReplyBody /\ r # NULL
  BY NullAssumption DEF Replies

(* The arithmetic that TypeOK allows.                                      *)
Numbers ==
  /\ call.len \in Nat /\ declared \in Nat /\ filesize \in Nat
  /\ left \in Nat /\ nread \in Nat /\ ntotal \in Nat /\ sent \in Nat
  /\ got \in Nat /\ srvSent \in Nat /\ got <= srvSent
  /\ sendFailed \in BOOLEAN /\ pc \in Stages
  /\ file # NULL => file \in Nat
  /\ fileMin \in Nat
  /\ reply # NULL => reply.body \in Nat

(* TypeOK gives these facts, and the provers need no more of it where only *)
(* numbers are compared.                                                   *)
LEMMA Numeric == TypeOK => Numbers
  BY SizesAssumption, CallShape, ReplyShape DEF TypeOK, Numbers

(* IInv holds when a function of oauth_http.c is called.                   *)
LEMMA InitInv == Init => IInv
<1> SUFFICES ASSUME Init PROVE IInv
  OBVIOUS
<1> USE SizesAssumption, NullAssumption, CallShape DEF Init
<1>1. TypeOK
  <2>1. fileMin \in FileSizes \cup {0}
    BY DEF Sized
  <2>2. call.len \in Nat /\ pc \in Stages
    BY DEF Stages
  <2>3. file \in FileSizes \cup {NULL}
    OBVIOUS
  <2>4. got \in 0..srvSent /\ srvRead \in 0..sent /\ fileChanges \in 0..MaxFileChanges
    OBVIOUS
  <2>5. left \in Nat /\ nread \in Nat /\ ntotal \in Nat /\ declared \in Nat /\ filesize \in Nat
    BY <2>2
  <2>6. heap \subseteq Blocks /\ reply \in Replies \cup {NULL} /\ result \in Nat \cup {NULL}
    OBVIOUS
  <2>7. QED
    BY <2>1, <2>2, <2>3, <2>4, <2>5, <2>6 DEF TypeOK
<1>2. SockInv /\ LinkInv
  BY DEF SockInv, LinkInv, Writing, Unlinked, Answered
<1>3. HeapInv
  BY DEF HeapInv, HeapSettled, Unlinked, Answered, GetApis
<1>4. SendInv
  BY Numeric, <1>1 DEF SendInv, Unlinked, BodyWithinDeclared, Sized, Numbers
<1>5. ReplyInv
  BY DEF ReplyInv, NothingInvented, FaithfulReply
<1>6. QED
  BY <1>1, <1>2, <1>3, <1>4, <1>5 DEF IInv

(* Every step keeps the types.                                             *)
LEMMA TypeStep == ASSUME TypeOK, [Next]_vars PROVE TypeOK'
<1> USE SizesAssumption, ReplyAssumption, NullAssumption, CallShape DEF TypeOK, request,
     writing, reading, disk, server, env, Stages, Blocks, Sized
<1>1. CASE Stat
  BY <1>1 DEF Stat
<1>2. CASE BuildGet
  BY <1>2 DEF BuildGet, Build
<1>3. CASE BuildPost
  BY <1>3 DEF BuildPost, Build
<1>4. CASE BuildPostFile
  BY <1>4 DEF BuildPostFile, Build
<1>5. CASE Open
  BY <1>5 DEF Open
<1>6. CASE Connect
  BY <1>6 DEF Connect
<1>7. CASE ConnectFails
  BY <1>7 DEF ConnectFails, Closed
<1>8. ASSUME NEW n \in 1..left, Send(n) PROVE TypeOK'
  BY <1>8 DEF Send
<1>9. CASE HeadWritten
  BY <1>9 DEF HeadWritten, WriteOver
<1>10. CASE BodyWritten
  BY <1>10 DEF BodyWritten, WriteOver
<1>11. CASE Restat
  BY <1>11 DEF Restat
<1>12. CASE Fopen
  <2>1. readFailed' \in BOOLEAN
    BY <1>12, Zenon DEF Fopen, disk
  <2>2. UNCHANGED <<file, fileMin, fileChanges>>
    BY <1>12 DEF Fopen
  <2>3. heap' \subseteq Blocks /\ pc' \in Stages
    BY <1>12 DEF Fopen
  <2>4. UNCHANGED <<call, sock, request, writing, reading, link, server>>
    BY <1>12 DEF Fopen
  <2>5. QED
    BY ONLY TypeOK, <2>1, <2>2, <2>3, <2>4 DEF TypeOK, request, writing, reading, server
<1>13. CASE Fread
  BY <1>13 DEF Fread, NextBlock, Readable, Least, Sized
<1>14. CASE BlockWritten
  BY <1>14 DEF BlockWritten, WriteOver
<1>15. CASE FileEnd
  BY <1>15 DEF FileEnd
<1>16. CASE RequestSent
  BY <1>16 DEF RequestSent
<1>17. CASE Recv
  BY <1>17 DEF Recv
<1>18. CASE RecvEof
  BY <1>18 DEF RecvEof
<1>19. CASE RecvError \/ ReadExits
  BY <1>19 DEF RecvError, ReadExits
<1>20. CASE Terminate
  BY <1>20 DEF Terminate
<1>21. CASE Close
  BY <1>21 DEF Close, Closed
<1>22. CASE ParseReply
  BY <1>22 DEF ParseReply
<1>23. CASE ServerRead
  BY <1>23 DEF ServerRead
<1>24. CASE ServerReply
  BY <1>24 DEF ServerReply
<1>25. CASE ServerSend
  BY <1>25 DEF ServerSend, ReplyLength
<1>26. CASE ServerClose
  BY <1>26 DEF ServerClose, WholeReplySent, ReplyLength, Closing
<1>27. CASE LinkLost
  BY <1>27 DEF LinkLost, Closing
<1>28. CASE FileChange
  BY <1>28 DEF FileChange, Least, Sized
<1>29. CASE UNCHANGED vars
  BY <1>29 DEF vars
<1>30. QED
  BY <1>1, <1>2, <1>3, <1>4, <1>5, <1>6, <1>7, <1>8, <1>9, <1>10, <1>11, <1>12, <1>13, <1>14,
       <1>15, <1>16, <1>17, <1>18, <1>19, <1>20, <1>21, <1>22, <1>23, <1>24, <1>25, <1>26,
       <1>27, <1>28, <1>29 DEF Next, Client, Caller, Reading, Environment

(* Every step keeps the descriptor and the stage of the call together.     *)
LEMMA SockStep == ASSUME TypeOK, SockInv, [Next]_vars PROVE SockInv'
<1> USE DEF TypeOK, SockInv, Stages, Writing, request, writing, reading, disk, server, env
<1>1. CASE Stat
  BY <1>1 DEF Stat
<1>2. CASE BuildGet
  BY <1>2 DEF BuildGet, Build
<1>3. CASE BuildPost
  BY <1>3 DEF BuildPost, Build
<1>4. CASE BuildPostFile
  BY <1>4 DEF BuildPostFile, Build
<1>5. CASE Open
  BY <1>5 DEF Open
<1>6. CASE Connect
  BY <1>6 DEF Connect
<1>7. CASE ConnectFails
  BY <1>7 DEF ConnectFails, Closed
<1>8. ASSUME NEW n \in 1..left, Send(n) PROVE SockInv'
  BY <1>8 DEF Send
<1>9. CASE HeadWritten
  BY <1>9 DEF HeadWritten, WriteOver
<1>10. CASE BodyWritten
  BY <1>10 DEF BodyWritten, WriteOver
<1>11. CASE Restat
  BY <1>11 DEF Restat
<1>12. CASE Fopen
  BY <1>12 DEF Fopen
<1>13. CASE Fread
  BY <1>13 DEF Fread, NextBlock, Readable, Least, Sized
<1>14. CASE BlockWritten
  BY <1>14 DEF BlockWritten, WriteOver
<1>15. CASE FileEnd
  BY <1>15 DEF FileEnd
<1>16. CASE RequestSent
  BY <1>16 DEF RequestSent
<1>17. CASE Recv
  BY <1>17 DEF Recv
<1>18. CASE RecvEof
  BY <1>18 DEF RecvEof
<1>19. CASE RecvError \/ ReadExits
  BY <1>19 DEF RecvError, ReadExits
<1>20. CASE Terminate
  BY <1>20 DEF Terminate
<1>21. CASE Close
  BY <1>21 DEF Close, Closed
<1>22. CASE ParseReply
  BY <1>22 DEF ParseReply
<1>23. CASE Environment
  BY <1>23 DEF Environment, ServerRead, ServerReply, ServerSend, ServerClose, LinkLost,
       FileChange, Closing
<1>24. CASE UNCHANGED vars
  BY <1>24 DEF vars
<1>25. QED
  BY <1>1, <1>2, <1>3, <1>4, <1>5, <1>6, <1>7, <1>8, <1>9, <1>10, <1>11, <1>12, <1>13, <1>14,
       <1>15, <1>16, <1>17, <1>18, <1>19, <1>20, <1>21, <1>22, <1>23, <1>24 DEF Next, Client, Caller, Reading

(* Every step keeps the connection and the stage together.                 *)
LEMMA LinkStep == ASSUME TypeOK, LinkInv, [Next]_vars PROVE LinkInv'
<1> USE DEF TypeOK, LinkInv, Stages, Unlinked, Answered, Writing, request, writing, reading,
     disk, server, env
<1>1. CASE Stat
  BY <1>1 DEF Stat
<1>2. CASE BuildGet
  BY <1>2 DEF BuildGet, Build
<1>3. CASE BuildPost
  BY <1>3 DEF BuildPost, Build
<1>4. CASE BuildPostFile
  BY <1>4 DEF BuildPostFile, Build
<1>5. CASE Open
  BY <1>5 DEF Open
<1>6. CASE Connect
  BY <1>6 DEF Connect
<1>7. CASE ConnectFails
  BY <1>7 DEF ConnectFails, Closed
<1>8. ASSUME NEW n \in 1..left, Send(n) PROVE LinkInv'
  BY <1>8 DEF Send
<1>9. CASE HeadWritten
  BY <1>9 DEF HeadWritten, WriteOver
<1>10. CASE BodyWritten
  BY <1>10 DEF BodyWritten, WriteOver
<1>11. CASE Restat
  BY <1>11 DEF Restat
<1>12. CASE Fopen
  BY <1>12 DEF Fopen
<1>13. CASE Fread
  BY <1>13 DEF Fread, NextBlock, Readable, Least, Sized
<1>14. CASE BlockWritten
  BY <1>14 DEF BlockWritten, WriteOver
<1>15. CASE FileEnd
  BY <1>15 DEF FileEnd
<1>16. CASE RequestSent
  BY <1>16 DEF RequestSent
<1>17. CASE Recv
  BY <1>17 DEF Recv
<1>18. CASE RecvEof
  BY <1>18 DEF RecvEof
<1>19. CASE RecvError \/ ReadExits
  BY <1>19 DEF RecvError, ReadExits
<1>20. CASE Terminate
  BY <1>20 DEF Terminate
<1>21. CASE Close
  BY <1>21 DEF Close, Closed
<1>22. CASE ParseReply
  BY <1>22 DEF ParseReply
<1>23. CASE Environment
  BY <1>23 DEF Environment, ServerRead, ServerReply, ServerSend, ServerClose, LinkLost,
       FileChange, Closing
<1>24. CASE UNCHANGED vars
  BY <1>24 DEF vars
<1>25. QED
  BY <1>1, <1>2, <1>3, <1>4, <1>5, <1>6, <1>7, <1>8, <1>9, <1>10, <1>11, <1>12, <1>13, <1>14,
       <1>15, <1>16, <1>17, <1>18, <1>19, <1>20, <1>21, <1>22, <1>23, <1>24 DEF Next, Client, Caller, Reading

(* Every step keeps the allocated blocks and the stage together.           *)
LEMMA HeapStep == ASSUME TypeOK, LinkInv, HeapInv, [Next]_vars PROVE HeapInv'
<1> USE CallShape DEF TypeOK, LinkInv, HeapInv, HeapSettled, Stages, Unlinked, Answered,
     Writing, GetApis, PostApis, request, writing, reading, disk, server, env
<1>1. CASE Stat
  BY <1>1 DEF Stat
<1>2. CASE BuildGet
  BY <1>2 DEF BuildGet, Build
<1>3. CASE BuildPost
  BY <1>3 DEF BuildPost, Build
<1>4. CASE BuildPostFile
  BY <1>4 DEF BuildPostFile, Build
<1>5. CASE Open
  BY <1>5 DEF Open
<1>6. CASE Connect
  BY <1>6 DEF Connect
<1>7. CASE ConnectFails
  BY <1>7 DEF ConnectFails, Closed
<1>8. ASSUME NEW n \in 1..left, Send(n) PROVE HeapInv'
  BY <1>8 DEF Send
<1>9. CASE HeadWritten
  BY <1>9 DEF HeadWritten, WriteOver
<1>10. CASE BodyWritten
  BY <1>10 DEF BodyWritten, WriteOver
<1>11. CASE Restat
  BY <1>11 DEF Restat
<1>12. CASE Fopen
  BY <1>12 DEF Fopen
<1>13. CASE Fread
  BY <1>13 DEF Fread, NextBlock, Readable, Least, Sized
<1>14. CASE BlockWritten
  BY <1>14 DEF BlockWritten, WriteOver
<1>15. CASE FileEnd
  BY <1>15 DEF FileEnd
<1>16. CASE RequestSent
  BY <1>16 DEF RequestSent
<1>17. CASE Recv
  BY <1>17 DEF Recv
<1>18. CASE RecvEof
  BY <1>18 DEF RecvEof
<1>19. CASE RecvError \/ ReadExits
  BY <1>19 DEF RecvError, ReadExits
<1>20. CASE Terminate
  BY <1>20 DEF Terminate
<1>21. CASE Close
  BY <1>21 DEF Close, Closed
<1>22. CASE ParseReply
  <2>1. PICK size : /\ size = Parsed(got)
                    /\ result' = IF size \in Nat /\ size > 0 THEN size ELSE NULL
                    /\ heap' = (heap \ {"response"}) \cup
                                (IF size \in Nat /\ size > 0 THEN {"data"} ELSE {})
    BY <1>22 DEF ParseReply
  <2>2. pc = "parse" /\ pc' = "done" /\ UNCHANGED <<call, link>>
    BY <1>22 DEF ParseReply
  <2>3. heap \ {"response"} = IF call.query THEN {"uri"} ELSE {}
    BY <2>2 DEF Blocks
  <2>4. HeapSettled'
    BY <2>1, <2>2, <2>3, NullAssumption
  <2>5. QED
    BY <2>1, <2>2, <2>4
<1>23. CASE Environment
  BY <1>23 DEF Environment, ServerRead, ServerReply, ServerSend, ServerClose, LinkLost,
       FileChange, Closing
<1>24. CASE UNCHANGED vars
  BY <1>24 DEF vars
<1>25. QED
  BY <1>1, <1>2, <1>3, <1>4, <1>5, <1>6, <1>7, <1>8, <1>9, <1>10, <1>11, <1>12, <1>13, <1>14,
       <1>15, <1>16, <1>17, <1>18, <1>19, <1>20, <1>21, <1>22, <1>23, <1>24 DEF Next, Client, Caller, Reading

(* Every step keeps the counts of what has been sent: a write adds what is *)
(* left of it, and a stage is left with nothing left to write or after a   *)
(* failed send.                                                            *)
LEMMA SendStep == ASSUME TypeOK, LinkInv, SendInv, [Next]_vars PROVE SendInv'
<1> USE SizesAssumption, ReplyAssumption, NullAssumption, Numeric DEF Numbers, LinkInv, SendInv,
     Sends, FileShort, BodyWithinDeclared, Stages, Unlinked, Answered, Writing, GetApis,
     PostApis, Sized, request, writing, reading, disk, server, env
<1>1. CASE Stat
  BY <1>1 DEF Stat
<1>2. CASE BuildGet
  BY <1>2 DEF BuildGet, Build
<1>3. CASE BuildPost
  BY <1>3 DEF BuildPost, Build
<1>4. CASE BuildPostFile
  BY <1>4 DEF BuildPostFile, Build
<1>5. CASE Open
  BY <1>5 DEF Open
<1>6. CASE Connect
  BY <1>6 DEF Connect
<1>7. CASE ConnectFails
  BY <1>7 DEF ConnectFails, Closed
<1>8. ASSUME NEW n \in 1..left, Send(n) PROVE SendInv'
  BY <1>8 DEF Send
<1>9. CASE HeadWritten
  <2>1. sendFailed' \/ left = 0
    BY <1>9, Zenon DEF HeadWritten, WriteOver
  <2>2. UNCHANGED <<call, declared, filesize, nread, ntotal, sent, file, fileMin>> /\ left' \in Nat /\ pc = "head"
    BY <1>9 DEF HeadWritten
  <2>3. CASE call.api \in GetApis /\ pc' = "sent" /\ left' = 0
    BY <2>1, <2>2, <2>3
  <2>4. CASE call.api \in PostApis /\ pc' = "body" /\ left' = call.len
    BY <2>1, <2>2, <2>4
  <2>5. CASE call.api = "oauth_post_file" /\ pc' = "restat" /\ left' = 0
    BY <2>1, <2>2, <2>5
  <2>6. QED
    BY <1>9, <2>3, <2>4, <2>5 DEF HeadWritten
<1>10. CASE BodyWritten
  <2>1. sendFailed' \/ (left = 0 /\ ~ sendFailed)
    BY <1>10, Zenon DEF BodyWritten, WriteOver
  <2>2. UNCHANGED <<call, declared, filesize, nread, ntotal, sent, file, fileMin>> /\ pc = "body" /\ pc' = "sent"
    BY <1>10 DEF BodyWritten
  <2>3. QED
    BY <2>1, <2>2
<1>11. CASE Restat
  BY <1>11 DEF Restat
<1>12. CASE Fopen
  <2>1. pc = "fopen" /\ UNCHANGED <<call, declared, filesize, left, ntotal, sendFailed, sent>>
    BY <1>12 DEF Fopen
  <2>2. UNCHANGED <<file, fileMin>>
    BY <1>12 DEF Fopen
  <2>3. CASE pc' = "fread"
    BY <2>1, <2>2, <2>3
  <2>4. CASE pc' = "sent" /\ file = NULL
    BY <2>1, <2>2, <2>4
  <2>5. CASE pc' = "sent" /\ file # NULL
    <3>1. readFailed'
      BY <1>12, <2>5, Zenon DEF Fopen
    <3>2. QED
      BY <2>1, <2>2, <2>5, <3>1
  <2>6. QED
    BY <1>12, <2>3, <2>4, <2>5 DEF Fopen
<1>13. CASE Fread
  <2>1. PICK n \in 0..Readable : NextBlock(n, Least(n, filesize - ntotal))
    BY <1>13 DEF Fread
  <2>2. /\ pc = "fread"
        /\ UNCHANGED <<call, declared, filesize, ntotal, sendFailed, sent, file, fileMin>>
    BY <2>1 DEF NextBlock
  <2>3. CASE n > 0 /\ ntotal < filesize
    BY <2>1, <2>2, <2>3 DEF NextBlock, Readable, Least
  <2>4. CASE ~ (n > 0 /\ ntotal < filesize)
    <3>1. pc' = "file_end" /\ left' = left /\ nread' = nread
      BY <2>1, <2>4 DEF NextBlock
    <3>2. CASE n < Readable
      <4>1. readFailed'
        BY <2>1, <3>2, Zenon DEF NextBlock
      <4>2. QED
        BY <2>2, <3>1, <4>1
    <3>3. CASE ~ n < Readable
      <4>1. readFailed => readFailed'
        BY <2>1, Zenon DEF NextBlock
      <4>2. Sized(file) <= ntotal \/ filesize <= ntotal
        BY <2>1, <2>4, <3>3 DEF Readable, Least
      <4>3. QED
        BY <2>2, <3>1, <4>1, <4>2
    <3>4. QED
      BY <3>2, <3>3
  <2>5. QED
    BY <2>3, <2>4
<1>14. CASE BlockWritten
  <2>1. sendFailed' \/ (left = 0 /\ ~ sendFailed)
    BY <1>14, Zenon DEF BlockWritten, WriteOver
  <2>2. UNCHANGED <<call, declared, filesize, nread, sent, file, fileMin>> /\ pc = "block"
    BY <1>14 DEF BlockWritten
  <2>3. CASE left = 0 /\ pc' = "fread" /\ ntotal' = ntotal + nread
    BY <2>1, <2>2, <2>3
  <2>4. CASE left # 0 /\ pc' = "file_end" /\ ntotal' = ntotal
    BY <2>1, <2>2, <2>4
  <2>5. QED
    BY <1>14, <2>3, <2>4 DEF BlockWritten
<1>15. CASE FileEnd
  BY <1>15 DEF FileEnd
<1>16. CASE RequestSent
  BY <1>16 DEF RequestSent
<1>17. CASE Recv
  BY <1>17 DEF Recv
<1>18. CASE RecvEof
  BY <1>18 DEF RecvEof
<1>19. CASE RecvError \/ ReadExits
  BY <1>19 DEF RecvError, ReadExits
<1>20. CASE Terminate
  BY <1>20 DEF Terminate
<1>21. CASE Close
  BY <1>21 DEF Close, Closed
<1>22. CASE ParseReply
  BY <1>22 DEF ParseReply
<1>23. CASE ServerRead
  BY <1>23 DEF ServerRead
<1>24. CASE ServerReply
  BY <1>24 DEF ServerReply
<1>25. CASE ServerSend
  BY <1>25 DEF ServerSend, ReplyLength
<1>26. CASE ServerClose
  BY <1>26 DEF ServerClose, WholeReplySent, ReplyLength, Closing
<1>27. CASE LinkLost
  BY <1>27 DEF LinkLost, Closing
<1>28. CASE FileChange
  BY <1>28 DEF FileChange, Least, Sized
<1>29. CASE UNCHANGED vars
  BY <1>29 DEF vars
<1>30. QED
  BY <1>1, <1>2, <1>3, <1>4, <1>5, <1>6, <1>7, <1>8, <1>9, <1>10, <1>11, <1>12, <1>13, <1>14,
       <1>15, <1>16, <1>17, <1>18, <1>19, <1>20, <1>21, <1>22, <1>23, <1>24, <1>25, <1>26,
       <1>27, <1>28, <1>29 DEF Next, Client, Caller, Reading, Environment

(* Every step keeps what is known of the reply: it is fixed once chosen,   *)
(* and nothing more of it arrives once recv has answered 0.                *)
LEMMA ReplyStep == ASSUME TypeOK, LinkInv, ReplyInv, [Next]_vars PROVE ReplyInv'
<1> USE SizesAssumption, ReplyAssumption, NullAssumption, Numeric, ReplyShape DEF Numbers,
     LinkInv, ReplyInv, NothingInvented, FaithfulReply, WholeReplySent, ReplyLength, Parsed,
     Stages, Unlinked, Answered, Writing, request, writing, reading, disk, server, env
<1>1. CASE Stat
  BY <1>1 DEF Stat
<1>2. CASE BuildGet
  BY <1>2 DEF BuildGet, Build
<1>3. CASE BuildPost
  BY <1>3 DEF BuildPost, Build
<1>4. CASE BuildPostFile
  BY <1>4 DEF BuildPostFile, Build
<1>5. CASE Open
  BY <1>5 DEF Open
<1>6. CASE Connect
  BY <1>6 DEF Connect
<1>7. CASE ConnectFails
  BY <1>7 DEF ConnectFails, Closed
<1>8. ASSUME NEW n \in 1..left, Send(n) PROVE ReplyInv'
  BY <1>8 DEF Send
<1>9. CASE HeadWritten
  BY <1>9 DEF HeadWritten, WriteOver
<1>10. CASE BodyWritten
  BY <1>10 DEF BodyWritten, WriteOver
<1>11. CASE Restat
  BY <1>11 DEF Restat
<1>12. CASE Fopen
  BY <1>12 DEF Fopen
<1>13. CASE Fread
  BY <1>13 DEF Fread, NextBlock, Readable, Least, Sized
<1>14. CASE BlockWritten
  BY <1>14 DEF BlockWritten, WriteOver
<1>15. CASE FileEnd
  BY <1>15 DEF FileEnd
<1>16. CASE RequestSent
  BY <1>16 DEF RequestSent
<1>17. CASE Recv
  BY <1>17 DEF Recv
<1>18. CASE RecvEof
  BY <1>18 DEF RecvEof
<1>19. CASE RecvError \/ ReadExits
  BY <1>19 DEF RecvError, ReadExits
<1>20. CASE Terminate
  BY <1>20 DEF Terminate
<1>21. CASE Close
  BY <1>21 DEF Close, Closed
<1>22. CASE ParseReply
  BY <1>22 DEF ParseReply
<1>23. CASE ServerRead
  BY <1>23 DEF ServerRead
<1>24. CASE ServerReply
  BY <1>24 DEF ServerReply
<1>25. CASE ServerSend
  BY <1>25 DEF ServerSend, ReplyLength
<1>26. CASE ServerClose
  BY <1>26 DEF ServerClose, WholeReplySent, ReplyLength, Closing
<1>27. CASE LinkLost
  BY <1>27 DEF LinkLost, Closing
<1>28. CASE FileChange
  BY <1>28 DEF FileChange, Least, Sized
<1>29. CASE UNCHANGED vars
  BY <1>29 DEF vars
<1>30. QED
  BY <1>1, <1>2, <1>3, <1>4, <1>5, <1>6, <1>7, <1>8, <1>9, <1>10, <1>11, <1>12, <1>13, <1>14,
       <1>15, <1>16, <1>17, <1>18, <1>19, <1>20, <1>21, <1>22, <1>23, <1>24, <1>25, <1>26,
       <1>27, <1>28, <1>29 DEF Next, Client, Caller, Reading, Environment

(* Every step of the call, the server, the network and the file keeps IInv. *)
LEMMA NextInv == IInv /\ [Next]_vars => IInv'
  BY TypeStep, SockStep, LinkStep, HeapStep, SendStep, ReplyStep DEF IInv

(* IInv holds throughout a call.                                           *)
LEMMA Invariance == Spec => []IInv
  BY InitInv, NextInv, PTL DEF Spec

-----------------------------------------------------------------------------
(* Type correctness.                                                       *)
THEOREM TypeCorrect == Spec => []TypeOK
<1>1. IInv => TypeOK
  BY DEF IInv
<1>2. QED
  BY <1>1, Invariance, PTL

(* The descriptor is open while it is used and is closed exactly once, on  *)
(* every path through the three socket_http functions that returns.        *)
THEOREM DescriptorIsReleased == Spec => []DescriptorReleased
<1>1. IInv => DescriptorReleased
  BY DEF IInv, TypeOK, SockInv, DescriptorReleased, Writing, Stages
<1>2. QED
  BY <1>1, Invariance, PTL

(* A call that connected leaves nothing allocated but what it returns and  *)
(* the uri joined to a query.                                              *)
THEOREM HeapIsSettled == Spec => []HeapSettled
<1>1. IInv => HeapSettled
  BY DEF IInv, HeapInv
<1>2. QED
  BY <1>1, Invariance, PTL

(* A client that waits for its reply has sent the whole request it         *)
(* declared, unless a send failed or the file was too short or unreadable. *)
THEOREM WholeRequestAwaited == Spec => []AwaitsOnlyWholeRequest
<1>1. IInv => AwaitsOnlyWholeRequest
  BY DEF IInv, SendInv, FileShort, AwaitsOnlyWholeRequest
<1>2. QED
  BY <1>1, Invariance, PTL

(* No body runs over its Content-Length, except that of a file declared    *)
(* empty.                                                                  *)
THEOREM BodyFitsDeclared == Spec => []BodyWithinDeclared
<1>1. IInv => BodyWithinDeclared
  BY DEF IInv, SendInv
<1>2. QED
  BY <1>1, Invariance, PTL

(* A whole reply is returned as its body.                                  *)
THEOREM ReplyIsFaithful == Spec => []FaithfulReply
<1>1. IInv => FaithfulReply
  BY DEF IInv, ReplyInv
<1>2. QED
  BY <1>1, Invariance, PTL

(* Nothing is returned that is not part of a body that was replied.        *)
THEOREM NothingIsInvented == Spec => []NothingInvented
<1>1. IInv => NothingInvented
  BY DEF IInv, ReplyInv
<1>2. QED
  BY <1>1, Invariance, PTL

-----------------------------------------------------------------------------
(* What holds of socket_read_alloc inside a call: what it counts is what   *)
(* recv gave it, and so much of the buffer is the reply.                   *)
BufferInv ==
  /\ taken = got
  /\ allocsize \in Nat /\ recvsize \in Nat
  /\ buffer \in [0..(allocsize - 1) -> Nat]
  /\ \A i \in 0..(got - 1) : buffer[i] = i + 1
  /\ got + recvsize <= allocsize
  /\ rpc = "recv" => pos.off = got
  /\ rpc = "grow" => recvsize = 0

(* What was returned is what came after the header.                        *)
ResultInv == result # NULL => result = got - ReplyHead /\ ReplyHead < got

ReadsInv == IInv /\ BufferInv /\ ResultInv

(* A step of the call outside the reading stage is one of HttpExchange.    *)
LEMMA OutsideStep == (Caller \/ Environment) => Next
  BY DEF Next, Client

(* With the counts in agreement, every step of ReadAlloc is one of the     *)
(* reading stage of HttpExchange, or none.                                 *)
LEMMA ReadsStep == ASSUME TypeOK, taken = got, [ReadsNext]_allVars PROVE [Next]_vars
<1> USE DEF InRead, request, writing, reading, disk, server, env, RA!code, RA!net, RA!vars
<1>1. got \in Nat /\ srvSent \in Nat
  BY DEF TypeOK
<1>2. CASE Grows
  BY <1>2 DEF Grows, RA!Grow, vars
<1>3. CASE GrowFails
  BY <1>3 DEF GrowFails, RA!GrowFails, ReadExits, Reading, Client, Next
<1>4. ASSUME NEW n \in 1..(AddSize - 1), Takes(n) PROVE Next
  <2>1. n \in Nat /\ n >= 1 /\ got + n <= srvSent /\ got' = got + n /\ answer' = answer
    BY <1>4, GrowthAssumption DEF Takes, RA!Recv
  <2>2. got < srvSent /\ got' \in (got + 1)..srvSent
    BY <1>1, <2>1
  <2>3. Recv
    BY <1>4, <2>1, <2>2 DEF Takes, Recv
  <2>4. QED
    BY <2>3 DEF Reading, Client, Next
<1>5. CASE AnswersBuffer
  <2>1. RecvEof
    BY <1>5 DEF AnswersBuffer, RA!RecvEof, RA!RecvAnswersZero, peer, RecvEof
  <2>2. QED
    BY <2>1 DEF Reading, Client, Next
<1>6. CASE AnswersNull
  <2>1. RecvError
    BY <1>6 DEF AnswersNull, RA!RecvError, peer, RecvError
  <2>2. QED
    BY <2>1 DEF Reading, Client, Next
<1>7. CASE UNCHANGED allVars
  BY <1>7 DEF allVars
<1>8. QED
  BY <1>2, <1>3, <1>4, <1>5, <1>6, <1>7, OutsideStep DEF ReadsNext

(* Steps outside the reading stage take no byte.                           *)
LEMMA OutsideKeepsCount == (Caller \/ Environment) => got' = got
  BY DEF Caller, Environment, Stat, BuildGet, BuildPost, BuildPostFile, Build, Open, Connect,
     ConnectFails, Send, HeadWritten, BodyWritten, Restat, Fopen, Fread, NextBlock, BlockWritten,
     FileEnd, RequestSent, Terminate, Close, ParseReply, ServerRead, ServerReply, ServerSend,
     ServerClose, LinkLost, FileChange, reading

(* Growing keeps the bytes, and a recv adds the next ones after them.      *)
LEMMA BufferStep == ASSUME TypeOK, BufferInv, [ReadsNext]_allVars PROVE BufferInv'
<1> USE GrowthAssumption DEF BufferInv
<1>1. got \in Nat /\ srvSent \in Nat
  BY DEF TypeOK
<1>2. CASE Grows
  <2>1. UNCHANGED <<got, taken>> /\ recvsize' = AddSize - 1 /\ allocsize' = allocsize + AddSize
        /\ rpc = "grow" /\ rpc' = "recv" /\ pos' = [block |-> block', off |-> got]
    BY <1>2 DEF Grows, RA!Grow
  <2>2. buffer' = [i \in 0..(allocsize' - 1) |-> IF i < allocsize THEN buffer[i] ELSE 0]
    BY <1>2 DEF Grows, RA!Grow
  <2>3. \A i \in 0..(got' - 1) : i < allocsize /\ i \in 0..(allocsize' - 1)
    BY <1>1, <2>1
  <2>4. allocsize' \in Nat /\ recvsize' \in Nat /\ got' + recvsize' <= allocsize'
    BY <1>1, <2>1
  <2>5. buffer' \in [0..(allocsize' - 1) -> Nat]
    BY <2>1, <2>2
  <2>6. \A i \in 0..(got' - 1) : buffer'[i] = i + 1
    BY <2>1, <2>2, <2>3
  <2>7. QED
    BY <2>1, <2>4, <2>5, <2>6
<1>3. ASSUME NEW n \in 1..(AddSize - 1), Takes(n) PROVE BufferInv'
  <2>1. /\ n \in 1..recvsize /\ rpc = "recv" /\ got' = got + n /\ taken' = taken + n
        /\ recvsize' = recvsize - n /\ allocsize' = allocsize
        /\ rpc' = IF recvsize' = 0 THEN "grow" ELSE "recv"
    BY <1>3 DEF Takes, RA!Recv
  <2>2. pos' = [pos EXCEPT !.off = @ + n] /\ pos.off = got /\ buffer' = RA!Written(got, n)
    BY <1>3 DEF Takes, RA!Recv
  <2>3. rpc' = "recv" => pos'.off = got'
    BY <2>1, <2>2
  <2>4. buffer' = [i \in 0..(allocsize - 1) |->
                     IF i \in got..(got + n - 1) THEN taken + (i - got) + 1 ELSE buffer[i]]
    BY <2>2 DEF RA!Written
  <2>5. \A i \in 0..(got' - 1) : i \in 0..(allocsize - 1) /\ (i \in 0..(got - 1) \/ i \in got..(got + n - 1))
    BY <1>1, <2>1
  <2>6. \A i \in got..(got + n - 1) : taken + (i - got) + 1 = i + 1
    BY <1>1
  <2>7. \A i \in 0..(got' - 1) : buffer'[i] = i + 1
    BY <2>4, <2>5, <2>6
  <2>8. buffer' \in [0..(allocsize - 1) -> Nat]
    BY <1>1, <2>4, <2>6
  <2>9. /\ taken' = got' /\ recvsize' \in Nat /\ got' + recvsize' <= allocsize'
        /\ rpc' = "grow" => recvsize' = 0
    BY <1>1, <2>1
  <2>10. QED
    BY <2>1, <2>3, <2>7, <2>8, <2>9
<1>4. CASE GrowFails \/ AnswersBuffer \/ AnswersNull
  BY <1>4 DEF GrowFails, AnswersBuffer, AnswersNull, RA!GrowFails, RA!RecvEof, RA!RecvError
<1>5. CASE (Caller \/ Environment) /\ UNCHANGED reader
  BY <1>5, OutsideKeepsCount DEF reader
<1>6. CASE UNCHANGED allVars
  BY <1>6 DEF allVars, vars, reading, reader
<1>7. QED
  BY <1>2, <1>3, <1>4, <1>5, <1>6 DEF ReadsNext

(* Only parsing gives a result, and nothing is read after it.              *)
LEMMA ResultStep == ASSUME IInv, ResultInv, [Next]_vars PROVE ResultInv'
<1>1. CASE ParseReply
  BY <1>1 DEF ParseReply, Parsed, ResultInv
<1>2. CASE Reading
  <2>1. pc = "read" /\ result' = result
    BY <1>2 DEF Reading, Recv, RecvEof, RecvError, ReadExits, reading
  <2>2. QED
    BY <2>1 DEF IInv, ReplyInv, ResultInv
<1>3. CASE (Caller \/ Environment) /\ ~ ParseReply
  <2>1. result' = result
    BY <1>3 DEF Caller, Environment, Stat, BuildGet, BuildPost, BuildPostFile, Build, Open, Connect,
       ConnectFails, Send, HeadWritten, BodyWritten, Restat, Fopen, Fread, NextBlock, BlockWritten,
       FileEnd, RequestSent, Terminate, Close, ServerRead, ServerReply, ServerSend,
       ServerClose, LinkLost, FileChange, reading
  <2>2. got' = got
    BY <1>3, OutsideKeepsCount
  <2>3. QED
    BY <2>1, <2>2 DEF ResultInv
<1>4. CASE UNCHANGED vars
  BY <1>4 DEF vars, reading, ResultInv
<1>5. QED
  BY <1>1, <1>2, <1>3, <1>4 DEF Next, Client

(* ReadsInv holds throughout a call that reads with ReadAlloc.             *)
LEMMA ReadsInvariance == ReadsSpec => []ReadsInv
<1>1. ReadsInit => ReadsInv
  BY InitInv DEF ReadsInit, RA!Init, Init, ReadsInv, BufferInv, ResultInv
<1>2. ReadsInv /\ [ReadsNext]_allVars => ReadsInv'
  <2> SUFFICES ASSUME ReadsInv, [ReadsNext]_allVars PROVE ReadsInv'
    OBVIOUS
  <2>1. TypeOK /\ taken = got
    BY DEF ReadsInv, IInv, BufferInv
  <2>2. [Next]_vars
    BY <2>1, ReadsStep
  <2>3. QED
    BY <2>1, <2>2, NextInv, BufferStep, ResultStep DEF ReadsInv
<1>3. QED
  BY <1>1, <1>2, PTL DEF ReadsSpec

(* A call that reads with socket_read_alloc, step by step and with the     *)
(* counters of its growing buffer, is a call of HttpExchange, so the       *)
(* theorems above hold of it.                                              *)
THEOREM ReadsImplementExchange == ReadsSpec => ImplementsExchange
<1>1. ReadsInit => Init
  BY DEF ReadsInit
<1>2. ReadsInv /\ [ReadsNext]_allVars => [Next]_vars
  BY ReadsStep DEF ReadsInv, IInv, BufferInv
<1>3. QED
  BY <1>1, <1>2, ReadsInvariance, PTL DEF ReadsSpec, Spec, ImplementsExchange

(* The bytes it returns are those of the body, in order, whatever the size *)
(* of the blocks the buffer grows by.                                      *)
THEOREM ContentIsOfBody == ReadsSpec => []ContentIsBody
<1>1. ReadsInv => ContentIsBody
  <2> SUFFICES ASSUME ReadsInv, result # NULL, NEW i \in 1..result
               PROVE  buffer[(got - result) + (i - 1)] = ReplyHead + i
    BY DEF ContentIsBody
  <2>1. got \in Nat /\ ReplyHead \in Nat /\ result = got - ReplyHead /\ ReplyHead < got
    BY ReplyAssumption DEF ReadsInv, IInv, TypeOK, ResultInv
  <2>2. (got - result) + (i - 1) = ReplyHead + i - 1 /\ ReplyHead + i - 1 \in 0..(got - 1)
    BY <2>1
  <2>3. \A j \in 0..(got - 1) : buffer[j] = j + 1
    BY DEF ReadsInv, BufferInv
  <2>4. buffer[ReplyHead + i - 1] = ReplyHead + i - 1 + 1
    BY <2>2, <2>3
  <2>5. QED
    BY <2>1, <2>2, <2>4
<1>2. QED
  BY <1>1, ReadsInvariance, PTL

=============================================================================
