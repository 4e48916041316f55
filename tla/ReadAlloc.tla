----------------------------- MODULE ReadAlloc -----------------------------
(***************************************************************************)
(* socket_read_alloc (new_socket.c): read from a connected socket into a   *)
(* buffer that grows by AddSize bytes at a time, until the peer ends the   *)
(* connection.  Every realloc may move the buffer, so a pointer into it    *)
(* carries the number of the block it points into.  The buffer holds       *)
(* stream positions: byte number i of the stream is the number i, an       *)
(* uninitialised byte is 0.                                                *)
(***************************************************************************)
EXTENDS Naturals

CONSTANTS
  AddSize,    \* const size_t addsize (2048 in the code)
  MaxStream   \* bound on the bytes the peer sends

ASSUME AddSizeAssumption == AddSize \in Nat \ {0, 1}
ASSUME MaxStreamAssumption == MaxStream \in Nat

VARIABLES
  pc,         \* "grow": head of for(;;), "recv": the inner loop, "returned", "exited"
  buffer,     \* bytes of the current allocation, [0..allocsize-1 -> 0..MaxStream]
  block,      \* number of the current allocation, 0 before the first
  allocsize,
  recvsize,   \* bytes the next recv may still write
  sumsize,
  pos,        \* [block, off]: where the next recv writes
  ret,        \* what was returned: "none", "buffer" or "null"
  readsize,   \* *readsize
  arrived,    \* bytes the peer has sent so far
  taken,      \* bytes the kernel has handed to recv so far
  peer        \* "open", "fin" or "reset"

code == <<pc, buffer, block, allocsize, recvsize, sumsize, pos, ret, readsize>>
net  == <<arrived, peer>>
vars == <<code, taken, net>>

Init ==
  /\ pc = "grow"
  /\ allocsize = 0
  /\ buffer = [i \in 0..(allocsize - 1) |-> 0]
  /\ block = 0
  /\ recvsize = 0
  /\ sumsize = 0
  /\ pos = [block |-> 0, off |-> 0]
  /\ ret = "none"
  /\ readsize = 0
  /\ arrived = 0
  /\ taken = 0
  /\ peer = "open"

-----------------------------------------------------------------------------
(* The bytes of the buffer after recv has written the next n bytes of the  *)
(* stream at offset off.                                                   *)
Written(off, n) ==
  [i \in DOMAIN buffer |->
     IF i \in off..(off + n - 1) THEN taken + (i - off) + 1 ELSE buffer[i]]

GrowWithoutRepointing ==
  /\ pc = "grow"
  /\ allocsize' = allocsize + AddSize
  /\ block' = block + 1
  /\ buffer' = [i \in 0..(allocsize' - 1) |-> IF i < allocsize THEN buffer[i] ELSE 0]
  /\ pos' = [block |-> IF block = 0 THEN 1 ELSE pos.block, off |-> sumsize]
  /\ recvsize' = AddSize - 1
  /\ pc' = "recv"
  /\ UNCHANGED <<sumsize, ret, readsize, taken, net>>

GrowToTheBrim ==
  /\ pc = "grow"
  /\ allocsize' = allocsize + AddSize
  /\ block' = block + 1
  /\ buffer' = [i \in 0..(allocsize' - 1) |-> IF i < allocsize THEN buffer[i] ELSE 0]
  /\ pos' = [block |-> block', off |-> sumsize]
  /\ recvsize' = AddSize
  /\ pc' = "recv"
  /\ UNCHANGED <<sumsize, ret, readsize, taken, net>>

GrowKeepsNoByteBack ==
  /\ pc = "grow"
  /\ allocsize' = allocsize + AddSize - 1
  /\ block' = block + 1
  /\ buffer' = [i \in 0..(allocsize' - 1) |-> IF i < allocsize THEN buffer[i] ELSE 0]
  /\ pos' = [block |-> block', off |-> sumsize]
  /\ recvsize' = AddSize
  /\ pc' = "recv"
  /\ UNCHANGED <<sumsize, ret, readsize, taken, net>>

GrowRewinds ==
  /\ pc = "grow"
  /\ allocsize' = allocsize + AddSize
  /\ block' = block + 1
  /\ buffer' = [i \in 0..(allocsize' - 1) |-> IF i < allocsize THEN buffer[i] ELSE 0]
  /\ pos' = [block |-> block', off |-> 0]
  /\ recvsize' = AddSize - 1
  /\ pc' = "recv"
  /\ UNCHANGED <<sumsize, ret, readsize, taken, net>>

(* One pass of the outer loop: the buffer grows by AddSize, pos is         *)
(* computed anew from sumsize, and one byte of the block is kept back.     *)
Grow ==
  /\ pc = "grow"
  /\ allocsize' = allocsize + AddSize
  /\ block' = block + 1
  /\ buffer' = [i \in 0..(allocsize' - 1) |-> IF i < allocsize THEN buffer[i] ELSE 0]
  /\ pos' = [block |-> block', off |-> sumsize]
  /\ recvsize' = AddSize - 1
  /\ pc' = "recv"
  /\ UNCHANGED <<sumsize, ret, readsize, taken, net>>

(* xrealloc found no memory: xmalloc_fatal ends the process.               *)
GrowFails ==
  /\ pc = "grow"
  /\ pc' = "exited"
  /\ UNCHANGED <<buffer, block, allocsize, recvsize, sumsize, pos, ret, readsize, taken, net>>

(* recv answers n > 0 bytes; the inner loop ends when the block is full.   *)
RecvKeepsSum(n) ==
  /\ pc = "recv"
  /\ n \in 1..recvsize
  /\ taken + n <= arrived
  /\ buffer' = Written(pos.off, n)
  /\ taken' = taken + n
  /\ pos' = [pos EXCEPT !.off = @ + n]
  /\ recvsize' = recvsize - n
  /\ sumsize' = IF recvsize' = 0 THEN sumsize + n ELSE sumsize
  /\ pc' = IF recvsize' = 0 THEN "grow" ELSE "recv"
  /\ UNCHANGED <<block, allocsize, ret, readsize, net>>

Recv(n) ==
  /\ pc = "recv"
  /\ n \in 1..recvsize
  /\ taken + n <= arrived
  /\ buffer' = Written(pos.off, n)
  /\ taken' = taken + n
  /\ pos' = [pos EXCEPT !.off = @ + n]
  /\ recvsize' = recvsize - n
  /\ sumsize' = sumsize + n
  /\ pc' = IF recvsize' = 0 THEN "grow" ELSE "recv"
  /\ UNCHANGED <<block, allocsize, ret, readsize, net>>

(* recv answers 0: at the end of the stream, or on a failed connection     *)
(* whose error an earlier send has already reported.                       *)
RecvAnswersZero == (peer = "fin" /\ taken = arrived) \/ peer = "reset"

RecvIgnoresEof ==
  /\ pc = "recv"
  /\ RecvAnswersZero
  /\ UNCHANGED vars

RecvEof ==
  /\ pc = "recv"
  /\ RecvAnswersZero
  /\ readsize' = sumsize
  /\ ret' = "buffer"
  /\ pc' = "returned"
  /\ UNCHANGED <<buffer, block, allocsize, recvsize, sumsize, pos, taken, net>>

(* recv answers -1: the buffer is freed and NULL returned.                 *)
RecvError ==
  /\ pc = "recv"
  /\ peer = "reset"
  /\ readsize' = 0
  /\ ret' = "null"
  /\ pc' = "returned"
  /\ UNCHANGED <<buffer, block, allocsize, recvsize, sumsize, pos, taken, net>>

-----------------------------------------------------------------------------
(* The peer: sends, then finishes; the connection may fail at any time.    *)
PeerSends(n) ==
  /\ peer = "open"
  /\ n >= 1
  /\ arrived + n <= MaxStream
  /\ arrived' = arrived + n
  /\ UNCHANGED <<code, taken, peer>>

PeerEnds ==
  /\ peer \in {"open", "fin"}
  /\ peer' \in {"fin", "reset"} \ {peer}
  /\ UNCHANGED <<code, taken, arrived>>

Reader ==
  \/ Grow
  \/ GrowFails
  \/ \E n \in 1..(AddSize - 1) : Recv(n)
  \/ RecvEof
  \/ RecvError

Peer == PeerEnds \/ \E n \in 1..MaxStream : PeerSends(n)

Next == Reader \/ Peer

Spec == Init /\ [][Next]_vars

(* The reader is one thread of control; nothing is assumed of the peer.    *)
FairSpec == Spec /\ WF_vars(Reader)

-----------------------------------------------------------------------------
(* Each variable holds a value of its C type, within the bounds.           *)
TypeOK ==
  /\ pc \in {"grow", "recv", "returned", "exited"}
  /\ allocsize \in Nat
  /\ buffer \in [0..(allocsize - 1) -> Nat]
  /\ block \in Nat
  /\ recvsize \in 0..(AddSize - 1)
  /\ sumsize \in Nat
  /\ pos \in [block : Nat, off : Nat]
  /\ ret \in {"none", "buffer", "null"}
  /\ readsize \in Nat
  /\ arrived \in 0..MaxStream
  /\ taken \in 0..arrived
  /\ peer \in {"open", "fin", "reset"}

(* recv is always given a pointer into the live block, and room for every  *)
(* byte it may write, although realloc moves the block between passes      *)
(* (new_socket.c:197-202).                                                 *)
RecvStaysInBlock ==
  pc = "recv" =>
    /\ pos.block = block
    /\ recvsize >= 1
    /\ pos.off + recvsize <= allocsize

(* A returned buffer has room for one byte more than *readsize, so the     *)
(* callers' response[response_size] = '\0' (new_socket.c:529, 602, 679)    *)
(* stays inside it whatever the length of the stream.                      *)
RoomForTerminator == ret = "buffer" => readsize < allocsize

(* A returned buffer holds, in its first *readsize bytes, exactly the      *)
(* bytes recv delivered, in stream order, across every realloc and short   *)
(* read.                                                                   *)
BufferIsTheStream ==
  ret = "buffer" =>
    /\ readsize = taken
    /\ \A i \in 0..(readsize - 1) : buffer[i] = i + 1

(* Once the peer has finished or the connection has failed, the function   *)
(* returns (or the process exits for want of memory).                      *)
EndsWithThePeer == peer # "open" ~> pc \in {"returned", "exited"}

(* The promise stated in ReadAll, seen through these two functions of the  *)
(* state: what is returned is the peer's whole stream, and NULL is         *)
(* returned only when the connection failed.                               *)
content == [i \in 1..sumsize |-> buffer[i - 1]]

outcome == CASE ret = "buffer" -> "buffer"
             [] ret = "null" -> "null"
             [] ret = "none" -> IF pc = "exited" THEN "exited" ELSE "reading"

RA == INSTANCE ReadAll

ImplementsReadAll == RA!Spec

=============================================================================
