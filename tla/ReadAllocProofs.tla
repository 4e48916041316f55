-------------------------- MODULE ReadAllocProofs --------------------------
(***************************************************************************)
(* Proofs about socket_read_alloc, for every block size, every stream      *)
(* length and every way recv may split the stream.                         *)
(***************************************************************************)
EXTENDS ReadAlloc, TLAPS

(* The inductive invariant.  The heart of it is Slack: the allocation is   *)
(* always larger than the bytes held plus the bytes the next recv may      *)
(* write; each pass of the outer loop adds one more byte of slack.         *)
Slack == pc # "exited" /\ block # 0 => sumsize + recvsize < allocsize

IInv ==
  /\ TypeOK
  /\ sumsize = taken
  /\ \A i \in 0..(sumsize - 1) : buffer[i] = i + 1
  /\ block = 0 => sumsize = 0 /\ allocsize = 0 /\ pc \in {"grow", "exited"}
  /\ pc = "recv" => block # 0 /\ recvsize >= 1 /\ pos = [block |-> block, off |-> sumsize]
  /\ pc = "grow" => recvsize = 0
  /\ Slack
  /\ sumsize <= allocsize
  /\ (ret # "none") <=> (pc = "returned")
  /\ ret = "buffer" => readsize = sumsize /\ block # 0

(* IInv holds at the call of socket_read_alloc.                            *)
LEMMA InitInv == Init => IInv
  BY AddSizeAssumption, MaxStreamAssumption DEF Init, IInv, TypeOK, Slack

(* A pass of the outer loop (xrealloc and the new pos) keeps IInv.         *)
LEMMA GrowInv == IInv /\ Grow => IInv'
<1> SUFFICES ASSUME IInv, Grow PROVE IInv'
  OBVIOUS
<1> USE AddSizeAssumption, MaxStreamAssumption DEF IInv, TypeOK, Grow, net
<1>1. TypeOK'
  <2>1. buffer' \in [0..(allocsize' - 1) -> Nat]
    OBVIOUS
  <2>2. QED
    BY <2>1
<1>2. (\A i \in 0..(sumsize - 1) : buffer[i] = i + 1)'
  OBVIOUS
<1>3. Slack'
  BY DEF Slack
<1>4. QED
  BY <1>1, <1>2, <1>3

(* A recv of n bytes keeps IInv: it extends the prefix held by n bytes.    *)
LEMMA RecvInv == ASSUME IInv, NEW n \in 1..(AddSize - 1), Recv(n) PROVE IInv'
<1> USE AddSizeAssumption, MaxStreamAssumption DEF IInv, TypeOK, Recv, net
<1>1. pos.off = sumsize /\ sumsize + n < allocsize /\ n \in 1..recvsize
  BY DEF Slack
<1>2. buffer' = [i \in 0..(allocsize - 1) |->
                   IF i \in sumsize..(sumsize + n - 1) THEN sumsize + (i - sumsize) + 1
                                                      ELSE buffer[i]]
  BY <1>1 DEF Written
<1>3. (\A i \in 0..(sumsize - 1) : buffer[i] = i + 1)'
  <2> SUFFICES ASSUME NEW i \in 0..(sumsize + n - 1) PROVE buffer'[i] = i + 1
    OBVIOUS
  <2>1. CASE i \in sumsize..(sumsize + n - 1)
    BY <1>1, <1>2, <2>1
  <2>2. CASE i \in 0..(sumsize - 1)
    BY <1>1, <1>2, <2>2
  <2>3. QED
    BY <2>1, <2>2
<1>4. /\ pos' = [block |-> block, off |-> sumsize + n]
      /\ recvsize' \in 0..(AddSize - 1)
      /\ taken' \in 0..arrived
      /\ block' = block /\ allocsize' = allocsize /\ sumsize' = sumsize + n
      /\ recvsize' = recvsize - n
  <2>1. pos' = [block |-> block, off |-> sumsize + n]
    <3>1. pos = [block |-> block, off |-> sumsize] /\ pos' = [pos EXCEPT !.off = @ + n]
      OBVIOUS
    <3>2. QED
      BY ONLY <3>1
  <2>2. block' = block /\ allocsize' = allocsize /\ sumsize' = sumsize + n /\ recvsize' = recvsize - n
    OBVIOUS
  <2>3. recvsize' \in 0..(AddSize - 1)
    BY <1>1
  <2>4. taken' \in 0..arrived
    OBVIOUS
  <2>5. QED
    BY ONLY <2>1, <2>2, <2>3, <2>4
<1>5. TypeOK'
  <2>1. buffer' \in [0..(allocsize - 1) -> Nat]
    <3>1. sumsize \in Nat /\ allocsize \in Nat /\ buffer \in [0..(allocsize - 1) -> Nat]
      OBVIOUS
    <3>2. QED
      BY ONLY <1>2, <3>1
  <2>2. pos' \in [block : Nat, off : Nat]
    <3>1. block \in Nat /\ sumsize \in Nat /\ n \in Nat
      OBVIOUS
    <3>2. QED
      BY ONLY <1>4, <3>1
  <2>3. pc' \in {"grow", "recv", "returned", "exited"} /\ ret' = ret /\ readsize' = readsize
    OBVIOUS
  <2>4. arrived' = arrived /\ peer' = peer
    OBVIOUS
  <2>5. TypeOK
    OBVIOUS
  <2>6. sumsize' \in Nat
    BY <1>1, <1>4
  <2>7. QED
    BY ONLY <1>4, <2>1, <2>2, <2>3, <2>4, <2>5, <2>6 DEF TypeOK
<1>6. Slack'
  BY <1>1 DEF Slack
<1>7. (pc = "recv" => block # 0 /\ recvsize >= 1 /\ pos = [block |-> block, off |-> sumsize])'
  BY <1>4
<1>8. (pc = "grow" => recvsize = 0)'
  BY <1>4
<1>9. (sumsize <= allocsize)' /\ sumsize' = taken' /\ block' # 0 /\ ret' = "none" /\ pc' # "returned"
  BY <1>1, <1>4
<1>10. QED
  BY <1>3, <1>5, <1>6, <1>7, <1>8, <1>9

(* Every step keeps IInv.                                                  *)
LEMMA NextInv == IInv /\ [Next]_vars => IInv'
<1> SUFFICES ASSUME IInv, [Next]_vars PROVE IInv'
  OBVIOUS
<1> USE AddSizeAssumption, MaxStreamAssumption DEF IInv, TypeOK, Slack, net, code
<1>1. CASE Grow
  BY <1>1, GrowInv
<1>2. CASE GrowFails
  BY <1>2 DEF GrowFails
<1>3. ASSUME NEW n \in 1..(AddSize - 1), Recv(n) PROVE IInv'
  BY <1>3, RecvInv
<1>4. CASE RecvEof
  BY <1>4 DEF RecvEof
<1>5. CASE RecvError
  BY <1>5 DEF RecvError
<1>6. CASE PeerEnds
  BY <1>6 DEF PeerEnds
<1>7. ASSUME NEW n \in 1..MaxStream, PeerSends(n) PROVE IInv'
  BY <1>7 DEF PeerSends
<1>8. CASE UNCHANGED vars
  BY <1>8 DEF vars
<1>9. QED
  BY <1>1, <1>2, <1>3, <1>4, <1>5, <1>6, <1>7, <1>8 DEF Next, Reader, Peer

(* IInv holds throughout a call of socket_read_alloc.                      *)
LEMMA Invariance == Spec => []IInv
  BY InitInv, NextInv, PTL DEF Spec

(* Type correctness of socket_read_alloc's variables.                      *)
THEOREM TypeCorrect == Spec => []TypeOK
<1>1. IInv => TypeOK
  BY DEF IInv
<1>2. QED
  BY <1>1, Invariance, PTL

(* recv never writes outside the live block (new_socket.c:197-202).        *)
THEOREM RecvIsSafe == Spec => []RecvStaysInBlock
<1>1. IInv => RecvStaysInBlock
  BY AddSizeAssumption DEF IInv, TypeOK, Slack, RecvStaysInBlock
<1>2. QED
  BY <1>1, Invariance, PTL

(* The callers' terminating NUL always fits (new_socket.c:529, 602, 679).  *)
THEOREM TerminatorFits == Spec => []RoomForTerminator
<1>1. IInv => RoomForTerminator
  BY AddSizeAssumption DEF IInv, TypeOK, Slack, RoomForTerminator
<1>2. QED
  BY <1>1, Invariance, PTL

(* The buffer returned is what was received, in order.                     *)
THEOREM ReturnsTheStream == Spec => []BufferIsTheStream
<1>1. IInv => BufferIsTheStream
  BY DEF IInv, TypeOK, BufferIsTheStream
<1>2. QED
  BY <1>1, Invariance, PTL

-----------------------------------------------------------------------------
(* The bytes held are a prefix of the stream in every reachable state.     *)
LEMMA ContentIsPrefix == IInv => content = RA!Prefix(sumsize)
  BY DEF IInv, TypeOK, content, RA!Prefix

(* A step of socket_read_alloc is a step of its promise, or a stutter.     *)
LEMMA StepRefines == IInv /\ IInv' /\ [Next]_vars => [RA!Next]_RA!vars
<1> SUFFICES ASSUME IInv, IInv', [Next]_vars PROVE [RA!Next]_RA!vars
  OBVIOUS
<1> USE DEF net, code
<1>1. content = RA!Prefix(sumsize)
  BY ContentIsPrefix
<1>2. (content = RA!Prefix(sumsize))'
  BY ContentIsPrefix, PTL
<1>3. ret \in {"none", "buffer", "null"} /\ (ret # "none" <=> pc = "returned")
  BY DEF IInv, TypeOK
<1>4. sumsize \in Nat /\ arrived \in Nat /\ sumsize = taken /\ taken <= arrived
  BY MaxStreamAssumption DEF IInv, TypeOK
<1>5. sumsize' \in Nat
  BY DEF IInv, TypeOK
<1>6. CASE Grow
  <2>1. outcome' = outcome
    BY <1>3, <1>6 DEF Grow, outcome
  <2>2. content' = content
    BY <1>1, <1>2, <1>6 DEF Grow, RA!Prefix
  <2>3. QED
    BY <1>6, <2>1, <2>2 DEF Grow, RA!vars
<1>7. CASE GrowFails
  <2>1. outcome = "reading" /\ outcome' = "exited"
    BY <1>3, <1>7 DEF GrowFails, outcome
  <2>2. content' = content
    BY <1>1, <1>2, <1>7 DEF GrowFails, RA!Prefix
  <2>3. RA!Exit
    BY <1>7, <2>1, <2>2 DEF GrowFails, RA!Exit
  <2>4. QED
    BY <2>3 DEF RA!Next
<1>8. ASSUME NEW n \in 1..(AddSize - 1), Recv(n) PROVE RA!Next
  <2>1. outcome = "reading" /\ outcome' = outcome
    BY <1>3, <1>8 DEF Recv, outcome
  <2>2. sumsize' = sumsize + n /\ n \in Nat /\ n >= 1 /\ sumsize + n <= arrived
    BY <1>4, <1>8, AddSizeAssumption DEF Recv
  <2>3. sumsize \in 0..arrived /\ sumsize + n \in (sumsize + 1)..arrived
    BY <1>4, <2>2
  <2>4. content' = RA!Prefix(sumsize + n)
    BY <1>2, <2>2 DEF RA!Prefix
  <2>5. RA!Take
    BY <1>1, <1>8, <2>1, <2>3, <2>4 DEF Recv, RA!Take
  <2>6. QED
    BY <2>5 DEF RA!Next
<1>9. CASE RecvEof
  <2>1. outcome = "reading" /\ outcome' = "buffer"
    BY <1>3, <1>9 DEF RecvEof, outcome
  <2>2. content' = content
    BY <1>1, <1>2, <1>9 DEF RecvEof, RA!Prefix
  <2>3. (peer = "fin" /\ content = RA!Prefix(arrived)) \/ peer = "reset"
    BY <1>1, <1>4, <1>9 DEF RecvEof, RecvAnswersZero
  <2>4. RA!ReturnBuffer
    BY <1>9, <2>1, <2>2, <2>3 DEF RecvEof, RA!ReturnBuffer
  <2>5. QED
    BY <2>4 DEF RA!Next
<1>10. CASE RecvError
  <2>1. outcome = "reading" /\ outcome' = "null"
    BY <1>3, <1>10 DEF RecvError, outcome
  <2>2. content' = content
    BY <1>1, <1>2, <1>10 DEF RecvError, RA!Prefix
  <2>3. RA!ReturnNull
    BY <1>10, <2>1, <2>2 DEF RecvError, RA!ReturnNull
  <2>4. QED
    BY <2>3 DEF RA!Next
<1>11. CASE Peer
  <2>1. outcome' = outcome
    BY <1>11 DEF Peer, PeerEnds, PeerSends, outcome
  <2>2. content' = content
    BY <1>1, <1>2, <1>11 DEF Peer, PeerEnds, PeerSends, RA!Prefix
  <2>3. CASE PeerEnds
    BY <2>1, <2>2, <2>3 DEF PeerEnds, RA!PeerEnds, RA!Next
  <2>4. ASSUME NEW n \in 1..MaxStream, PeerSends(n) PROVE RA!Next
    BY <2>1, <2>2, <2>4 DEF PeerSends, RA!PeerSends, RA!Next
  <2>5. QED
    BY <1>11, <2>3, <2>4 DEF Peer
<1>12. CASE UNCHANGED vars
  <2>1. outcome' = outcome
    BY <1>12 DEF vars, outcome
  <2>2. content' = content
    BY <1>1, <1>2, <1>12 DEF vars, RA!Prefix
  <2>3. QED
    BY <1>12, <2>1, <2>2 DEF vars, RA!vars
<1>13. QED
  BY <1>6, <1>7, <1>8, <1>9, <1>10, <1>11, <1>12 DEF Next, Reader

(* socket_read_alloc implements ReadAll, for every block size, stream      *)
(* length and split of the stream into short reads.                        *)
THEOREM Refinement == Spec => ImplementsReadAll
<1>1. Init => RA!Init
  <2> SUFFICES ASSUME Init PROVE RA!Init
    OBVIOUS
  <2>1. content = RA!Prefix(0)
    BY InitInv, ContentIsPrefix DEF Init
  <2>2. outcome = "reading"
    BY DEF Init, outcome
  <2>3. QED
    BY <2>1, <2>2 DEF Init, RA!Init
<1>2. QED
  BY <1>1, Invariance, StepRefines, PTL DEF Spec, ImplementsReadAll, RA!Spec

=============================================================================
