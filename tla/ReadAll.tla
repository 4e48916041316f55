------------------------------ MODULE ReadAll ------------------------------
(***************************************************************************)
(* What socket_read_alloc promises its callers: the bytes it has taken are *)
(* always the first bytes of the peer's stream, in order; it answers with  *)
(* a buffer when the peer has finished and every byte has been taken, and  *)
(* with NULL only when the connection failed.  Byte number i of the stream *)
(* is represented by the number i, so a lost, repeated or reordered byte   *)
(* shows in content.                                                       *)
(***************************************************************************)
EXTENDS Naturals

CONSTANT MaxStream   \* bound on the bytes the peer sends, a natural number

VARIABLES
  arrived,   \* bytes the peer has sent so far
  peer,      \* the peer's end: "open", "fin" (finished) or "reset" (failed)
  content,   \* the bytes taken so far, a function on 1..k
  outcome    \* "reading", "buffer", "null", or "exited" (out of memory)

vars == <<arrived, peer, content, outcome>>

Prefix(k) == [i \in 1..k |-> i]

Init ==
  /\ arrived = 0
  /\ peer = "open"
  /\ content = Prefix(0)
  /\ outcome = "reading"

(* The peer's side of the connection.                                      *)
PeerSends(n) ==
  /\ peer = "open"
  /\ n >= 1
  /\ arrived + n <= MaxStream
  /\ arrived' = arrived + n
  /\ UNCHANGED <<peer, content, outcome>>

PeerEnds ==
  /\ peer \in {"open", "fin"}
  /\ peer' \in {"fin", "reset"} \ {peer}
  /\ UNCHANGED <<arrived, content, outcome>>

(* Some more of the stream is taken.                                       *)
Take ==
  /\ outcome = "reading"
  /\ \E j \in 0..arrived : \E k \in (j + 1)..arrived :
        /\ content = Prefix(j)
        /\ content' = Prefix(k)
  /\ UNCHANGED <<arrived, peer, outcome>>

(* A buffer is returned: it is the whole stream, unless the connection was *)
(* reset (recv may answer 0 once a failed send has consumed the error).    *)
ReturnBuffer ==
  /\ outcome = "reading"
  /\ \/ peer = "fin" /\ content = Prefix(arrived)
     \/ peer = "reset"
  /\ outcome' = "buffer"
  /\ UNCHANGED <<arrived, peer, content>>

ReturnNull ==
  /\ outcome = "reading"
  /\ peer = "reset"
  /\ outcome' = "null"
  /\ UNCHANGED <<arrived, peer, content>>

Exit ==
  /\ outcome = "reading"
  /\ outcome' = "exited"
  /\ UNCHANGED <<arrived, peer, content>>

Next ==
  \/ \E n \in 1..MaxStream : PeerSends(n)
  \/ PeerEnds
  \/ Take
  \/ ReturnBuffer
  \/ ReturnNull
  \/ Exit

Spec == Init /\ [][Next]_vars

=============================================================================
