----------------------------- MODULE ExchangeReads ----------------------------
(***************************************************************************)
(* A call of the HTTP client whose reading stage is socket_read_alloc step *)
(* by step: HttpExchange with its actions Recv, RecvEof, RecvError and     *)
(* ReadExits replaced by the actions of ReadAlloc, which take the reply as *)
(* it arrives, meanwhile the server goes on sending or the connection      *)
(* fails.  The stream that ReadAlloc reads is the reply.                   *)
(***************************************************************************)
EXTENDS HttpExchange

CONSTANT AddSize   \* const size_t addsize of socket_read_alloc

ASSUME GrowthAssumption == AddSize \in Nat \ {0, 1}

VARIABLES
  rpc,         \* where socket_read_alloc is: the pc of ReadAlloc
  buffer, block, allocsize, recvsize, pos, readsize, taken   \* see ReadAlloc

reader  == <<rpc, buffer, block, allocsize, recvsize, pos, readsize, taken>>
allVars == <<vars, reader>>

(* The connection as ReadAlloc sees it.                                    *)
peer == IF link \in {"fin", "reset"} THEN link ELSE "open"

RA == INSTANCE ReadAlloc WITH
        pc        <- rpc,
        sumsize   <- got,
        ret       <- answer,
        arrived   <- srvSent,
        MaxStream <- ReplyHead + MaxReplyBody

ReadsInit == Init /\ RA!Init

-----------------------------------------------------------------------------
(* What the caller has does not change while it reads.                     *)
InRead ==
  /\ pc = "read"
  /\ UNCHANGED <<call, sock, request, writing, result, env>>

Grows     == InRead /\ RA!Grow /\ UNCHANGED <<pc, heap>>
GrowFails == InRead /\ RA!GrowFails /\ pc' = "exited" /\ UNCHANGED heap

Takes(n) == InRead /\ RA!Recv(n) /\ UNCHANGED <<pc, heap>>

AnswersBuffer ==
  /\ InRead
  /\ RA!RecvEof
  /\ heap' = heap \cup {"response"}
  /\ pc' = "nul"

AnswersNull == InRead /\ RA!RecvError /\ pc' = "nul" /\ UNCHANGED heap

ReadsNext ==
  \/ Grows
  \/ GrowFails
  \/ \E n \in 1..(AddSize - 1) : Takes(n)
  \/ AnswersBuffer
  \/ AnswersNull
  \/ (Caller \/ Environment) /\ UNCHANGED reader

ReadsSpec == ReadsInit /\ [][ReadsNext]_allVars

-----------------------------------------------------------------------------
(* With socket_read_alloc in its place, the call is one of HttpExchange:   *)
(* whatever is said there of a call, its descriptor, its blocks and its    *)
(* result, holds of the code that reads into a growing buffer              *)
(* (new_socket.c:185-220 called from 528, 601 and 678).                    *)
ImplementsExchange == Spec

(* The bytes returned are the first of the body, in order: what recv put   *)
(* into the buffer over every growth, and the place where                  *)
(* parse_http_result finds the data in it, fit together                    *)
(* (new_socket.c:199-210, 430-459).                                        *)
ContentIsBody ==
  result # NULL =>
    \A i \in 1..result : buffer[(got - result) + (i - 1)] = ReplyHead + i
=============================================================================
