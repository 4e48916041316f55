---------------------------- MODULE Sha1Context ----------------------------
(***************************************************************************)
(* The streaming side of sha1.c: a context fed by any sequence of          *)
(* SHA1Reset, SHA1Input and SHA1Result calls.  The compression function is *)
(* not computed: Intermediate_Hash is represented by the octets that have  *)
(* been through it, so two digests are equal exactly when the same padded  *)
(* message was hashed.                                                     *)
(***************************************************************************)
EXTENDS Naturals, Sequences

CONSTANTS
  BlockLen,    \* octets of a block (64)
  LengthLen,   \* octets of the length field of the last block (8)
  LowMod,      \* Length_Low wraps here (2^32), a multiple of 8
  HighMod,     \* Length_High wraps here (2^32)
  MaxFed,      \* bound on the octets of a message
  MaxChunk     \* bound on the octets of one SHA1Input

ASSUME BlockAssumption == BlockLen \in Nat /\ LengthLen \in 1..(BlockLen - 1)
ASSUME LengthAssumption ==
  LowMod \in Nat \ {0} /\ LowMod % 8 = 0 /\ HighMod \in Nat \ {0}
ASSUME BoundsAssumption == MaxFed \in Nat /\ MaxChunk \in Nat

shaSuccess      == 0
shaNull         == 1
shaInputTooLong == 2
shaStateError   == 3

VARIABLES
  hashed,     \* the octets SHA1ProcessMessageBlock has taken
  block,      \* Message_Block
  index,      \* Message_Block_Index
  low, high,  \* Length_Low, Length_High: the length in bits
  computed,   \* Computed
  corrupted,  \* Corrupted
  length,     \* octets SHA1Input has still to take
  pc,         \* "ready" between calls, "input" in the loop of SHA1Input
  res,        \* what the last call returned
  fed,        \* octets of the message taken since SHA1Reset
  digest      \* what the last SHA1Result gave, <<>> for none since SHA1Reset

context == <<hashed, block, index, low, high, computed, corrupted>>
vars    == <<context, length, pc, res, fed, digest>>

(* Octets: the i-th of the message, the 0x80 that follows it, a zero, and  *)
(* an octet of the length field.                                           *)
Msg(i) == <<"msg", i>>
Mark   == <<"0x80", 0>>
Zero   == <<"zero", 0>>
Bits(n) == <<"bits", n>>

Repeat(octet, n) == [i \in 1..n |-> octet]
Message(n)       == [i \in 1..n |-> Msg(i)]

(* The first n octets of a block.                                          *)
Front(b, n) == [i \in 1..n |-> b[i - 1]]

EmptyBlock == [i \in 0..(BlockLen - 1) |-> Zero]

Init ==
  /\ hashed = <<>>
  /\ block = EmptyBlock
  /\ index = 0
  /\ low = 0
  /\ high = 0
  /\ computed = FALSE
  /\ corrupted = shaSuccess
  /\ length = 0
  /\ pc = "ready"
  /\ res = shaSuccess
  /\ fed = 0
  /\ digest = <<>>

-----------------------------------------------------------------------------
SHA1ResetKeepsIndex ==
  /\ pc = "ready"
  /\ hashed' = <<>>
  /\ low' = 0
  /\ high' = 0
  /\ computed' = FALSE
  /\ corrupted' = shaSuccess
  /\ res' = shaSuccess
  /\ fed' = 0
  /\ digest' = <<>>
  /\ UNCHANGED <<block, index, length, pc>>

(* Everything but the octets of the block.                                 *)
SHA1Reset ==
  /\ pc = "ready"
  /\ hashed' = <<>>
  /\ index' = 0
  /\ low' = 0
  /\ high' = 0
  /\ computed' = FALSE
  /\ corrupted' = shaSuccess
  /\ res' = shaSuccess
  /\ fed' = 0
  /\ digest' = <<>>
  /\ UNCHANGED <<block, length, pc>>

(* Nothing to take: success, in any state.                                 *)
SHA1InputNothing ==
  /\ pc = "ready"
  /\ res' = shaSuccess
  /\ UNCHANGED <<context, length, pc, fed, digest>>

SHA1InputNull ==
  /\ pc = "ready"
  /\ res' = shaNull
  /\ UNCHANGED <<context, length, pc, fed, digest>>

(* SHA1Input of n octets, up to its loop.                                  *)
SHA1Input(n) ==
  /\ pc = "ready"
  /\ IF computed
       THEN corrupted' = shaStateError /\ res' = shaStateError /\ UNCHANGED <<pc, length>>
       ELSE IF corrupted # shaSuccess
         THEN res' = corrupted /\ UNCHANGED <<corrupted, pc, length>>
         ELSE pc' = "input" /\ length' = n /\ UNCHANGED <<corrupted, res>>
  /\ UNCHANGED <<hashed, block, index, low, high, computed, fed, digest>>

(* The length grows by eight bits and carries; too long corrupts.          *)
CountForgetsOverflow ==
  /\ low' = (low + 8) % LowMod
  /\ high' = IF low' = 0 THEN (high + 1) % HighMod ELSE high
  /\ corrupted' = corrupted

Count ==
  /\ low' = (low + 8) % LowMod
  /\ high' = IF low' = 0 THEN (high + 1) % HighMod ELSE high
  /\ corrupted' = IF low' = 0 /\ high' = 0 THEN shaNull ELSE corrupted

(* The block goes through the compression function, 64 octets at a time.   *)
ProcessMessageBlock(b) == hashed \o Front(b, BlockLen)

InputOctetPastBlock ==
  /\ pc = "input"
  /\ length > 0 /\ corrupted = shaSuccess
  /\ Count
  /\ block' = [block EXCEPT ![index] = Msg(fed + 1)]
  /\ IF index + 1 > BlockLen
       THEN hashed' = ProcessMessageBlock(block') /\ index' = 0
       ELSE index' = index + 1 /\ UNCHANGED hashed
  /\ fed' = fed + 1
  /\ length' = length - 1
  /\ UNCHANGED <<computed, pc, res, digest>>

(* One pass of the loop of SHA1Input.                                      *)
InputOctet ==
  /\ pc = "input"
  /\ length > 0 /\ corrupted = shaSuccess
  /\ Count
  /\ block' = [block EXCEPT ![index] = Msg(fed + 1)]
  /\ IF index + 1 = BlockLen
       THEN hashed' = ProcessMessageBlock(block') /\ index' = 0
       ELSE index' = index + 1 /\ UNCHANGED hashed
  /\ fed' = fed + 1
  /\ length' = length - 1
  /\ UNCHANGED <<computed, pc, res, digest>>

(* SHA1Input returns success, also when the last octet was one too many.   *)
InputReturns ==
  /\ pc = "input"
  /\ length = 0 \/ corrupted # shaSuccess
  /\ pc' = "ready"
  /\ length' = 0
  /\ res' = shaSuccess
  /\ UNCHANGED <<context, fed, digest>>

(* SHA1PadMessage: the octets of the last block or two, the length in the  *)
(* last LengthLen of them.                                                 *)
PaddedTailOffByOne ==
  LET held == Front(block, index) \o <<Mark>>
      room == BlockLen - LengthLen
      size == Repeat(Bits(high * LowMod + low), LengthLen) IN
  IF index > room
    THEN held \o Repeat(Zero, BlockLen - index - 1) \o Repeat(Zero, room) \o size
    ELSE held \o Repeat(Zero, room - index - 1) \o size

PaddedTail ==
  LET held == Front(block, index) \o <<Mark>>
      room == BlockLen - LengthLen
      size == Repeat(Bits(high * LowMod + low), LengthLen) IN
  IF index > room - 1
    THEN held \o Repeat(Zero, BlockLen - index - 1) \o Repeat(Zero, room) \o size
    ELSE held \o Repeat(Zero, room - index - 1) \o size

ResultPadsAgain ==
  /\ pc = "ready"
  /\ IF corrupted # shaSuccess
       THEN res' = corrupted /\ UNCHANGED <<context, digest>>
       ELSE /\ hashed' = hashed \o PaddedTail
            /\ block' = EmptyBlock
            /\ index' = 0
            /\ low' = 0
            /\ high' = 0
            /\ computed' = TRUE
            /\ digest' = hashed'
            /\ res' = shaSuccess
            /\ UNCHANGED corrupted
  /\ UNCHANGED <<length, pc, fed>>

(* SHA1Result pads and clears on the first call, and only copies the       *)
(* digest on later ones.                                                   *)
SHA1Result ==
  /\ pc = "ready"
  /\ IF corrupted # shaSuccess
       THEN res' = corrupted /\ UNCHANGED <<context, digest>>
       ELSE /\ IF computed
                 THEN UNCHANGED context
                 ELSE /\ hashed' = hashed \o PaddedTail
                      /\ block' = EmptyBlock
                      /\ index' = 0
                      /\ low' = 0
                      /\ high' = 0
                      /\ computed' = TRUE
                      /\ UNCHANGED corrupted
            /\ digest' = hashed'
            /\ res' = shaSuccess
  /\ UNCHANGED <<length, pc, fed>>

Next ==
  \/ SHA1Reset
  \/ SHA1InputNothing
  \/ SHA1InputNull
  \/ \E n \in 1..MaxChunk : fed + n <= MaxFed /\ SHA1Input(n)
  \/ InputOctet
  \/ InputReturns
  \/ SHA1Result

Spec == Init /\ [][Next]_vars

-----------------------------------------------------------------------------
Octets == {Msg(i) : i \in 1..MaxFed} \cup {Mark, Zero}
            \cup {Bits(n) : n \in 0..(LowMod * HighMod)}

(* Each variable holds a value of its type; the index is inside the block  *)
(* whenever an octet may be written there.                                 *)
TypeOK ==
  /\ hashed \in Seq(Octets)
  /\ block \in [0..(BlockLen - 1) -> Octets]
  /\ index \in 0..(BlockLen - 1)
  /\ low \in 0..(LowMod - 1)
  /\ high \in 0..(HighMod - 1)
  /\ computed \in BOOLEAN
  /\ corrupted \in {shaSuccess, shaNull, shaInputTooLong, shaStateError}
  /\ length \in 0..MaxChunk
  /\ pc \in {"ready", "input"}
  /\ res \in {shaSuccess, shaNull, shaInputTooLong, shaStateError}
  /\ fed \in 0..MaxFed
  /\ digest \in Seq(Octets)

(* Until the digest is computed, what has been hashed and what waits in    *)
(* the block are together the message so far, however it was cut into      *)
(* calls of SHA1Input, and whatever the block held before the SHA1Reset.   *)
ChunksAreTheMessage ==
  ~ computed => hashed \o Front(block, index) = Message(fed)

(* The message, 0x80, the fewest zeros that fill a block together with the *)
(* length field, and the length of the message in bits (sha1.c:297-304).   *)
Padded(n) ==
  LET zeros == CHOOSE k \in 0..(BlockLen - 1) : (n + 1 + k + LengthLen) % BlockLen = 0 IN
  Message(n) \o <<Mark>> \o Repeat(Zero, zeros) \o Repeat(Bits(8 * n), LengthLen)

(* A digest that is given, first or again, is that of the message fed,     *)
(* padded as the standard says, at every length around the block boundary. *)
DigestOfPaddedMessage == digest # <<>> => digest = Padded(fed)

(* A message too long for the two length words never yields a digest.      *)
OverlongNeverDigested == 8 * fed >= LowMod * HighMod => digest = <<>>

(* A call that reports success after SHA1Result leaves the digest as it    *)
(* was, until SHA1Reset: no sequence of further calls alters it.           *)
DigestStays == [][digest # <<>> => digest' \in {digest, <<>>}]_vars

=============================================================================
