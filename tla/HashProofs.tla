----------------------------- MODULE HashProofs -----------------------------
(***************************************************************************)
(* Proofs about SHA-1 and its clients.  First, a context of sha1.c keeps   *)
(* the message it is fed, for blocks and length words of every size: cut   *)
(* into calls in any way, across any sequence of resets and results, and   *)
(* past the overflow of the length.  Then, the functions of hash.c use a   *)
(* context as any program may, so that the same holds of theirs, and what  *)
(* they hash is what they promise to, for keys, messages and files of      *)
(* every length and for any length of block, digest and read.              *)
(***************************************************************************)
EXTENDS HashClients, Integers, TLAPS

(* Before a result: the length words are right unless they overflowed, and *)
(* whole blocks have been hashed.  After one: the message was not too      *)
(* long, and the digest is still what was hashed.                          *)
IInv ==
  /\ TypeOK
  /\ pc = "input" => ~ computed /\ fed + length <= MaxFed
  /\ low % 8 = 0
  /\ ChunksAreTheMessage
  /\ ~ computed /\ corrupted = shaSuccess => 8 * fed = high * LowMod + low
  /\ computed => 8 * fed < LowMod * HighMod
  /\ ~ computed => \E p \in Nat : fed = p * BlockLen + index
  /\ computed => hashed = Padded(fed)
  /\ digest # <<>> => computed /\ digest = hashed

-----------------------------------------------------------------------------
(* Counting up to m and round.                                             *)
LEMMA Round ==
  ASSUME NEW m \in Nat \ {0}, NEW x \in 0..(m - 1)
  PROVE  (x + 1) % m = IF x + 1 = m THEN 0 ELSE x + 1
<1>1. CASE x + 1 = m
  <2>1. m % m = 0
    OBVIOUS
  <2>2. QED
    BY <1>1, <2>1
<1>2. CASE x + 1 < m
  BY <1>2
<1>3. QED
  BY <1>1, <1>2

(* By eights as well, if m is a multiple of 8.                             *)
LEMMA RoundByEights ==
  ASSUME NEW m \in Nat \ {0}, m % 8 = 0, NEW x \in 0..(m - 1), x % 8 = 0
  PROVE  /\ x + 8 <= m
         /\ (x + 8) % m = IF x + 8 = m THEN 0 ELSE x + 8
<1>1. x + 8 <= m
  OBVIOUS
<1>2. CASE x + 8 = m
  <2>1. m % m = 0
    OBVIOUS
  <2>2. QED
    BY <1>1, <1>2, <2>1
<1>3. CASE x + 8 < m
  BY <1>1, <1>3
<1>4. QED
  BY <1>1, <1>2, <1>3

(* The two length words make a number below LowMod * HighMod.              *)
LEMMA LengthBound ==
  ASSUME NEW h \in 0..(HighMod - 1), NEW l \in 0..(LowMod - 1)
  PROVE  h * LowMod + l \in Nat /\ h * LowMod + l < LowMod * HighMod
<1>1. LowMod \in Nat \ {0} /\ HighMod \in Nat \ {0} /\ h \in Nat /\ l \in Nat
  BY LengthAssumption
<1>2. HighMod - 1 - h \in Nat
  BY <1>1
<1>3. (HighMod - 1 - h) * LowMod >= 0
  BY <1>1, <1>2
<1>4. (HighMod - 1 - h) * LowMod = LowMod * HighMod - LowMod - h * LowMod
  BY <1>1
<1>5. h * LowMod \in Nat /\ LowMod * HighMod \in Nat
  BY <1>1
<1>6. QED
  BY <1>1, <1>3, <1>4, <1>5

-----------------------------------------------------------------------------
(* Octets and blocks.                                                      *)
LEMMA FrontType ==
  ASSUME NEW b \in [0..(BlockLen - 1) -> Octets], NEW n \in 0..BlockLen
  PROVE  Front(b, n) \in Seq(Octets) /\ Len(Front(b, n)) = n
<1>1. BlockLen \in Nat
  BY BlockAssumption
<1>2. \A m \in 1..n : b[m - 1] \in Octets
  BY <1>1
<1>3. QED
  BY <1>1, <1>2 DEF Front

LEMMA RepeatType ==
  ASSUME NEW x \in Octets, NEW n \in Nat
  PROVE  Repeat(x, n) \in Seq(Octets) /\ Len(Repeat(x, n)) = n
BY DEF Repeat

LEMMA Concat ==
  ASSUME NEW S, NEW s \in Seq(S), NEW t \in Seq(S)
  PROVE  /\ s \o t \in Seq(S)
         /\ Len(s \o t) = Len(s) + Len(t)
         /\ \A n \in 1..(Len(s) + Len(t)) :
              (s \o t)[n] = IF n <= Len(s) THEN s[n] ELSE t[n - Len(s)]
OBVIOUS

LEMMA SameOctets ==
  ASSUME NEW S, NEW s \in Seq(S), NEW t \in Seq(S), Len(s) = Len(t),
         \A n \in 1..Len(s) : s[n] = t[n]
  PROVE  s = t
OBVIOUS

(* An octet written at the index is the next of the octets that wait.      *)
LEMMA FrontGrows ==
  ASSUME NEW s \in Seq(Octets), NEW b \in [0..(BlockLen - 1) -> Octets],
         NEW x \in Octets, NEW n \in 0..(BlockLen - 1)
  PROVE  s \o Front([b EXCEPT ![n] = x], n + 1) = Append(s \o Front(b, n), x)
<1> DEFINE c == [b EXCEPT ![n] = x]
<1>1. BlockLen \in Nat /\ n \in Nat /\ n + 1 \in 0..BlockLen /\ n \in 0..BlockLen
  BY BlockAssumption
<1>2. c \in [0..(BlockLen - 1) -> Octets]
  OBVIOUS
<1>3. \A m \in 1..n : c[m - 1] = b[m - 1]
  BY <1>1
<1>4. c[n] = x
  OBVIOUS
<1> HIDE DEF c
<1>5. /\ Front(c, n + 1) \in Seq(Octets) /\ Len(Front(c, n + 1)) = n + 1
      /\ Front(b, n) \in Seq(Octets) /\ Len(Front(b, n)) = n
  BY <1>1, <1>2, FrontType
<1>6. /\ \A m \in 1..(n + 1) : Front(c, n + 1)[m] = c[m - 1]
      /\ \A m \in 1..n : Front(b, n)[m] = b[m - 1]
  BY <1>1 DEF Front
<1> DEFINE f == Front(c, n + 1)
<1> DEFINE g == Front(b, n)
<1>7. Front(c, n + 1) = Append(Front(b, n), x)
  <2>1. /\ Append(g, x) \in Seq(Octets) /\ Len(Append(g, x)) = n + 1
        /\ \A m \in 1..n : Append(g, x)[m] = g[m]
        /\ Append(g, x)[n + 1] = x
    <3> HIDE DEF g
    <3>1. g \in Seq(Octets) /\ Len(g) = n
      BY <1>5 DEF g
    <3>2. QED
      BY <1>1, <3>1
  <2>2. \A m \in 1..(n + 1) : f[m] = Append(g, x)[m]
    <3>1. \A m \in 1..(n + 1) : m \in 1..n \/ m = n + 1
      BY <1>1
    <3>2. \A m \in 1..n : f[m] = g[m]
      BY <1>1, <1>3, <1>6
    <3>3. f[n + 1] = x
      BY <1>1, <1>4, <1>6
    <3> HIDE DEF f, g
    <3>4. QED
      BY <2>1, <3>1, <3>2, <3>3
  <2> HIDE DEF f, g
  <2>3. f \in Seq(Octets) /\ Len(f) = n + 1
    BY <1>5 DEF f
  <2>4. f = Append(g, x)
    BY <2>1, <2>2, <2>3, SameOctets
  <2>5. QED
    BY <2>4 DEF f, g
<1>8. s \o Append(g, x) = Append(s \o g, x)
  <2>1. g \in Seq(Octets)
    BY <1>5
  <2> HIDE DEF g
  <2>2. QED
    BY <2>1
<1>9. QED
  BY <1>7, <1>8 DEF c

LEMMA MessageGrows ==
  ASSUME NEW n \in Nat
  PROVE  /\ Message(n) \in Seq({Msg(m) : m \in 1..n}) /\ Len(Message(n)) = n
         /\ Message(n + 1) = Append(Message(n), Msg(n + 1))
<1>1. Message(n) \in Seq({Msg(m) : m \in 1..n}) /\ Len(Message(n)) = n
  BY DEF Message
<1>2. Message(n + 1) = Append(Message(n), Msg(n + 1))
  BY DEF Message
<1>3. QED
  BY <1>1, <1>2

-----------------------------------------------------------------------------
LEMMA InitIsIInv == Init => IInv
<1> SUFFICES ASSUME Init PROVE IInv
  OBVIOUS
<1>1. /\ hashed = <<>> /\ block = EmptyBlock /\ index = 0 /\ low = 0 /\ high = 0
      /\ computed = FALSE /\ corrupted = 0 /\ length = 0 /\ pc = "ready" /\ res = 0
      /\ fed = 0 /\ digest = <<>>
  BY DEF Init, shaSuccess
<1>2. /\ BlockLen \in Nat \ {0} /\ LowMod \in Nat \ {0} /\ HighMod \in Nat \ {0}
      /\ MaxFed \in Nat /\ MaxChunk \in Nat
  BY BlockAssumption, LengthAssumption, BoundsAssumption
<1>3. EmptyBlock \in [0..(BlockLen - 1) -> Octets]
  BY DEF EmptyBlock, Octets
<1>4. hashed \in Seq(Octets) /\ digest \in Seq(Octets)
  BY <1>1
<1>5. TypeOK
  <2>1. /\ 0 \in 0..(BlockLen - 1) /\ 0 \in 0..(LowMod - 1) /\ 0 \in 0..(HighMod - 1)
        /\ 0 \in 0..MaxFed /\ 0 \in 0..MaxChunk
    BY <1>2
  <2>2. QED
    BY <1>1, <1>3, <1>4, <2>1 DEF TypeOK, shaSuccess
<1>6. ChunksAreTheMessage
  <2>1. Front(block, 0) = <<>> /\ Message(0) = <<>>
    BY DEF Front, Message
  <2>2. QED
    BY <1>1, <2>1 DEF ChunksAreTheMessage
<1>7. 8 * fed = high * LowMod + low /\ fed = 0 * BlockLen + index
  BY <1>1, <1>2
<1>8. QED
  BY <1>1, <1>5, <1>6, <1>7 DEF IInv

LEMMA ResetKeeps == IInv /\ SHA1Reset => IInv'
<1> SUFFICES ASSUME IInv, SHA1Reset PROVE IInv'
  OBVIOUS
<1>1. /\ pc = "ready" /\ hashed' = <<>> /\ index' = 0 /\ low' = 0 /\ high' = 0
      /\ computed' = FALSE /\ corrupted' = shaSuccess /\ res' = shaSuccess
      /\ fed' = 0 /\ digest' = <<>> /\ block' = block /\ length' = length /\ pc' = pc
  BY DEF SHA1Reset
<1>2. /\ BlockLen \in Nat \ {0} /\ LowMod \in Nat \ {0} /\ HighMod \in Nat \ {0}
      /\ MaxFed \in Nat /\ MaxChunk \in Nat
  BY BlockAssumption, LengthAssumption, BoundsAssumption
<1>3. TypeOK'
  <2>1. /\ 0 \in 0..(BlockLen - 1) /\ 0 \in 0..(LowMod - 1) /\ 0 \in 0..(HighMod - 1)
        /\ 0 \in 0..MaxFed /\ <<>> \in Seq(Octets)
    BY <1>2
  <2>2. TypeOK
    BY DEF IInv
  <2>3. QED
    BY <1>1, <2>1, <2>2 DEF TypeOK
<1>4. ChunksAreTheMessage'
  <2>1. Front(block', 0) = <<>> /\ Message(0) = <<>>
    BY DEF Front, Message
  <2>2. QED
    BY <1>1, <2>1 DEF ChunksAreTheMessage
<1>5. 8 * fed' = high' * LowMod + low' /\ low' % 8 = 0 /\ fed' = 0 * BlockLen + index'
  BY <1>1, <1>2
<1>6. QED
  BY <1>1, <1>3, <1>4, <1>5 DEF IInv

(* Calls of SHA1Input that take nothing.                                   *)
LEMMA NothingTakenKeeps == IInv /\ (SHA1InputNothing \/ SHA1InputNull) => IInv'
<1> SUFFICES ASSUME IInv, SHA1InputNothing \/ SHA1InputNull PROVE IInv'
  OBVIOUS
<1>1. /\ pc' = pc /\ res' \in {shaSuccess, shaNull}
      /\ UNCHANGED <<hashed, block, index, low, high, computed, corrupted, length, fed, digest>>
  BY DEF SHA1InputNothing, SHA1InputNull, context
<1>2. TypeOK'
  BY <1>1 DEF IInv, TypeOK
<1>3. ChunksAreTheMessage'
  BY <1>1 DEF IInv, ChunksAreTheMessage
<1>4. QED
  BY <1>1, <1>2, <1>3 DEF IInv

LEMMA InputKeeps ==
  ASSUME NEW n \in 1..MaxChunk, IInv, SHA1Input(n), fed + n <= MaxFed
  PROVE  IInv'
<1>1. /\ pc = "ready"
      /\ UNCHANGED <<hashed, block, index, low, high, computed, fed, digest>>
  BY DEF SHA1Input
<1>2. \/ computed /\ corrupted' = shaStateError /\ res' = shaStateError /\ UNCHANGED <<pc, length>>
      \/ ~ computed /\ corrupted # shaSuccess /\ res' = corrupted /\ UNCHANGED <<corrupted, pc, length>>
      \/ ~ computed /\ corrupted = shaSuccess /\ pc' = "input" /\ length' = n /\ UNCHANGED <<corrupted, res>>
  BY DEF SHA1Input
<1>3. n \in 0..MaxChunk
  BY BoundsAssumption
<1>4. TypeOK'
  BY <1>1, <1>2, <1>3 DEF IInv, TypeOK
<1>5. ChunksAreTheMessage'
  BY <1>1 DEF IInv, ChunksAreTheMessage
<1>6. pc' = "input" => ~ computed' /\ fed' + length' <= MaxFed
  BY <1>1, <1>2
<1>7. ~ computed' /\ corrupted' = shaSuccess => 8 * fed' = high' * LowMod + low'
  BY <1>1, <1>2 DEF IInv, shaSuccess, shaStateError
<1>8. QED
  BY <1>1, <1>4, <1>5, <1>6, <1>7 DEF IInv

LEMMA InputReturnsKeeps == IInv /\ InputReturns => IInv'
<1> SUFFICES ASSUME IInv, InputReturns PROVE IInv'
  OBVIOUS
<1>1. /\ pc' = "ready" /\ length' = 0 /\ res' = shaSuccess
      /\ UNCHANGED <<hashed, block, index, low, high, computed, corrupted, fed, digest>>
  BY DEF InputReturns, context
<1>2. 0 \in 0..MaxChunk
  BY BoundsAssumption
<1>3. TypeOK'
  BY <1>1, <1>2 DEF IInv, TypeOK
<1>4. ChunksAreTheMessage'
  BY <1>1 DEF IInv, ChunksAreTheMessage
<1>5. QED
  BY <1>1, <1>3, <1>4 DEF IInv

(* The length words after one more octet.                                  *)
LEMMA CountKeeps ==
  ASSUME IInv, Count, ~ computed, corrupted = shaSuccess
  PROVE  /\ low' \in 0..(LowMod - 1) /\ high' \in 0..(HighMod - 1)
         /\ low' % 8 = 0
         /\ corrupted' \in {shaSuccess, shaNull}
         /\ corrupted' = shaSuccess => 8 * (fed + 1) = high' * LowMod + low'
<1>1. /\ LowMod \in Nat \ {0} /\ LowMod % 8 = 0 /\ HighMod \in Nat \ {0}
      /\ low \in 0..(LowMod - 1) /\ low % 8 = 0 /\ high \in 0..(HighMod - 1)
      /\ fed \in Nat /\ 8 * fed = high * LowMod + low
  BY LengthAssumption DEF IInv, TypeOK
<1>2. /\ low + 8 <= LowMod
      /\ low' = IF low + 8 = LowMod THEN 0 ELSE low + 8
  BY <1>1, RoundByEights DEF Count
<1>3. low' \in 0..(LowMod - 1) /\ low' % 8 = 0
  BY <1>1, <1>2
<1>4. high' = IF low' = 0 THEN (IF high + 1 = HighMod THEN 0 ELSE high + 1) ELSE high
  BY <1>1, Round DEF Count
<1>5. high' \in 0..(HighMod - 1)
  BY <1>1, <1>4
<1>6. corrupted' = IF low' = 0 /\ high' = 0 THEN shaNull ELSE corrupted
  BY DEF Count
<1>7. ASSUME corrupted' = shaSuccess PROVE 8 * (fed + 1) = high' * LowMod + low'
  <2>1. ~ (low' = 0 /\ high' = 0)
    BY <1>6, <1>7 DEF shaSuccess, shaNull
  <2>2. CASE low + 8 = LowMod
    <3>1. low' = 0 /\ high' = high + 1
      BY <1>2, <1>4, <2>1, <2>2
    <3>2. (high + 1) * LowMod = high * LowMod + LowMod
      BY <1>1
    <3>3. high * LowMod \in Nat
      BY <1>1
    <3>4. QED
      BY <1>1, <2>2, <3>1, <3>2, <3>3
  <2>3. CASE low + 8 # LowMod
    <3>1. low' = low + 8 /\ high' = high
      BY <1>1, <1>2, <1>4, <2>3
    <3>2. high * LowMod \in Nat
      BY <1>1
    <3>3. QED
      BY <1>1, <3>1, <3>2
  <2>4. QED
    BY <2>2, <2>3
<1>8. QED
  BY <1>3, <1>5, <1>6, <1>7

(* One pass of the loop of SHA1Input.                                      *)
LEMMA InputOctetKeeps == IInv /\ InputOctet => IInv'
<1> SUFFICES ASSUME IInv, InputOctet PROVE IInv'
  OBVIOUS
<1> DEFINE b == [block EXCEPT ![index] = Msg(fed + 1)]
<1>1. /\ pc = "input" /\ length > 0 /\ corrupted = shaSuccess /\ Count
      /\ block' = b /\ fed' = fed + 1 /\ length' = length - 1
      /\ computed' = computed /\ pc' = pc /\ res' = res /\ digest' = digest
  BY DEF InputOctet
<1>2. ~ computed /\ fed + length <= MaxFed /\ digest = <<>>
  BY <1>1 DEF IInv
<1>3. /\ BlockLen \in Nat \ {0} /\ MaxFed \in Nat /\ MaxChunk \in Nat
      /\ index \in 0..(BlockLen - 1) /\ fed \in 0..MaxFed /\ length \in 0..MaxChunk
      /\ block \in [0..(BlockLen - 1) -> Octets] /\ hashed \in Seq(Octets)
  BY BlockAssumption, BoundsAssumption DEF IInv, TypeOK
<1>4. fed + 1 \in 1..MaxFed /\ length - 1 \in 0..MaxChunk
  BY <1>1, <1>2, <1>3
<1>5. Msg(fed + 1) \in Octets
  BY <1>4 DEF Octets
<1>6. b \in [0..(BlockLen - 1) -> Octets]
  BY <1>3, <1>5
<1>7. hashed \o Front(b, index + 1) = Message(fed + 1)
  <2>1. hashed \o Front(b, index + 1) = Append(hashed \o Front(block, index), Msg(fed + 1))
    BY <1>3, <1>5, FrontGrows
  <2>2. hashed \o Front(block, index) = Message(fed)
    BY <1>2 DEF IInv, ChunksAreTheMessage
  <2>3. fed \in Nat
    BY <1>3
  <2>4. QED
    BY <2>1, <2>2, <2>3, MessageGrows
<1> HIDE DEF b
<1>8. /\ hashed' \in Seq(Octets) /\ index' \in 0..(BlockLen - 1)
      /\ hashed' \o Front(block', index') = Message(fed')
  <2>1. CASE index + 1 = BlockLen
    <3>1. hashed' = hashed \o Front(b, BlockLen) /\ index' = 0
      BY <1>1, <2>1 DEF InputOctet, ProcessMessageBlock
    <3>2. Front(b, BlockLen) \in Seq(Octets)
      BY <1>3, <1>6, FrontType
    <3>3. hashed' \in Seq(Octets)
      BY <1>3, <3>1, <3>2, Concat
    <3>4. Front(block', 0) = <<>>
      BY DEF Front
    <3>5. hashed' \o <<>> = hashed'
      BY <3>3
    <3>6. hashed' = Message(fed + 1)
      BY <1>7, <2>1, <3>1
    <3>7. hashed' \o Front(block', index') = Message(fed')
      BY <1>1, <3>1, <3>4, <3>5, <3>6
    <3>8. index' \in 0..(BlockLen - 1)
      BY <1>3, <3>1
    <3>9. QED
      BY <3>3, <3>7, <3>8
  <2>2. CASE index + 1 # BlockLen
    <3>1. hashed' = hashed /\ index' = index + 1
      BY <2>2 DEF InputOctet
    <3>2. QED
      BY <1>1, <1>3, <1>7, <2>2, <3>1
  <2>3. QED
    BY <2>1, <2>2
<1>9. /\ low' \in 0..(LowMod - 1) /\ high' \in 0..(HighMod - 1) /\ low' % 8 = 0
      /\ corrupted' \in {shaSuccess, shaNull}
      /\ corrupted' = shaSuccess => 8 * fed' = high' * LowMod + low'
  BY <1>1, <1>2, CountKeeps
<1>10. TypeOK'
  <2>1. fed' \in 0..MaxFed /\ length' \in 0..MaxChunk /\ block' \in [0..(BlockLen - 1) -> Octets]
    BY <1>1, <1>3, <1>4, <1>6
  <2>2. QED
    BY <1>1, <1>8, <1>9, <2>1 DEF IInv, TypeOK
<1>11. ChunksAreTheMessage'
  BY <1>8 DEF ChunksAreTheMessage
<1>12. fed' + length' <= MaxFed
  BY <1>1, <1>2, <1>3
<1>13. \E p \in Nat : fed' = p * BlockLen + index'
  <2>1. PICK p \in Nat : fed = p * BlockLen + index
    BY <1>2 DEF IInv
  <2>2. CASE index + 1 = BlockLen
    <3>1. index' = 0 /\ fed' = (p + 1) * BlockLen + 0
      BY <1>1, <1>3, <2>1, <2>2 DEF InputOctet
    <3>2. QED
      BY <3>1
  <2>3. CASE index + 1 # BlockLen
    <3>1. index' = index + 1 /\ fed' = p * BlockLen + (index + 1)
      BY <1>1, <1>3, <2>1, <2>3 DEF InputOctet
    <3>2. QED
      BY <3>1
  <2>4. QED
    BY <2>2, <2>3
<1>14. QED
  BY <1>1, <1>2, <1>9, <1>10, <1>11, <1>12, <1>13 DEF IInv

(* What SHA1PadMessage puts after the octets hashed so far.                *)
LEMMA TailType ==
  ASSUME IInv, ~ computed, corrupted = shaSuccess
  PROVE  /\ hashed \o PaddedTail \in Seq(Octets)
         /\ 8 * fed = high * LowMod + low /\ 8 * fed < LowMod * HighMod
<1>1. /\ BlockLen \in Nat /\ LengthLen \in 1..(BlockLen - 1)
      /\ index \in 0..(BlockLen - 1) /\ block \in [0..(BlockLen - 1) -> Octets]
      /\ hashed \in Seq(Octets) /\ low \in 0..(LowMod - 1) /\ high \in 0..(HighMod - 1)
  BY BlockAssumption DEF IInv, TypeOK
<1>2. /\ high * LowMod + low \in Nat
      /\ high * LowMod + low < LowMod * HighMod
  BY <1>1, LengthBound
<1>3. 8 * fed = high * LowMod + low
  BY DEF IInv
<1>4. /\ Bits(high * LowMod + low) \in Octets /\ Zero \in Octets /\ Mark \in Octets
  <2>1. LowMod * HighMod \in Nat
    BY LengthAssumption
  <2>2. high * LowMod + low \in 0..(LowMod * HighMod)
    BY <1>2, <2>1
  <2>3. QED
    BY <2>2 DEF Octets
<1> DEFINE held == Front(block, index) \o <<Mark>>
<1> DEFINE room == BlockLen - LengthLen
<1> DEFINE ending == Repeat(Bits(high * LowMod + low), LengthLen)
<1>5. held \in Seq(Octets)
  <2>1. index \in 0..BlockLen
    BY <1>1
  <2>2. Front(block, index) \in Seq(Octets)
    BY <1>1, <2>1, FrontType
  <2>3. <<Mark>> \in Seq(Octets)
    BY <1>4
  <2>4. QED
    BY <2>2, <2>3, Concat
<1>6. ending \in Seq(Octets) /\ room \in Nat
  BY <1>1, <1>4, RepeatType
<1>7. PaddedTail \in Seq(Octets)
  <2>1. CASE index > room - 1
    <3>1. PaddedTail = held \o Repeat(Zero, BlockLen - index - 1) \o Repeat(Zero, room) \o ending
      BY <2>1 DEF PaddedTail
    <3>2. BlockLen - index - 1 \in Nat
      BY <1>1
    <3>3. /\ Repeat(Zero, BlockLen - index - 1) \in Seq(Octets)
          /\ Repeat(Zero, room) \in Seq(Octets)
      BY <1>4, <1>6, <3>2, RepeatType
    <3> HIDE DEF held, room, ending
    <3>4. held \o Repeat(Zero, BlockLen - index - 1) \in Seq(Octets)
      BY <1>5, <3>3, Concat
    <3>5. held \o Repeat(Zero, BlockLen - index - 1) \o Repeat(Zero, room) \in Seq(Octets)
      BY <3>3, <3>4, Concat
    <3>6. QED
      BY <1>6, <3>1, <3>5, Concat
  <2>2. CASE ~ (index > room - 1)
    <3>1. PaddedTail = held \o Repeat(Zero, room - index - 1) \o ending
      BY <2>2 DEF PaddedTail
    <3>2. room - index - 1 \in Nat
      BY <1>1, <1>6, <2>2
    <3>3. Repeat(Zero, room - index - 1) \in Seq(Octets)
      BY <1>4, <3>2, RepeatType
    <3> HIDE DEF held, room, ending
    <3>4. held \o Repeat(Zero, room - index - 1) \in Seq(Octets)
      BY <1>5, <3>3, Concat
    <3>5. QED
      BY <1>6, <3>1, <3>4, Concat
  <2>3. QED
    BY <2>1, <2>2
<1>8. hashed \o PaddedTail \in Seq(Octets)
  BY <1>1, <1>7, Concat
<1>9. QED
  BY <1>2, <1>3, <1>8

-----------------------------------------------------------------------------
(* Whole blocks.                                                           *)
LEMMA WholeBlocks ==
  ASSUME NEW m \in Nat \ {0}, NEW p \in Nat
  PROVE  (p * m) % m = 0
<1> DEFINE x == p * m
<1> DEFINE d == x \div m
<1> DEFINE r == x % m
<1>1. x \in Nat /\ d \in Int /\ r \in 0..(m - 1) /\ x = m * d + r
  OBVIOUS
<1>2. m * (p - d) = r
  BY <1>1
<1>3. p - d \in Int
  BY <1>1
<1>4. CASE p - d >= 1
  <2>1. m * (p - d) >= m
    BY <1>3, <1>4
  <2>2. QED
    BY <1>1, <1>2, <2>1
<1>5. CASE p - d <= -1
  <2>1. m * (p - d) <= -m
    BY <1>3, <1>5
  <2>2. QED
    BY <1>1, <1>2, <2>1
<1>6. CASE p - d = 0
  BY <1>1, <1>2, <1>6
<1>7. QED
  BY <1>3, <1>4, <1>5, <1>6

(* Only one number of zeros fills a block.                                 *)
LEMMA OneFilling ==
  ASSUME NEW m \in Nat \ {0}, NEW p \in Nat, NEW y \in Nat, NEW z \in 0..(m - 1),
         NEW j \in 0..(m - 1), y + z = p * m, (y + j) % m = 0
  PROVE  j = z
<1> DEFINE d == (y + j) \div m
<1>1. d \in Int /\ y + j = m * d
  OBVIOUS
<1>2. m * (d - p) = j - z
  BY <1>1
<1>3. d - p \in Int
  BY <1>1
<1>4. CASE d - p >= 1
  <2>1. m * (d - p) >= m
    BY <1>3, <1>4
  <2>2. QED
    BY <1>2, <2>1
<1>5. CASE d - p <= -1
  <2>1. m * (d - p) <= -m
    BY <1>3, <1>5
  <2>2. QED
    BY <1>2, <2>1
<1>6. CASE d - p = 0
  BY <1>2, <1>6
<1>7. QED
  BY <1>3, <1>4, <1>5, <1>6

LEMMA Associative ==
  ASSUME NEW s \in Seq(Octets), NEW t \in Seq(Octets), NEW u \in Seq(Octets)
  PROVE  s \o (t \o u) = (s \o t) \o u
<1> DEFINE l == s \o (t \o u)
<1> DEFINE r == (s \o t) \o u
<1> DEFINE n == Len(s) + Len(t) + Len(u)
<1>1. Len(s) \in Nat /\ Len(t) \in Nat /\ Len(u) \in Nat
  OBVIOUS
<1>2. /\ t \o u \in Seq(Octets) /\ Len(t \o u) = Len(t) + Len(u)
      /\ \A j \in 1..(Len(t) + Len(u)) :
           (t \o u)[j] = IF j <= Len(t) THEN t[j] ELSE u[j - Len(t)]
  BY Concat
<1>3. /\ s \o t \in Seq(Octets) /\ Len(s \o t) = Len(s) + Len(t)
      /\ \A j \in 1..(Len(s) + Len(t)) :
           (s \o t)[j] = IF j <= Len(s) THEN s[j] ELSE t[j - Len(s)]
  BY Concat
<1>4. /\ l \in Seq(Octets) /\ Len(l) = Len(s) + Len(t \o u)
      /\ \A j \in 1..(Len(s) + Len(t \o u)) :
           l[j] = IF j <= Len(s) THEN s[j] ELSE (t \o u)[j - Len(s)]
  BY <1>2, Concat
<1>5. /\ r \in Seq(Octets) /\ Len(r) = Len(s \o t) + Len(u)
      /\ \A j \in 1..(Len(s \o t) + Len(u)) :
           r[j] = IF j <= Len(s \o t) THEN (s \o t)[j] ELSE u[j - Len(s \o t)]
  BY <1>3, Concat
<1> HIDE DEF l, r
<1>6. Len(l) = n /\ Len(r) = n
  BY <1>1, <1>2, <1>3, <1>4, <1>5
<1>7. ASSUME NEW j \in 1..n PROVE l[j] = r[j]
  <2>1. CASE j <= Len(s)
    BY <1>1, <1>2, <1>3, <1>4, <1>5, <2>1
  <2>2. CASE j > Len(s) /\ j <= Len(s) + Len(t)
    <3>1. j - Len(s) \in 1..Len(t)
      BY <1>1, <2>2
    <3>2. l[j] = t[j - Len(s)]
      BY <1>1, <1>2, <1>4, <2>2, <3>1
    <3>3. r[j] = t[j - Len(s)]
      BY <1>1, <1>3, <1>5, <2>2
    <3>4. QED
      BY <3>2, <3>3
  <2>3. CASE j > Len(s) + Len(t)
    <3>1. j - Len(s) \in 1..(Len(t) + Len(u)) /\ j - Len(s) > Len(t)
      BY <1>1, <2>3
    <3>2. l[j] = u[(j - Len(s)) - Len(t)]
      <4>1. (t \o u)[j - Len(s)] = u[(j - Len(s)) - Len(t)]
        BY <1>1, <1>2, <3>1
      <4>2. l[j] = (t \o u)[j - Len(s)]
        BY <1>1, <1>2, <1>4, <2>3
      <4>3. QED
        BY <4>1, <4>2
    <3>3. r[j] = u[j - (Len(s) + Len(t))]
      BY <1>1, <1>3, <1>5, <2>3
    <3>4. (j - Len(s)) - Len(t) = j - (Len(s) + Len(t))
      BY <1>1
    <3>5. QED
      BY <3>2, <3>3, <3>4
  <2>4. QED
    BY <1>1, <2>1, <2>2, <2>3
<1>8. l = r
  BY <1>4, <1>5, <1>6, <1>7, SameOctets
<1>9. QED
  BY <1>8 DEF l, r

LEMMA RepeatTwice ==
  ASSUME NEW x \in Octets, NEW m \in Nat, NEW n \in Nat
  PROVE  Repeat(x, m) \o Repeat(x, n) = Repeat(x, m + n)
<1>1. /\ Repeat(x, m) \in Seq(Octets) /\ Len(Repeat(x, m)) = m
      /\ Repeat(x, n) \in Seq(Octets) /\ Len(Repeat(x, n)) = n
      /\ Repeat(x, m + n) \in Seq(Octets) /\ Len(Repeat(x, m + n)) = m + n
  BY RepeatType
<1>2. /\ \A j \in 1..m : Repeat(x, m)[j] = x
      /\ \A j \in 1..n : Repeat(x, n)[j] = x
      /\ \A j \in 1..(m + n) : Repeat(x, m + n)[j] = x
  BY DEF Repeat
<1> DEFINE s == Repeat(x, m)
<1> DEFINE t == Repeat(x, n)
<1> DEFINE u == Repeat(x, m + n)
<1>3. /\ s \in Seq(Octets) /\ Len(s) = m /\ t \in Seq(Octets) /\ Len(t) = n
      /\ u \in Seq(Octets) /\ Len(u) = m + n
      /\ (\A j \in 1..m : s[j] = x) /\ (\A j \in 1..n : t[j] = x)
      /\ \A j \in 1..(m + n) : u[j] = x
  BY <1>1, <1>2
<1> HIDE DEF s, t, u
<1>4. s \o t \in Seq(Octets) /\ Len(s \o t) = m + n
  BY <1>3, Concat
<1>5. \A j \in 1..(m + n) : (s \o t)[j] = u[j]
  <2>1. \A j \in 1..(m + n) : (s \o t)[j] = IF j <= m THEN s[j] ELSE t[j - m]
    BY <1>3, Concat
  <2>2. QED
    BY <1>3, <2>1
<1>6. s \o t = u
  BY <1>3, <1>4, <1>5, SameOctets
<1>7. QED
  BY <1>6 DEF s, t, u

(* The zeros of SHA1PadMessage are those of the standard.                  *)
LEMMA FillsABlock ==
  ASSUME NEW p \in Nat, NEW n \in 0..(BlockLen - 1), NEW z \in 0..(BlockLen - 1),
         fed = p * BlockLen + n,
         n + 1 + z + LengthLen = BlockLen \/ n + 1 + z + LengthLen = 2 * BlockLen
  PROVE  Padded(fed) = Message(fed) \o <<Mark>> \o Repeat(Zero, z)
                         \o Repeat(Bits(8 * fed), LengthLen)
<1>1. BlockLen \in Nat \ {0} /\ LengthLen \in Nat /\ n \in Nat /\ fed \in Nat
  BY BlockAssumption
<1> DEFINE y == fed + 1 + LengthLen
<1> DEFINE P(j) == (fed + 1 + j + LengthLen) % BlockLen = 0
<1>2. PICK w \in Nat : y + z = w * BlockLen
  <2>1. CASE n + 1 + z + LengthLen = BlockLen
    <3>1. y + z = (p + 1) * BlockLen
      BY <1>1, <2>1
    <3>2. QED
      BY <3>1
  <2>2. CASE n + 1 + z + LengthLen = 2 * BlockLen
    <3>1. y + z = (p + 2) * BlockLen
      BY <1>1, <2>2
    <3>2. QED
      BY <3>1
  <2>3. QED
    BY <2>1, <2>2
<1>3. P(z)
  <2>1. fed + 1 + z + LengthLen = w * BlockLen
    BY <1>1, <1>2
  <2>2. QED
    BY <1>1, <2>1, WholeBlocks
<1>4. ASSUME NEW j \in 0..(BlockLen - 1), P(j) PROVE j = z
  <2>1. y \in Nat /\ y + j = fed + 1 + j + LengthLen
    BY <1>1
  <2>2. (y + j) % BlockLen = 0
    BY <1>4, <2>1
  <2> HIDE DEF y
  <2>3. QED
    BY <1>1, <1>2, <2>1, <2>2, OneFilling
<1>5. (CHOOSE j \in 0..(BlockLen - 1) : P(j)) = z
  <2> HIDE DEF P
  <2>1. \E j \in 0..(BlockLen - 1) : P(j)
    BY <1>3
  <2> DEFINE c == CHOOSE j \in 0..(BlockLen - 1) : P(j)
  <2>2. c \in 0..(BlockLen - 1) /\ P(c)
    BY <2>1
  <2>3. QED
    BY <1>4, <2>2
<1>6. QED
  BY <1>5 DEF Padded

(* SHA1PadMessage completes the message as the standard says.              *)
LEMMA TailPads ==
  ASSUME IInv, ~ computed, corrupted = shaSuccess,
         NEW p \in Nat, fed = p * BlockLen + index
  PROVE  hashed \o PaddedTail = Padded(fed)
<1>1. /\ BlockLen \in Nat /\ LengthLen \in 1..(BlockLen - 1)
      /\ index \in 0..(BlockLen - 1) /\ block \in [0..(BlockLen - 1) -> Octets]
      /\ hashed \in Seq(Octets)
  BY BlockAssumption DEF IInv, TypeOK
<1>2. 8 * fed = high * LowMod + low
  BY DEF IInv
<1>3. /\ Bits(8 * fed) \in Octets /\ Zero \in Octets /\ Mark \in Octets
  <2>1. /\ LowMod * HighMod \in Nat /\ high * LowMod + low \in Nat
        /\ high * LowMod + low < LowMod * HighMod
    <3>1. low \in 0..(LowMod - 1) /\ high \in 0..(HighMod - 1)
      BY DEF IInv, TypeOK
    <3>2. LowMod * HighMod \in Nat
      BY LengthAssumption
    <3>3. QED
      BY <3>1, <3>2, LengthBound
  <2>2. 8 * fed \in 0..(LowMod * HighMod)
    BY <1>2, <2>1
  <2>3. QED
    BY <2>2 DEF Octets
<1> DEFINE front == Front(block, index)
<1> DEFINE mark == <<Mark>>
<1> DEFINE room == BlockLen - LengthLen
<1> DEFINE ending == Repeat(Bits(8 * fed), LengthLen)
<1>4. front \in Seq(Octets) /\ mark \in Seq(Octets) /\ ending \in Seq(Octets)
  <2>1. index \in 0..BlockLen /\ LengthLen \in Nat
    BY <1>1
  <2>2. front \in Seq(Octets)
    BY <1>1, <2>1, FrontType
  <2>3. ending \in Seq(Octets)
    BY <1>3, <2>1, RepeatType
  <2>4. mark \in Seq(Octets)
    BY <1>3
  <2>5. QED
    BY <2>2, <2>3, <2>4
<1>5. hashed \o front = Message(fed)
  BY DEF IInv, ChunksAreTheMessage
<1>6. PICK z \in 0..(BlockLen - 1) :
        /\ \/ index + 1 + z + LengthLen = BlockLen
           \/ index + 1 + z + LengthLen = 2 * BlockLen
        /\ PaddedTail = ((front \o mark) \o Repeat(Zero, z)) \o ending
  <2>1. CASE index > room - 1
    <3>1. PaddedTail = (((front \o mark) \o Repeat(Zero, BlockLen - index - 1))
                          \o Repeat(Zero, room)) \o ending
      BY <1>2, <2>1 DEF PaddedTail
    <3>2. BlockLen - index - 1 \in Nat /\ room \in Nat
      BY <1>1
    <3> DEFINE z == BlockLen - index - 1 + room
    <3>3. /\ z \in 0..(BlockLen - 1)
          /\ index + 1 + z + LengthLen = 2 * BlockLen
      BY <1>1, <2>1
    <3>4. Repeat(Zero, BlockLen - index - 1) \o Repeat(Zero, room) = Repeat(Zero, z)
      BY <1>3, <3>2, RepeatTwice
    <3>5. /\ Repeat(Zero, BlockLen - index - 1) \in Seq(Octets)
          /\ Repeat(Zero, room) \in Seq(Octets)
      BY <1>3, <3>2, RepeatType
    <3> DEFINE held == front \o mark
    <3>6. held \in Seq(Octets)
      BY <1>4, Concat
    <3>7. (held \o Repeat(Zero, BlockLen - index - 1)) \o Repeat(Zero, room)
            = held \o Repeat(Zero, z)
      <4> DEFINE r1 == Repeat(Zero, BlockLen - index - 1)
      <4> DEFINE r2 == Repeat(Zero, room)
      <4>1. r1 \o r2 = Repeat(Zero, z) /\ r1 \in Seq(Octets) /\ r2 \in Seq(Octets)
        BY <3>4, <3>5
      <4> HIDE DEF held, r1, r2, z
      <4>2. held \o (r1 \o r2) = (held \o r1) \o r2
        BY <3>6, <4>1, Associative
      <4>3. (held \o r1) \o r2 = held \o Repeat(Zero, z)
        BY <4>1, <4>2
      <4>4. QED
        BY <4>3 DEF r1, r2
    <3>8. QED
      BY <3>1, <3>3, <3>7
  <2>2. CASE ~ (index > room - 1)
    <3>1. PaddedTail = ((front \o mark) \o Repeat(Zero, room - index - 1)) \o ending
      BY <1>2, <2>2 DEF PaddedTail
    <3>2. /\ room - index - 1 \in 0..(BlockLen - 1)
          /\ index + 1 + (room - index - 1) + LengthLen = BlockLen
      BY <1>1, <2>2
    <3>3. QED
      BY <3>1, <3>2
  <2>3. QED
    BY <2>1, <2>2
<1> DEFINE zeros == Repeat(Zero, z)
<1>7. zeros \in Seq(Octets)
  <2>1. z \in Nat
    BY <1>1
  <2>2. QED
    BY <1>3, <2>1, RepeatType
<1>8. hashed \o PaddedTail = ((Message(fed) \o mark) \o zeros) \o ending
  <2> HIDE DEF front, mark, ending, zeros
  <2>1. front \o mark \in Seq(Octets)
    BY <1>4, Concat
  <2>2. (front \o mark) \o zeros \in Seq(Octets)
    BY <1>7, <2>1, Concat
  <2>3. hashed \o (((front \o mark) \o zeros) \o ending)
          = (hashed \o ((front \o mark) \o zeros)) \o ending
    BY <1>1, <1>4, <2>2, Associative
  <2>4. hashed \o ((front \o mark) \o zeros) = (hashed \o (front \o mark)) \o zeros
    BY <1>1, <1>7, <2>1, Associative
  <2>5. hashed \o (front \o mark) = (hashed \o front) \o mark
    BY <1>1, <1>4, Associative
  <2>6. PaddedTail = ((front \o mark) \o zeros) \o ending
    BY <1>6 DEF zeros
  <2>7. QED
    BY <1>5, <2>3, <2>4, <2>5, <2>6
<1>9. Padded(fed) = ((Message(fed) \o mark) \o zeros) \o ending
  BY <1>1, <1>6, FillsABlock
<1>10. QED
  BY <1>8, <1>9

(* SHA1Result, the first time and again.                                   *)
LEMMA ResultKeeps == IInv /\ SHA1Result => IInv'
<1> SUFFICES ASSUME IInv, SHA1Result PROVE IInv'
  OBVIOUS
<1>1. pc = "ready" /\ pc' = pc /\ length' = length /\ fed' = fed
  BY DEF SHA1Result
<1>2. /\ BlockLen \in Nat \ {0} /\ LowMod \in Nat \ {0} /\ HighMod \in Nat \ {0}
  BY BlockAssumption, LengthAssumption
<1>3. CASE corrupted # shaSuccess
  <2>1. /\ res' = corrupted
        /\ UNCHANGED <<hashed, block, index, low, high, computed, corrupted, digest>>
    BY <1>3 DEF SHA1Result, context
  <2>2. TypeOK'
    BY <1>1, <2>1 DEF IInv, TypeOK
  <2>3. ChunksAreTheMessage'
    BY <1>1, <2>1 DEF IInv, ChunksAreTheMessage
  <2>4. QED
    BY <1>1, <2>1, <2>2, <2>3 DEF IInv
<1>4. CASE corrupted = shaSuccess /\ computed
  <2>1. /\ res' = shaSuccess /\ digest' = hashed
        /\ UNCHANGED <<hashed, block, index, low, high, computed, corrupted>>
    BY <1>4 DEF SHA1Result, context
  <2>2. TypeOK'
    BY <1>1, <2>1 DEF IInv, TypeOK
  <2>3. ChunksAreTheMessage'
    BY <1>1, <2>1 DEF IInv, ChunksAreTheMessage
  <2>4. low % 8 = 0 /\ 8 * fed < LowMod * HighMod
    BY <1>4 DEF IInv
  <2>5. hashed = Padded(fed)
    BY <1>4 DEF IInv
  <2>6. QED
    BY <1>1, <1>4, <2>1, <2>2, <2>3, <2>4, <2>5 DEF IInv
<1>5. CASE corrupted = shaSuccess /\ ~ computed
  <2>1. /\ hashed' = hashed \o PaddedTail /\ block' = EmptyBlock /\ index' = 0
        /\ low' = 0 /\ high' = 0 /\ computed' = TRUE /\ corrupted' = corrupted
        /\ digest' = hashed' /\ res' = shaSuccess
    BY <1>5 DEF SHA1Result
  <2>2. hashed' \in Seq(Octets) /\ 8 * fed < LowMod * HighMod
    BY <1>5, <2>1, TailType
  <2>3. EmptyBlock \in [0..(BlockLen - 1) -> Octets]
    BY DEF EmptyBlock, Octets
  <2>4. 0 \in 0..(BlockLen - 1) /\ 0 \in 0..(LowMod - 1) /\ 0 \in 0..(HighMod - 1)
    BY <1>2
  <2>5. TypeOK'
    BY <1>1, <2>1, <2>2, <2>3, <2>4 DEF IInv, TypeOK
  <2>6. hashed' = Padded(fed)
    <3>1. PICK p \in Nat : fed = p * BlockLen + index
      BY <1>5 DEF IInv
    <3>2. QED
      BY <1>5, <2>1, <3>1, TailPads
  <2>7. digest' = hashed' /\ hashed' = Padded(fed')
    BY <1>1, <2>1, <2>6
  <2>8. QED
    BY <1>1, <2>1, <2>2, <2>5, <2>7 DEF IInv, ChunksAreTheMessage
<1>6. QED
  BY <1>3, <1>4, <1>5

LEMMA StutterKeeps == IInv /\ UNCHANGED vars => IInv'
<1> SUFFICES ASSUME IInv, UNCHANGED vars PROVE IInv'
  OBVIOUS
<1>1. UNCHANGED <<hashed, block, index, low, high, computed, corrupted, length, pc, res, fed, digest>>
  BY DEF vars, context
<1>2. TypeOK'
  BY <1>1 DEF IInv, TypeOK
<1>3. ChunksAreTheMessage'
  BY <1>1 DEF IInv, ChunksAreTheMessage
<1>4. QED
  BY <1>1, <1>2, <1>3 DEF IInv

LEMMA NextKeepsIInv == IInv /\ [Next]_vars => IInv'
BY ResetKeeps, NothingTakenKeeps, InputKeeps, InputOctetKeeps, InputReturnsKeeps,
   ResultKeeps, StutterKeeps DEF Next

LEMMA Invariance == Spec => []IInv
BY InitIsIInv, NextKeepsIInv, PTL DEF Spec

-----------------------------------------------------------------------------
(* The context keeps its types: the index stays in the block, for blocks   *)
(* of every size and any sequence of calls.                                *)
THEOREM TypeCorrect == Spec => []TypeOK
<1>1. IInv => TypeOK
  BY DEF IInv
<1>2. QED
  BY <1>1, Invariance, PTL

(* SHA1Input keeps the message, however it is cut into calls.              *)
THEOREM NothingLostInChunks == Spec => []ChunksAreTheMessage
<1>1. IInv => ChunksAreTheMessage
  BY DEF IInv
<1>2. QED
  BY <1>1, Invariance, PTL

(* A digest is that of the message fed, padded as the standard says, at    *)
(* every length, for blocks and length fields of every size.               *)
THEOREM DigestIsOfTheMessage == Spec => []DigestOfPaddedMessage
<1>1. IInv => DigestOfPaddedMessage
  BY DEF IInv, DigestOfPaddedMessage
<1>2. QED
  BY <1>1, Invariance, PTL

(* A message whose length the two words cannot hold has no digest.         *)
THEOREM OverlongHasNoDigest == Spec => []OverlongNeverDigested
<1>1. IInv => OverlongNeverDigested
  <2> SUFFICES ASSUME IInv, digest # <<>> PROVE ~ (8 * fed >= LowMod * HighMod)
    BY DEF OverlongNeverDigested
  <2>1. 8 * fed < LowMod * HighMod
    BY DEF IInv
  <2>2. fed \in Nat /\ LowMod * HighMod \in Nat
    BY LengthAssumption DEF IInv, TypeOK
  <2>3. QED
    BY <2>1, <2>2
<1>2. QED
  BY <1>1, Invariance, PTL

(* A digest once given is given again, until SHA1Reset.                    *)
THEOREM DigestIsKept == Spec => DigestStays
<1>1. IInv /\ [Next]_vars => [digest # <<>> => digest' \in {digest, <<>>}]_vars
  <2> SUFFICES ASSUME IInv, Next, digest # <<>> PROVE digest' \in {digest, <<>>}
    OBVIOUS
  <2>1. computed /\ digest = hashed /\ pc # "input"
    BY DEF IInv
  <2>2. CASE SHA1Reset
    BY <2>2 DEF SHA1Reset
  <2>3. CASE SHA1InputNothing \/ SHA1InputNull \/ InputReturns
    BY <2>3 DEF SHA1InputNothing, SHA1InputNull, InputReturns
  <2>4. CASE \E n \in 1..MaxChunk : fed + n <= MaxFed /\ SHA1Input(n)
    BY <2>4 DEF SHA1Input
  <2>5. CASE InputOctet
    BY <2>1, <2>5 DEF InputOctet
  <2>6. CASE SHA1Result
    BY <2>1, <2>6 DEF SHA1Result, context
  <2>7. QED
    BY <2>2, <2>3, <2>4, <2>5, <2>6 DEF Next
<1>2. QED
  BY <1>1, Invariance, PTL DEF Spec, DigestStays

-----------------------------------------------------------------------------
(* The functions of hash.c.                                                *)

(* The context has, or in the loop of SHA1Input is about to have, taken n  *)
(* octets since SHA1Reset, and gives their digest next.                    *)
Taking(n) ==
  /\ ~ computed
  /\ corrupted = shaSuccess
  /\ fed + length = n

Given(n, p) == Taking(n) /\ parts = p

HashedKey == IF KeyIsHashed(keylen) THEN H(<<Leaf("key")>>) ELSE Leaf("key")
Ipad      == Term("ipad", <<HashedKey>>)
Opad      == Term("opad", <<HashedKey>>)
Inner     == H(<<Ipad, Leaf("in")>>)

(* The calls of hmac_sha1 and of oauth_body_hash_data, the last one first: *)
(* the next call is told by how many are left.                             *)
HmacFromLast ==
  <<Result("resbuf"), Input("digest", DigestLen), Input("opad", BlockLen), Reset,
    Result("digest"), Input("in", size), Input("ipad", BlockLen), Reset,
    Result("tmpkey"), Input("key", keylen), Reset>>

DataFromLast == <<Result("digest"), Input("data", size), Reset>>

LeftOf(t, calls) ==
  /\ t \in Seq({calls[n] : n \in 1..Len(calls)})
  /\ Len(t) <= Len(calls)
  /\ \A n \in 1..Len(t) : t[n] = calls[Len(t) + 1 - n]

(* What hmac_sha1 has reached when it has l calls to make.                 *)
HmacAt(l) ==
  /\ l > 8 => KeyIsHashed(keylen) /\ key = Leaf("key")
  /\ l <= 8 => key = HashedKey
  /\ l < 5 /\ l > 0 => value = Inner
  /\ l \in {3, 7, 10} => Given(0, <<>>)
  /\ l = 9 => Given(keylen, <<Leaf("key")>>)
  /\ l = 6 => Given(BlockLen, <<Ipad>>)
  /\ l = 5 => Given(BlockLen + size, <<Ipad, Leaf("in")>>)
  /\ l = 2 => Given(BlockLen, <<Opad>>)
  /\ l = 1 => Given(BlockLen + DigestLen, <<Opad, Inner>>)
  /\ l = 0 => value = H(<<Opad, Inner>>) /\ digest = Padded(BlockLen + DigestLen)

(* The same of oauth_body_hash_data.                                       *)
DataAt(l) ==
  /\ l = 2 => Taking(0)
  /\ l = 1 => Taking(size)
  /\ l = 0 => digest = Padded(size)

(* oauth_body_hash_file, after so much of the file.                        *)
FileAt ==
  /\ stage = "open" => digest = <<>> /\ offset = 0
  /\ stage = "read" => Taking(offset)
  /\ stage = "done" => digest = <<>> \/ errors > 0 \/ digest = Padded(size)

ClientType ==
  /\ user \in {"program", "hmac", "data", "file"}
  /\ keylen \in Nat
  /\ size \in Nat
  /\ stage \in {"open", "read", "done"}
  /\ offset \in 0..size
  /\ errors \in Nat
  /\ user = "hmac" => keylen \in KeyLens
  /\ user \in {"hmac", "data"} => size \in InLens
  /\ user = "file" => size \in FileLens

(* No call is made while one is under way, and each call finds the context *)
(* as the calls before it have left it.                                    *)
ClientInv ==
  /\ ClientType
  /\ pc = "ready" => length = 0
  /\ user \in {"program", "file"} => todo = <<>>
  /\ user = "hmac" => LeftOf(todo, HmacFromLast) /\ HmacAt(Len(todo))
  /\ user = "data" => LeftOf(todo, DataFromLast) /\ DataAt(Len(todo))
  /\ user = "file" => FileAt

-----------------------------------------------------------------------------
(* What the calls of sha1.c do to a context that is to take n octets.      *)

(* Shorter than the length words can say, a message corrupts nothing.      *)
LEMMA CountInTime ==
  ASSUME IInv, Count, ~ computed, corrupted = shaSuccess, 8 * (fed + 1) < LowMod * HighMod
  PROVE  corrupted' = shaSuccess
<1>1. /\ LowMod \in Nat \ {0} /\ LowMod % 8 = 0 /\ HighMod \in Nat \ {0}
      /\ low \in 0..(LowMod - 1) /\ low % 8 = 0 /\ high \in 0..(HighMod - 1)
      /\ fed \in Nat /\ 8 * fed = high * LowMod + low
  BY LengthAssumption DEF IInv, TypeOK
<1>2. /\ low + 8 <= LowMod
      /\ low' = IF low + 8 = LowMod THEN 0 ELSE low + 8
  BY <1>1, RoundByEights DEF Count
<1>3. high' = IF low' = 0 THEN (IF high + 1 = HighMod THEN 0 ELSE high + 1) ELSE high
  BY <1>1, Round DEF Count
<1>4. SUFFICES ASSUME low' = 0 /\ high' = 0 PROVE FALSE
  BY DEF Count
<1>5. low + 8 = LowMod /\ high + 1 = HighMod
  BY <1>1, <1>2, <1>3, <1>4
<1>6. HighMod * LowMod = high * LowMod + LowMod
  BY <1>1, <1>5
<1>7. high * LowMod \in Nat /\ HighMod * LowMod = LowMod * HighMod
  BY <1>1
<1>8. QED
  BY <1>1, <1>5, <1>6, <1>7

LEMMA LoopTakes ==
  ASSUME IInv, NEW n \in Nat, Taking(n), 8 * n < LowMod * HighMod,
         InputOctet \/ InputReturns
  PROVE  /\ Taking(n)'
         /\ pc' = "ready" => length' = 0
<1>1. fed \in Nat /\ length \in Nat /\ LowMod * HighMod \in Nat
  BY BoundsAssumption, LengthAssumption DEF IInv, TypeOK
<1>2. CASE InputOctet
  <2>1. /\ length > 0 /\ Count /\ fed' = fed + 1 /\ length' = length - 1
        /\ computed' = computed /\ pc' = "input"
    BY <1>2 DEF InputOctet
  <2>2. 8 * (fed + 1) < LowMod * HighMod
    BY <1>1, <2>1 DEF Taking
  <2>3. corrupted' = shaSuccess
    BY <2>1, <2>2, CountInTime DEF Taking
  <2>4. QED
    BY <1>1, <2>1, <2>3 DEF Taking
<1>3. CASE InputReturns
  <2>1. /\ length = 0 /\ length' = 0
        /\ UNCHANGED <<computed, corrupted, fed>>
    BY <1>3 DEF InputReturns, context, Taking
  <2>2. QED
    BY <1>1, <2>1 DEF Taking
<1>4. QED
  BY <1>2, <1>3

LEMMA ResetTakes ==
  ASSUME SHA1Reset, length = 0
  PROVE  Taking(0)' /\ length' = 0 /\ pc' = "ready" /\ digest' = <<>>
BY DEF SHA1Reset, Taking

LEMMA InputTakes ==
  ASSUME IInv, NEW m \in Nat, NEW n \in Nat, Taking(m), length = 0,
         IF n = 0 THEN SHA1InputNothing ELSE SHA1Input(n)
  PROVE  /\ Taking(m + n)' /\ digest' = digest
         /\ pc' = "ready" => length' = 0
<1>1. fed = m
  BY DEF Taking, IInv, TypeOK
<1>2. CASE n = 0
  BY <1>1, <1>2 DEF SHA1InputNothing, Taking, context
<1>3. CASE n # 0
  BY <1>1, <1>3 DEF SHA1Input, Taking
<1>4. QED
  BY <1>2, <1>3

LEMMA ResultGives ==
  ASSUME IInv, IInv', NEW n \in Nat, Taking(n), length = 0, SHA1Result
  PROVE  /\ digest' = Padded(n) /\ res' = shaSuccess
         /\ length' = 0 /\ pc' = "ready"
<1>1. fed = n
  BY DEF Taking, IInv, TypeOK
<1>2. /\ computed' /\ digest' = hashed' /\ res' = shaSuccess
      /\ length' = 0 /\ pc' = "ready" /\ fed' = fed
  BY DEF SHA1Result, Taking
<1>3. hashed' = Padded(fed')
  BY <1>2 DEF IInv
<1>4. QED
  BY <1>1, <1>2, <1>3

-----------------------------------------------------------------------------
(* Lists of calls.                                                         *)
LEMMA OneCallLess ==
  ASSUME NEW calls, Len(calls) \in Nat, NEW t, LeftOf(t, calls), t # <<>>
  PROVE  /\ Len(t) \in 1..Len(calls) /\ Len(Tail(t)) = Len(t) - 1
         /\ Head(t) = calls[Len(t)]
         /\ LeftOf(Tail(t), calls)
<1> DEFINE S == {calls[n] : n \in 1..Len(calls)}
<1>1. t \in Seq(S) /\ Len(t) <= Len(calls)
  BY DEF LeftOf
<1>2. \A n \in 1..Len(t) : t[n] = calls[Len(t) + 1 - n]
  BY DEF LeftOf
<1> HIDE DEF S
<1>3. /\ Len(t) \in Nat \ {0} /\ Tail(t) \in Seq(S) /\ Len(Tail(t)) = Len(t) - 1
      /\ Head(t) = t[1]
      /\ \A n \in 1..Len(Tail(t)) : Tail(t)[n] = t[n + 1]
  BY <1>1
<1>4. Head(t) = calls[Len(t)]
  BY <1>2, <1>3
<1>5. \A n \in 1..Len(Tail(t)) : Tail(t)[n] = calls[Len(Tail(t)) + 1 - n]
  <2> SUFFICES ASSUME NEW n \in 1..Len(Tail(t)) PROVE Tail(t)[n] = calls[Len(Tail(t)) + 1 - n]
    OBVIOUS
  <2>1. n + 1 \in 1..Len(t) /\ Len(t) + 1 - (n + 1) = Len(Tail(t)) + 1 - n
    <3>1. \A x \in Nat \ {0} : \A m \in 1..(x - 1) :
            m + 1 \in 1..x /\ x + 1 - (m + 1) = (x - 1) + 1 - m
      OBVIOUS
    <3>2. QED
      BY <1>3, <3>1, Zenon
  <2>2. Tail(t)[n] = t[n + 1] /\ t[n + 1] = calls[Len(t) + 1 - (n + 1)]
    BY <1>2, <1>3, <2>1
  <2>3. QED
    BY <2>1, <2>2, Zenon
<1>6. QED
  BY <1>1, <1>3, <1>4, <1>5 DEF LeftOf, S

LEMMA HmacCalls ==
  /\ Len(HmacFromLast) = 11
  /\ \A l \in {4, 8, 11} : HmacFromLast[l].op = "SHA1Reset"
  /\ \A l \in {2, 3, 6, 7, 10} : HmacFromLast[l].op = "SHA1Input"
  /\ \A l \in {1, 5, 9} : HmacFromLast[l].op = "SHA1Result"
  /\ HmacFromLast[2].what = "digest" /\ HmacFromLast[2].len = DigestLen
  /\ HmacFromLast[3].what = "opad" /\ HmacFromLast[3].len = BlockLen
  /\ HmacFromLast[6].what = "in" /\ HmacFromLast[6].len = size
  /\ HmacFromLast[7].what = "ipad" /\ HmacFromLast[7].len = BlockLen
  /\ HmacFromLast[10].what = "key" /\ HmacFromLast[10].len = keylen
  /\ HmacFromLast[1].what = "resbuf" /\ HmacFromLast[5].what = "digest"
  /\ HmacFromLast[9].what = "tmpkey"
<1>1. /\ Len(HmacFromLast) = 11
      /\ HmacFromLast[1] = Result("resbuf") /\ HmacFromLast[2] = Input("digest", DigestLen)
      /\ HmacFromLast[3] = Input("opad", BlockLen) /\ HmacFromLast[4] = Reset
      /\ HmacFromLast[5] = Result("digest") /\ HmacFromLast[6] = Input("in", size)
      /\ HmacFromLast[7] = Input("ipad", BlockLen) /\ HmacFromLast[8] = Reset
      /\ HmacFromLast[9] = Result("tmpkey") /\ HmacFromLast[10] = Input("key", keylen)
      /\ HmacFromLast[11] = Reset
  BY DEF HmacFromLast
<1>2. Reset.op = "SHA1Reset"
  BY DEF Reset
<1>3. \A w : Result(w).op = "SHA1Result" /\ Result(w).what = w
  BY DEF Result
<1>4. \A w, n : Input(w, n).op = "SHA1Input" /\ Input(w, n).what = w /\ Input(w, n).len = n
  BY DEF Input
<1>5. QED
  BY <1>1, <1>2, <1>3, <1>4

LEMMA DataCalls ==
  /\ Len(DataFromLast) = 3
  /\ DataFromLast[3].op = "SHA1Reset"
  /\ DataFromLast[2].op = "SHA1Input" /\ DataFromLast[2].len = size
  /\ DataFromLast[1].op = "SHA1Result" /\ DataFromLast[1].what = "digest"
BY DEF DataFromLast, Reset, Input, Result

-----------------------------------------------------------------------------
(* hmac_sha1.                                                              *)
LEMMA HmacCall ==
  ASSUME ClientInv, user = "hmac", CallReset \/ CallInput \/ CallResult
  PROVE  /\ Len(todo) \in 1..11 /\ Len(todo') = Len(todo) - 1
         /\ Head(todo) = HmacFromLast[Len(todo)]
         /\ LeftOf(todo, HmacFromLast)'
         /\ UNCHANGED <<user, keylen, size, stage, offset, errors>>
         /\ HashedKey' = HashedKey /\ Ipad' = Ipad /\ Opad' = Opad /\ Inner' = Inner
         /\ pc = "ready" /\ length = 0
<1>1. todo # <<>> /\ todo' = Tail(todo) /\ UNCHANGED <<args, file>> /\ pc = "ready"
  BY DEF CallReset, CallInput, CallResult, SHA1Reset, SHA1InputNothing, SHA1Input, SHA1Result
<1>2. LeftOf(todo, HmacFromLast) /\ length = 0
  BY <1>1 DEF ClientInv
<1>3. HmacFromLast' = HmacFromLast
  BY <1>1 DEF HmacFromLast, args
<1>4. UNCHANGED <<user, keylen, size, stage, offset, errors>>
  BY <1>1 DEF args, file
<1>5. HashedKey' = HashedKey
  BY <1>4 DEF HashedKey
<1>6. Ipad' = Ipad /\ Opad' = Opad
  BY <1>5 DEF Ipad, Opad
<1>7. Inner' = Inner
  BY <1>6 DEF Inner
<1>8. Len(HmacFromLast) = 11
  BY HmacCalls
<1>9. /\ Len(todo) \in 1..11 /\ Len(todo') = Len(todo) - 1
      /\ Head(todo) = HmacFromLast[Len(todo)]
      /\ LeftOf(todo', HmacFromLast)
  <2>1. Len(HmacFromLast) \in Nat
    BY <1>8
  <2>2. /\ Len(todo) \in 1..Len(HmacFromLast) /\ Len(Tail(todo)) = Len(todo) - 1
        /\ Head(todo) = HmacFromLast[Len(todo)]
        /\ LeftOf(Tail(todo), HmacFromLast)
    BY <1>1, <1>2, <2>1, OneCallLess, Zenon
  <2>3. QED
    BY <1>1, <1>8, <2>2, Zenon
<1>10. LeftOf(todo, HmacFromLast)'
  BY <1>3, <1>9
<1>11. QED
  BY <1>1, <1>2, <1>4, <1>5, <1>6, <1>7, <1>9, <1>10

(* Which calls are to which function.                                      *)
LEMMA HmacOps ==
  ASSUME NEW l \in 1..11
  PROVE  /\ HmacFromLast[l].op = "SHA1Reset" => l \in {4, 8, 11}
         /\ HmacFromLast[l].op = "SHA1Input" => l \in {2, 3, 6, 7, 10}
         /\ HmacFromLast[l].op = "SHA1Result" => l \in {1, 5, 9}
<1>1. l \in {4, 8, 11} \/ l \in {2, 3, 6, 7, 10} \/ l \in {1, 5, 9}
  OBVIOUS
<1>2. CASE l \in {4, 8, 11}
  BY <1>2, HmacCalls, Zenon
<1>3. CASE l \in {2, 3, 6, 7, 10}
  BY <1>3, HmacCalls, Zenon
<1>4. CASE l \in {1, 5, 9}
  BY <1>4, HmacCalls, Zenon
<1>5. QED
  BY <1>1, <1>2, <1>3, <1>4

(* Two parts.                                                              *)
LEMMA AppendSecond == \A x, y : Append(<<x>>, y) = <<x, y>>
<1> SUFFICES ASSUME NEW x, NEW y PROVE Append(<<x>>, y) = <<x, y>>
  OBVIOUS
<1> DEFINE S == {x, y}
<1>1. x \in S /\ y \in S
  OBVIOUS
<1> HIDE DEF S
<1>2. <<x>> \in Seq(S) /\ <<x, y>> \in Seq(S) /\ Append(<<x>>, y) \in Seq(S)
  BY <1>1
<1>3. Len(Append(<<x>>, y)) = 2 /\ Append(<<x>>, y)[1] = x /\ Append(<<x>>, y)[2] = y
  BY <1>1
<1>4. /\ Len(<<x, y>>) = 2 /\ <<x, y>>[1] = x /\ <<x, y>>[2] = y
      /\ \A n \in 1..2 : n = 1 \/ n = 2
  OBVIOUS
<1>5. \A n \in 1..2 : Append(<<x>>, y)[n] = <<x, y>>[n]
  BY <1>3, <1>4
<1>6. QED
  BY <1>2, <1>3, <1>4, <1>5, SameOctets, Zenon

LEMMA HmacReset ==
  ASSUME ClientInv, user = "hmac", CallReset
  PROVE  HmacAt(Len(todo))' /\ length' = 0
<1>1. /\ Len(todo) \in 1..11 /\ Len(todo') = Len(todo) - 1
      /\ Head(todo) = HmacFromLast[Len(todo)]
      /\ HashedKey' = HashedKey /\ Inner' = Inner /\ keylen' = keylen
      /\ length = 0
  BY HmacCall
<1>2. /\ Head(todo).op = "SHA1Reset" /\ SHA1Reset /\ parts' = <<>>
      /\ key' = key /\ value' = value
  <2>1. Reset.op = "SHA1Reset"
    BY DEF Reset
  <2>2. QED
    BY <2>1, Zenon DEF CallReset
<1>3. Len(todo) \in {4, 8, 11}
  BY <1>1, <1>2, HmacOps, Zenon
<1>4. Taking(0)' /\ length' = 0
  BY <1>1, <1>2, ResetTakes
<1>5. HmacAt(Len(todo))
  BY DEF ClientInv
<1>6. CASE Len(todo) = 11
  BY <1>1, <1>2, <1>4, <1>5, <1>6 DEF HmacAt, Given
<1>7. CASE Len(todo) = 8
  BY <1>1, <1>2, <1>4, <1>5, <1>7 DEF HmacAt, Given
<1>8. CASE Len(todo) = 4
  BY <1>1, <1>2, <1>4, <1>5, <1>8 DEF HmacAt, Given
<1>9. QED
  BY <1>3, <1>4, <1>6, <1>7, <1>8

LEMMA HmacInput ==
  ASSUME IInv, ClientInv, user = "hmac", CallInput
  PROVE  /\ HmacAt(Len(todo))'
         /\ pc' = "ready" => length' = 0
<1>1. /\ Len(todo) \in 1..11 /\ Len(todo') = Len(todo) - 1
      /\ Head(todo) = HmacFromLast[Len(todo)]
      /\ HashedKey' = HashedKey /\ Inner' = Inner /\ Ipad' = Ipad /\ Opad' = Opad
      /\ keylen' = keylen /\ size' = size
      /\ length = 0
  BY HmacCall
<1>2. /\ Head(todo).op = "SHA1Input"
      /\ IF Head(todo).len = 0 THEN SHA1InputNothing ELSE SHA1Input(Head(todo).len)
      /\ parts' = Append(parts, Part(Head(todo).what))
      /\ key' = key /\ value' = value
  BY DEF CallInput
<1>3. Len(todo) \in {2, 3, 6, 7, 10}
  BY <1>1, <1>2, HmacOps, Zenon
<1>4. HmacAt(Len(todo))
  BY DEF ClientInv
<1>5. keylen \in Nat /\ size \in Nat /\ BlockLen \in Nat /\ DigestLen \in Nat
  BY ClientsAssumption, BlockAssumption DEF ClientInv, ClientType
<1>6. ASSUME NEW m \in Nat, NEW n \in Nat, Taking(m), Head(todo).len = n
      PROVE  Taking(m + n)' /\ (pc' = "ready" => length' = 0)
  BY <1>1, <1>2, <1>6, InputTakes
<1>7. CASE Len(todo) = 10
  <2>1. Taking(0) /\ parts = <<>> /\ Head(todo).len = keylen /\ Head(todo).what = "key"
    BY <1>1, <1>4, <1>7, HmacCalls DEF HmacAt, Given
  <2>2. Taking(0 + keylen)' /\ (pc' = "ready" => length' = 0)
    BY <1>1, <1>5, <1>6, <2>1 DEF Taking
  <2>3. parts' = <<Leaf("key")>>
    BY <1>2, <2>1 DEF Part
  <2>4. QED
    BY <1>1, <1>2, <1>4, <1>5, <1>7, <2>2, <2>3 DEF HmacAt, Given, Taking
<1>8. CASE Len(todo) = 7
  <2>1. /\ Taking(0) /\ parts = <<>> /\ key = HashedKey
        /\ Head(todo).len = BlockLen /\ Head(todo).what = "ipad"
    BY <1>1, <1>4, <1>8, HmacCalls DEF HmacAt, Given
  <2>2. Taking(0 + BlockLen)' /\ (pc' = "ready" => length' = 0)
    BY <1>1, <1>5, <1>6, <2>1 DEF Taking
  <2>3. parts' = <<Ipad>>
    BY <1>2, <2>1 DEF Part, Ipad
  <2>4. QED
    BY <1>1, <1>2, <1>4, <1>5, <1>8, <2>2, <2>3 DEF HmacAt, Given, Taking
<1>9. CASE Len(todo) = 6
  <2>1. /\ Taking(BlockLen) /\ parts = <<Ipad>>
        /\ Head(todo).len = size /\ Head(todo).what = "in"
    BY <1>1, <1>4, <1>9, HmacCalls DEF HmacAt, Given
  <2>2. Taking(BlockLen + size)' /\ (pc' = "ready" => length' = 0)
    BY <1>1, <1>5, <1>6, <2>1 DEF Taking
  <2>3. parts' = <<Ipad, Leaf("in")>>
    BY <1>2, <2>1, AppendSecond DEF Part
  <2>4. Given(BlockLen + size, <<Ipad, Leaf("in")>>)'
    BY <1>1, <2>2, <2>3, Zenon DEF Given
  <2>5. Len(todo') = 5 /\ key' = HashedKey'
    BY <1>1, <1>2, <1>4, <1>9 DEF HmacAt
  <2>6. QED
    BY <2>2, <2>4, <2>5 DEF HmacAt
<1>10. CASE Len(todo) = 3
  <2>1. /\ Taking(0) /\ parts = <<>> /\ key = HashedKey /\ value = Inner
        /\ Head(todo).len = BlockLen /\ Head(todo).what = "opad"
    BY <1>1, <1>4, <1>10, HmacCalls DEF HmacAt, Given
  <2>2. Taking(0 + BlockLen)' /\ (pc' = "ready" => length' = 0)
    BY <1>1, <1>5, <1>6, <2>1 DEF Taking
  <2>3. parts' = <<Opad>>
    BY <1>2, <2>1 DEF Part, Opad
  <2>4. QED
    BY <1>1, <1>2, <1>4, <1>5, <1>10, <2>1, <2>2, <2>3 DEF HmacAt, Given, Taking
<1>11. CASE Len(todo) = 2
  <2>1. /\ Taking(BlockLen) /\ parts = <<Opad>> /\ value = Inner
        /\ Head(todo).len = DigestLen /\ Head(todo).what = "digest"
    BY <1>1, <1>4, <1>11, HmacCalls DEF HmacAt, Given
  <2>2. Taking(BlockLen + DigestLen)' /\ (pc' = "ready" => length' = 0)
    BY <1>1, <1>5, <1>6, <2>1 DEF Taking
  <2>3. parts' = <<Opad, Inner>>
    BY <1>2, <2>1, AppendSecond DEF Part
  <2>4. Given(BlockLen + DigestLen, <<Opad, Inner>>)'
    BY <1>1, <2>2, <2>3, Zenon DEF Given
  <2>5. Len(todo') = 1 /\ key' = HashedKey' /\ value' = Inner'
    BY <1>1, <1>2, <1>4, <1>11, <2>1 DEF HmacAt
  <2>6. QED
    BY <2>2, <2>4, <2>5 DEF HmacAt
<1>12. QED
  BY <1>3, <1>7, <1>8, <1>9, <1>10, <1>11

LEMMA HmacResult ==
  ASSUME IInv, IInv', ClientInv, user = "hmac", CallResult
  PROVE  HmacAt(Len(todo))' /\ length' = 0
<1>1. /\ Len(todo) \in 1..11 /\ Len(todo') = Len(todo) - 1
      /\ Head(todo) = HmacFromLast[Len(todo)]
      /\ HashedKey' = HashedKey /\ Inner' = Inner /\ Ipad' = Ipad /\ Opad' = Opad
      /\ keylen' = keylen /\ size' = size
      /\ length = 0
  BY HmacCall
<1>2. /\ Head(todo).op = "SHA1Result" /\ SHA1Result
      /\ value' = Written /\ parts' = parts
      /\ key' = IF Head(todo).what = "tmpkey" THEN value' ELSE key
  BY DEF CallResult
<1>3. Len(todo) \in {1, 5, 9}
  BY <1>1, <1>2, HmacOps, Zenon
<1>4. HmacAt(Len(todo))
  BY DEF ClientInv
<1>5. keylen \in Nat /\ size \in Nat /\ BlockLen \in Nat /\ DigestLen \in Nat
  BY ClientsAssumption, BlockAssumption DEF ClientInv, ClientType
<1>6. ASSUME NEW n \in Nat, Taking(n)
      PROVE  digest' = Padded(n) /\ value' = H(parts) /\ length' = 0
  BY <1>1, <1>2, <1>6, ResultGives DEF Written
<1>7. CASE Len(todo) = 9
  <2>1. /\ Taking(keylen) /\ parts = <<Leaf("key")>> /\ Head(todo).what = "tmpkey"
        /\ KeyIsHashed(keylen)
    BY <1>1, <1>4, <1>7, HmacCalls DEF HmacAt, Given
  <2>2. value' = H(<<Leaf("key")>>) /\ length' = 0
    BY <1>5, <1>6, <2>1
  <2>3. key' = HashedKey
    BY <1>2, <2>1, <2>2 DEF HashedKey
  <2>4. QED
    BY <1>1, <1>7, <2>2, <2>3 DEF HmacAt
<1>8. CASE Len(todo) = 5
  <2>1. /\ Taking(BlockLen + size) /\ parts = <<Ipad, Leaf("in")>>
        /\ Head(todo).what = "digest" /\ key = HashedKey
    BY <1>1, <1>4, <1>8, HmacCalls DEF HmacAt, Given
  <2>2. value' = Inner /\ length' = 0
    BY <1>5, <1>6, <2>1 DEF Inner
  <2>3. key' = key
    BY <1>2, <2>1
  <2>4. QED
    BY <1>1, <1>8, <2>1, <2>2, <2>3 DEF HmacAt
<1>9. CASE Len(todo) = 1
  <2>1. /\ Taking(BlockLen + DigestLen) /\ parts = <<Opad, Inner>>
        /\ Head(todo).what = "resbuf" /\ key = HashedKey
    BY <1>1, <1>4, <1>9, HmacCalls DEF HmacAt, Given
  <2>2. digest' = Padded(BlockLen + DigestLen) /\ value' = H(<<Opad, Inner>>) /\ length' = 0
    BY <1>5, <1>6, <2>1
  <2>3. key' = key
    BY <1>2, <2>1
  <2>4. QED
    BY <1>1, <1>9, <2>1, <2>2, <2>3 DEF HmacAt
<1>10. QED
  BY <1>3, <1>7, <1>8, <1>9

-----------------------------------------------------------------------------
(* oauth_body_hash_data.                                                   *)
LEMMA DataCall ==
  ASSUME IInv, IInv', ClientInv, user = "data", CallReset \/ CallInput \/ CallResult
  PROVE  /\ LeftOf(todo, DataFromLast)'
         /\ DataAt(Len(todo))'
         /\ pc' = "ready" => length' = 0
         /\ UNCHANGED <<user, keylen, size, stage, offset, errors>>
<1>1. todo # <<>> /\ todo' = Tail(todo) /\ UNCHANGED <<args, file>> /\ pc = "ready"
  BY DEF CallReset, CallInput, CallResult, SHA1Reset, SHA1InputNothing, SHA1Input, SHA1Result
<1>2. LeftOf(todo, DataFromLast) /\ DataAt(Len(todo)) /\ length = 0 /\ size \in Nat
  BY <1>1 DEF ClientInv, ClientType
<1>3. UNCHANGED <<user, keylen, size, stage, offset, errors>>
  BY <1>1 DEF args, file
<1>4. DataFromLast' = DataFromLast
  BY <1>3 DEF DataFromLast
<1>5. Len(DataFromLast) = 3 /\ Len(DataFromLast) \in Nat
  BY DataCalls
<1>6. /\ Len(todo) \in 1..3 /\ Len(todo') = Len(todo) - 1
      /\ Head(todo) = DataFromLast[Len(todo)]
      /\ LeftOf(todo', DataFromLast)
  <2>1. /\ Len(todo) \in 1..Len(DataFromLast) /\ Len(Tail(todo)) = Len(todo) - 1
        /\ Head(todo) = DataFromLast[Len(todo)]
        /\ LeftOf(Tail(todo), DataFromLast)
    BY <1>1, <1>2, <1>5, OneCallLess, Zenon
  <2>2. QED
    BY <1>1, <1>5, <2>1, Zenon
<1>7. LeftOf(todo, DataFromLast)'
  BY <1>4, <1>6
<1>8. Len(todo) = 1 \/ Len(todo) = 2 \/ Len(todo) = 3
  BY <1>6
<1>9. CASE CallReset
  <2>1. Head(todo).op = "SHA1Reset" /\ SHA1Reset
    <3>1. Reset.op = "SHA1Reset"
      BY DEF Reset
    <3>2. QED
      BY <1>9, <3>1, Zenon DEF CallReset
  <2>2. Len(todo) = 3
    BY <1>6, <1>8, <2>1, DataCalls, Zenon
  <2>3. Taking(0)' /\ length' = 0
    BY <1>2, <2>1, ResetTakes
  <2>4. QED
    BY <1>3, <1>6, <1>7, <2>2, <2>3 DEF DataAt
<1>10. CASE CallInput
  <2>1. /\ Head(todo).op = "SHA1Input"
        /\ IF Head(todo).len = 0 THEN SHA1InputNothing ELSE SHA1Input(Head(todo).len)
    BY <1>10 DEF CallInput
  <2>2. Len(todo) = 2
    BY <1>6, <1>8, <2>1, DataCalls, Zenon
  <2>3. Head(todo).len = size /\ Taking(0)
    BY <1>2, <1>6, <2>2, DataCalls DEF DataAt
  <2>4. Taking(0 + size)' /\ (pc' = "ready" => length' = 0)
    BY <1>2, <1>3, <2>1, <2>3, InputTakes DEF Taking
  <2>5. QED
    BY <1>2, <1>3, <1>6, <1>7, <2>2, <2>4 DEF DataAt, Taking
<1>11. CASE CallResult
  <2>1. Head(todo).op = "SHA1Result" /\ SHA1Result
    BY <1>11 DEF CallResult
  <2>2. Len(todo) = 1
    BY <1>6, <1>8, <2>1, DataCalls, Zenon
  <2>3. Taking(size)
    BY <1>2, <2>2 DEF DataAt
  <2>4. digest' = Padded(size) /\ length' = 0
    BY <1>2, <2>1, <2>3, ResultGives
  <2>5. QED
    BY <1>3, <1>6, <1>7, <2>2, <2>4 DEF DataAt
<1>12. QED
  BY <1>3, <1>7, <1>9, <1>10, <1>11

-----------------------------------------------------------------------------
(* oauth_body_hash_file.                                                   *)
LEMMA FileStep ==
  ASSUME IInv, IInv', ClientInv, Fopen \/ Fread \/ FreadNothing
  PROVE  /\ ClientType' /\ FileAt'
         /\ pc' = "ready" => length' = 0
         /\ UNCHANGED <<user, todo>>
<1>1. user = "file" /\ UNCHANGED <<user, keylen, size, todo>>
  BY DEF Fopen, Fread, FreadNothing, args, mac
<1>2. ClientType /\ FileAt /\ (pc = "ready" => length = 0)
  BY <1>1 DEF ClientInv
<1>3. offset \in Nat /\ size \in Nat /\ offset <= size /\ errors \in Nat
  BY <1>2 DEF ClientType
<1>4. CASE Fopen
  <2>1. /\ stage = "open" /\ UNCHANGED <<offset, errors>>
        /\ \/ SHA1Reset /\ stage' = "read"
           \/ UNCHANGED vars /\ stage' = "done"
    BY <1>4 DEF Fopen
  <2>2. CASE SHA1Reset /\ stage' = "read"
    <3>1. length = 0
      BY <1>2, <2>2 DEF SHA1Reset
    <3>2. Taking(0)' /\ length' = 0
      BY <2>2, <3>1, ResetTakes
    <3>3. FileAt'
      BY <1>2, <2>1, <2>2, <3>2 DEF FileAt
    <3>4. QED
      BY <1>1, <1>2, <2>1, <2>2, <3>2, <3>3 DEF ClientType
  <2>3. CASE UNCHANGED vars /\ stage' = "done"
    <3>1. UNCHANGED <<pc, length, digest>>
      BY <2>3 DEF vars
    <3>2. QED
      BY <1>1, <1>2, <2>1, <2>3, <3>1 DEF ClientType, FileAt
  <2>4. QED
    BY <2>1, <2>2, <2>3
<1>5. CASE Fread
  <2>1. PICK n \in 1..ReadLen :
          /\ offset + n <= size
          /\ errors' = errors \/ errors' = errors + 1
          /\ SHA1Input(n)
          /\ offset' = offset + n
    BY <1>5 DEF Fread
  <2>2. stage = "read" /\ stage' = stage
    BY <1>5 DEF Fread
  <2>3. n \in Nat \ {0} /\ pc = "ready"
    BY <2>1, ClientsAssumption DEF SHA1Input
  <2>4. Taking(offset) /\ length = 0
    BY <1>2, <2>2, <2>3 DEF FileAt
  <2>5. ASSUME NEW m \in Nat, Taking(m)
        PROVE  /\ ~ computed' /\ corrupted' = shaSuccess /\ fed' + length' = m + n
               /\ pc' = "ready" => length' = 0
    BY <2>1, <2>3, <2>4, <2>5, InputTakes DEF Taking
  <2>6. FileAt' /\ (pc' = "ready" => length' = 0)
    BY <1>3, <2>1, <2>2, <2>4, <2>5 DEF FileAt, Taking
  <2>7. ClientType'
    BY <1>1, <1>2, <1>3, <2>1, <2>2, <2>3 DEF ClientType
  <2>8. QED
    BY <1>1, <2>6, <2>7
<1>6. CASE FreadNothing
  <2>1. /\ stage = "read" /\ stage' = "done" /\ offset' = offset
        /\ errors' = (IF offset = size THEN errors ELSE errors + 1)
        /\ SHA1Result
    BY <1>6 DEF FreadNothing
  <2>2. Taking(offset) /\ length = 0
    BY <1>2, <2>1 DEF FileAt, SHA1Result
  <2>3. digest' = Padded(offset) /\ length' = 0
    BY <1>3, <2>1, <2>2, ResultGives
  <2>4. FileAt'
    BY <1>1, <1>3, <2>1, <2>3 DEF FileAt
  <2>5. ClientType'
    BY <1>1, <1>2, <1>3, <2>1 DEF ClientType
  <2>6. QED
    BY <1>1, <2>3, <2>4, <2>5
<1>7. QED
  BY <1>4, <1>5, <1>6

-----------------------------------------------------------------------------
(* The loop of SHA1Input, and a program of its own.                        *)
Fits(n) == n \in Nat /\ n <= MaxFed /\ 8 * n < LowMod * HighMod

LEMMA WhatIsHashedFits ==
  ASSUME ClientType
  PROVE  /\ user = "hmac" =>
              \A n \in {0, BlockLen, BlockLen + DigestLen, keylen, BlockLen + size} : Fits(n)
         /\ user = "data" => Fits(0) /\ Fits(size)
         /\ user = "file" => Fits(size) /\ Fits(offset)
<1>1. /\ BlockLen \in Nat /\ DigestLen \in Nat /\ keylen \in Nat /\ size \in Nat
      /\ offset \in Nat /\ offset <= size /\ MaxFed \in Nat
      /\ LowMod \in Nat /\ HighMod \in Nat /\ LowMod * HighMod \in Nat
  BY ClientsAssumption, BlockAssumption, BoundsAssumption, LengthAssumption DEF ClientType
<1>2. ASSUME NEW n \in Lengths, n \in Nat, NEW m \in 0..n
      PROVE  Fits(m)
  BY <1>1, <1>2, LengthsAssumption DEF Fits
<1>3. BlockLen + DigestLen \in Lengths
  BY DEF Lengths
<1>4. user = "hmac" => keylen \in Lengths /\ BlockLen + size \in Lengths
  BY DEF Lengths, ClientType
<1>5. user \in {"data", "file"} => size \in Lengths
  BY DEF Lengths, ClientType
<1>6. /\ BlockLen + DigestLen \in Nat /\ BlockLen + size \in Nat
      /\ 0 \in 0..(BlockLen + DigestLen) /\ BlockLen \in 0..(BlockLen + DigestLen)
      /\ BlockLen + DigestLen \in 0..(BlockLen + DigestLen)
      /\ keylen \in 0..keylen /\ BlockLen + size \in 0..(BlockLen + size)
      /\ 0 \in 0..size /\ size \in 0..size /\ offset \in 0..size
  BY <1>1
<1>7. user = "hmac" => \A n \in {0, BlockLen, BlockLen + DigestLen, keylen, BlockLen + size} : Fits(n)
  BY <1>2, <1>3, <1>4, <1>6
<1>8. user \in {"data", "file"} => Fits(0) /\ Fits(size) /\ Fits(offset)
  BY <1>1, <1>2, <1>5, <1>6
<1>9. QED
  BY <1>7, <1>8

LEMMA LoopKeeps == IInv /\ ClientInv /\ ClientInput => ClientInv'
<1> SUFFICES ASSUME IInv, ClientInv, ClientInput PROVE ClientInv'
  OBVIOUS
<1>1. /\ user # "program"
      /\ InputOctet \/ InputReturns
      /\ UNCHANGED <<user, keylen, size, todo, key, parts, value, stage, offset, errors>>
  BY DEF ClientInput, args, mac, file
<1>2. digest' = digest
  BY <1>1 DEF InputOctet, InputReturns
<1>3. ClientType /\ ClientType'
  BY <1>1 DEF ClientInv, ClientType
<1>4. LowMod * HighMod \in Nat
  BY LengthAssumption
<1>5. ASSUME NEW n \in Nat, 8 * n < LowMod * HighMod, Taking(n)
      PROVE  ~ computed' /\ corrupted' = shaSuccess /\ fed' + length' = n
  BY <1>1, <1>5, LoopTakes DEF Taking
<1>6. pc' = "ready" => length' = 0
  BY <1>1 DEF InputOctet, InputReturns
<1>7. HashedKey' = HashedKey /\ Ipad' = Ipad /\ Opad' = Opad /\ Inner' = Inner
  <2>1. HashedKey' = HashedKey
    BY <1>1 DEF HashedKey
  <2>2. Ipad' = Ipad /\ Opad' = Opad
    BY <2>1 DEF Ipad, Opad
  <2>3. QED
    BY <2>1, <2>2 DEF Inner
<1>8. CASE user = "hmac"
  <2>1. LeftOf(todo, HmacFromLast)'
    <3>1. LeftOf(todo, HmacFromLast) /\ HmacFromLast' = HmacFromLast
      BY <1>1, <1>8 DEF ClientInv, HmacFromLast
    <3>2. QED
      BY <1>1, <3>1 DEF LeftOf
  <2>2. \A n \in {0, BlockLen, BlockLen + DigestLen, keylen, BlockLen + size} :
          n \in Nat /\ 8 * n < LowMod * HighMod
    BY <1>3, <1>8, WhatIsHashedFits DEF Fits
  <2>3. \A n \in {0, BlockLen, BlockLen + DigestLen, keylen, BlockLen + size} :
          Taking(n) => ~ computed' /\ corrupted' = shaSuccess /\ fed' + length' = n
    BY <1>5, <2>2
  <2>4. HmacAt(Len(todo))
    BY <1>8 DEF ClientInv
  <2>5. HmacAt(Len(todo))'
    BY <1>1, <1>2, <1>7, <2>3, <2>4 DEF HmacAt, Given, Taking
  <2>6. QED
    BY <1>1, <1>3, <1>6, <1>8, <2>1, <2>5 DEF ClientInv
<1>9. CASE user = "data"
  <2>1. LeftOf(todo, DataFromLast)'
    <3>1. LeftOf(todo, DataFromLast) /\ DataFromLast' = DataFromLast
      BY <1>1, <1>9 DEF ClientInv, DataFromLast
    <3>2. QED
      BY <1>1, <3>1 DEF LeftOf
  <2>2. \A n \in {0, size} : n \in Nat /\ 8 * n < LowMod * HighMod
    BY <1>3, <1>9, WhatIsHashedFits DEF Fits
  <2>3. DataAt(Len(todo))
    BY <1>9 DEF ClientInv
  <2>4. DataAt(Len(todo))'
    BY <1>1, <1>2, <1>5, <2>2, <2>3 DEF DataAt, Taking
  <2>5. QED
    BY <1>1, <1>3, <1>6, <1>9, <2>1, <2>4 DEF ClientInv
<1>10. CASE user = "file"
  <2>1. offset \in Nat /\ 8 * offset < LowMod * HighMod
    BY <1>3, <1>10, WhatIsHashedFits DEF Fits
  <2>2. FileAt
    BY <1>10 DEF ClientInv
  <2>3. FileAt'
    BY <1>1, <1>2, <1>5, <2>1, <2>2 DEF FileAt, Taking
  <2>4. todo = <<>>
    BY <1>10 DEF ClientInv
  <2>5. QED
    BY <1>1, <1>3, <1>6, <1>10, <2>3, <2>4 DEF ClientInv
<1>11. QED
  BY <1>1, <1>3, <1>8, <1>9, <1>10 DEF ClientType

LEMMA ProgramKeeps == ClientInv /\ Program => ClientInv'
<1> SUFFICES ASSUME ClientInv, Program PROVE ClientInv'
  OBVIOUS
<1>1. /\ user = "program" /\ Next
      /\ UNCHANGED <<user, keylen, size, todo, stage, offset, errors>>
  BY DEF Program, args, mac, file
<1>2. pc' = "ready" => length' = 0
  BY <1>1 DEF ClientInv, Next, SHA1Reset, SHA1InputNothing, SHA1InputNull, SHA1Input,
              InputOctet, InputReturns, SHA1Result
<1>3. QED
  BY <1>1, <1>2 DEF ClientInv, ClientType

LEMMA ClientStutterKeeps == ClientInv /\ UNCHANGED clientVars => ClientInv'
<1> SUFFICES ASSUME ClientInv, UNCHANGED clientVars PROVE ClientInv'
  OBVIOUS
<1>1. UNCHANGED <<user, keylen, size, todo, key, parts, value, stage, offset, errors,
                  computed, corrupted, length, pc, fed, digest>>
  BY DEF clientVars, args, mac, file, vars, context
<1>2. ClientType' /\ FileAt' = FileAt /\ DataAt(Len(todo))' = DataAt(Len(todo))
  BY <1>1 DEF ClientInv, ClientType, FileAt, DataAt, Taking
<1>3. HashedKey' = HashedKey /\ Ipad' = Ipad /\ Opad' = Opad /\ Inner' = Inner
  <2>1. HashedKey' = HashedKey
    BY <1>1 DEF HashedKey
  <2>2. Ipad' = Ipad /\ Opad' = Opad
    BY <2>1 DEF Ipad, Opad
  <2>3. QED
    BY <2>1, <2>2 DEF Inner
<1>4. HmacAt(Len(todo))' = HmacAt(Len(todo))
  BY <1>1, <1>3 DEF HmacAt, Given, Taking
<1>5. HmacFromLast' = HmacFromLast /\ DataFromLast' = DataFromLast
  BY <1>1 DEF HmacFromLast, DataFromLast
<1>6. LeftOf(todo, HmacFromLast)' = LeftOf(todo, HmacFromLast)
  BY <1>1, <1>5 DEF LeftOf
<1>7. LeftOf(todo, DataFromLast)' = LeftOf(todo, DataFromLast)
  BY <1>1, <1>5 DEF LeftOf
<1>8. QED
  BY <1>1, <1>2, <1>4, <1>6, <1>7 DEF ClientInv

-----------------------------------------------------------------------------
(* hash.c never uses a context in another way than a program may.          *)
LEMMA ClientStepIsAStep ==
  IInv /\ ClientInv /\ [ClientNext]_clientVars => [Next]_vars
<1> SUFFICES ASSUME IInv, ClientInv, ClientNext PROVE [Next]_vars
  BY DEF clientVars
<1>1. BlockLen \in Nat /\ DigestLen \in 1..BlockLen /\ ReadLen \in Nat /\ MaxFed \in Nat
      /\ MaxChunk \in Nat
  BY ClientsAssumption, BlockAssumption, BoundsAssumption
<1>2. /\ BlockLen <= MaxChunk /\ ReadLen <= MaxChunk
      /\ \A n \in KeyLens \cup InLens : n <= MaxChunk
  BY LengthsAssumption
<1>3. ClientType
  BY DEF ClientInv
<1>4. keylen \in Nat /\ size \in Nat /\ offset \in Nat
  BY <1>3 DEF ClientType
<1>5. ASSUME NEW n \in Nat, NEW m \in Nat, Taking(m), n <= MaxChunk, m + n <= MaxFed,
             length = 0,
             IF n = 0 THEN SHA1InputNothing ELSE SHA1Input(n)
      PROVE  Next
  <2>1. fed = m
    BY <1>5 DEF Taking, IInv, TypeOK
  <2>2. CASE n = 0
    BY <1>5, <2>2 DEF Next
  <2>3. CASE n # 0
    <3>1. n \in 1..MaxChunk /\ fed + n <= MaxFed /\ SHA1Input(n)
      BY <1>1, <1>5, <2>1, <2>3
    <3>2. QED
      BY <3>1 DEF Next
  <2>4. QED
    BY <2>2, <2>3
<1>6. CASE Program
  BY <1>6 DEF Program
<1>7. CASE CallReset
  BY <1>7 DEF CallReset, Next
<1>8. CASE CallResult
  BY <1>8 DEF CallResult, Next
<1>9. CASE ClientInput
  BY <1>9 DEF ClientInput, Next
<1>10. CASE FreadNothing
  BY <1>10 DEF FreadNothing, Next
<1>11. CASE Fopen
  BY <1>11 DEF Fopen, Next
<1>12. CASE Fread
  <2>1. PICK n \in 1..ReadLen : offset + n <= size /\ SHA1Input(n)
    BY <1>12 DEF Fread
  <2>2. user = "file" /\ stage = "read" /\ pc = "ready"
    BY <1>12, <2>1 DEF Fread, SHA1Input
  <2>3. Taking(offset) /\ length = 0
    BY <2>2 DEF ClientInv, FileAt
  <2>4. size <= MaxFed
    BY <1>3, <2>2, WhatIsHashedFits DEF Fits
  <2>5. n \in Nat /\ n # 0 /\ n <= MaxChunk /\ offset + n <= MaxFed
    BY <1>1, <1>2, <1>4, <2>1, <2>4
  <2>6. QED
    BY <1>4, <1>5, <2>1, <2>3, <2>5
<1>13. CASE CallInput
  <2>1. /\ todo # <<>> /\ Head(todo).op = "SHA1Input" /\ pc = "ready"
        /\ IF Head(todo).len = 0 THEN SHA1InputNothing ELSE SHA1Input(Head(todo).len)
    BY <1>13 DEF CallInput, SHA1InputNothing, SHA1Input
  <2>2. length = 0
    BY <2>1 DEF ClientInv
  <2>3. CASE user = "hmac"
    <3>1. Len(todo) \in 1..11 /\ Head(todo) = HmacFromLast[Len(todo)]
      BY <1>13, <2>3, HmacCall
    <3>2. Len(todo) \in {2, 3, 6, 7, 10} /\ HmacAt(Len(todo))
      BY <2>1, <2>3, <3>1, HmacOps, Zenon DEF ClientInv
    <3>3. keylen \in KeyLens /\ size \in InLens
      BY <1>3, <2>3 DEF ClientType
    <3>4. \A n \in {0, BlockLen, BlockLen + DigestLen, keylen, BlockLen + size} :
            n \in Nat /\ n <= MaxFed
      BY <1>3, <2>3, WhatIsHashedFits DEF Fits
    <3>5. CASE Len(todo) = 10
      <4>1. Taking(0) /\ Head(todo).len = keylen
        BY <3>1, <3>2, <3>5, HmacCalls DEF HmacAt, Given
      <4>2. QED
        BY <1>2, <1>4, <1>5, <2>1, <2>2, <3>3, <3>4, <4>1
    <3>6. CASE Len(todo) \in {3, 7}
      <4>1. Taking(0) /\ Head(todo).len = BlockLen
        BY <3>1, <3>2, <3>6, HmacCalls DEF HmacAt, Given
      <4>2. QED
        BY <1>1, <1>2, <1>5, <2>1, <2>2, <3>4, <4>1
    <3>7. CASE Len(todo) = 6
      <4>1. Taking(BlockLen) /\ Head(todo).len = size
        BY <3>1, <3>2, <3>7, HmacCalls DEF HmacAt, Given
      <4>2. QED
        BY <1>1, <1>2, <1>4, <1>5, <2>1, <2>2, <3>3, <3>4, <4>1
    <3>8. CASE Len(todo) = 2
      <4>1. Taking(BlockLen) /\ Head(todo).len = DigestLen
        BY <3>1, <3>2, <3>8, HmacCalls DEF HmacAt, Given
      <4>2. DigestLen \in Nat /\ DigestLen <= MaxChunk
        BY <1>1, <1>2
      <4>3. QED
        BY <1>1, <1>5, <2>1, <2>2, <3>4, <4>1, <4>2
    <3>9. QED
      BY <3>2, <3>5, <3>6, <3>7, <3>8
  <2>4. CASE user = "data"
    <3>1. LeftOf(todo, DataFromLast) /\ DataAt(Len(todo))
      BY <2>4 DEF ClientInv
    <3>2. Len(todo) \in 1..3 /\ Head(todo) = DataFromLast[Len(todo)]
      <4>1. Len(DataFromLast) = 3 /\ Len(DataFromLast) \in Nat
        BY DataCalls
      <4>2. Len(todo) \in 1..Len(DataFromLast) /\ Head(todo) = DataFromLast[Len(todo)]
        BY <2>1, <3>1, <4>1, OneCallLess, Zenon
      <4>3. QED
        BY <4>1, <4>2
    <3>3. Len(todo) = 1 \/ Len(todo) = 2 \/ Len(todo) = 3
      BY <3>2
    <3>4. Len(todo) = 2
      BY <2>1, <3>2, <3>3, DataCalls, Zenon
    <3>5. Taking(0) /\ Head(todo).len = size
      BY <3>1, <3>2, <3>4, DataCalls DEF DataAt
    <3>6. size \in InLens /\ size <= MaxFed
      BY <1>3, <2>4, WhatIsHashedFits DEF ClientType, Fits
    <3>7. QED
      BY <1>2, <1>4, <1>5, <2>1, <2>2, <3>5, <3>6
  <2>5. CASE user \in {"program", "file"}
    BY <2>1, <2>5 DEF ClientInv
  <2>6. QED
    BY <1>3, <2>3, <2>4, <2>5 DEF ClientType
<1>14. QED
  BY <1>6, <1>7, <1>8, <1>9, <1>10, <1>11, <1>12, <1>13 DEF ClientNext

-----------------------------------------------------------------------------
LEMMA HmacIsFromLast ==
  /\ LeftOf(Hmac(keylen, size), HmacFromLast)
  /\ Len(Hmac(keylen, size)) = IF KeyIsHashed(keylen) THEN 11 ELSE 8
<1> DEFINE S == {HmacFromLast[n] : n \in 1..11}
<1> DEFINE k == IF KeyIsHashed(keylen)
                  THEN <<Reset, Input("key", keylen), Result("tmpkey")>> ELSE <<>>
<1> DEFINE i == <<Reset, Input("ipad", BlockLen), Input("in", size), Result("digest")>>
<1> DEFINE o == <<Reset, Input("opad", BlockLen), Input("digest", DigestLen), Result("resbuf")>>
<1> DEFINE l == IF KeyIsHashed(keylen) THEN 3 ELSE 0
<1>1. /\ Len(HmacFromLast) = 11
      /\ HmacFromLast[1] = Result("resbuf") /\ HmacFromLast[2] = Input("digest", DigestLen)
      /\ HmacFromLast[3] = Input("opad", BlockLen) /\ HmacFromLast[4] = Reset
      /\ HmacFromLast[5] = Result("digest") /\ HmacFromLast[6] = Input("in", size)
      /\ HmacFromLast[7] = Input("ipad", BlockLen) /\ HmacFromLast[8] = Reset
      /\ HmacFromLast[9] = Result("tmpkey") /\ HmacFromLast[10] = Input("key", keylen)
      /\ HmacFromLast[11] = Reset
  BY DEF HmacFromLast
<1>2. /\ Reset \in S /\ Input("key", keylen) \in S /\ Result("tmpkey") \in S
      /\ Input("ipad", BlockLen) \in S /\ Input("in", size) \in S /\ Result("digest") \in S
      /\ Input("opad", BlockLen) \in S /\ Input("digest", DigestLen) \in S
      /\ Result("resbuf") \in S
  BY <1>1
<1>3. Hmac(keylen, size) = (k \o i) \o o
  BY DEF Hmac
<1> HIDE DEF S
<1>4. /\ k \in Seq(S) /\ i \in Seq(S) /\ o \in Seq(S)
      /\ Len(k) = l /\ Len(i) = 4 /\ Len(o) = 4
  BY <1>2
<1>5. /\ l = 3 => k[1] = HmacFromLast[11] /\ k[2] = HmacFromLast[10] /\ k[3] = HmacFromLast[9]
      /\ \A n \in 1..4 : i[n] = HmacFromLast[9 - n] /\ o[n] = HmacFromLast[5 - n]
  BY <1>1
<1>6. l \in {0, 3} /\ l + 8 = IF KeyIsHashed(keylen) THEN 11 ELSE 8
  OBVIOUS
<1> HIDE DEF k, i, o, l
<1> DEFINE a == k \o i
<1> DEFINE w == a \o o
<1>7. /\ a \in Seq(S) /\ Len(a) = l + 4
      /\ \A n \in 1..(l + 4) : a[n] = IF n <= l THEN k[n] ELSE i[n - l]
  <2>1. /\ a \in Seq(S) /\ Len(a) = Len(k) + Len(i)
        /\ \A n \in 1..(Len(k) + Len(i)) : a[n] = IF n <= Len(k) THEN k[n] ELSE i[n - Len(k)]
    BY <1>4, Concat, Zenon
  <2>2. QED
    BY <1>4, <2>1, Zenon
<1>8. /\ w \in Seq(S) /\ Len(w) = l + 8
      /\ \A n \in 1..(l + 8) : w[n] = IF n <= l + 4 THEN a[n] ELSE o[n - (l + 4)]
  <2>1. /\ w \in Seq(S) /\ Len(w) = Len(a) + Len(o)
        /\ \A n \in 1..(Len(a) + Len(o)) :
             w[n] = IF n <= Len(a) THEN a[n] ELSE o[n - Len(a)]
    BY <1>4, <1>7, Concat, Zenon
  <2>2. (l + 4) + 4 = l + 8
    BY <1>6
  <2>3. QED
    BY <1>4, <1>7, <2>1, <2>2, Zenon
<1> HIDE DEF a, w
<1>9. ASSUME NEW n \in 1..(l + 8)
      PROVE  w[n] = HmacFromLast[l + 9 - n]
  <2>1. CASE n <= l
    <3>1. l = 3 /\ (n = 1 \/ n = 2 \/ n = 3) /\ w[n] = k[n]
      BY <1>6, <1>7, <1>8, <2>1
    <3>2. /\ n = 1 => l + 9 - n = 11
          /\ n = 2 => l + 9 - n = 10
          /\ n = 3 => l + 9 - n = 9
      BY <3>1
    <3>3. QED
      BY <1>5, <3>1, <3>2, Zenon
  <2>2. CASE n > l /\ n <= l + 4
    <3>1. n - l \in 1..4 /\ 9 - (n - l) = l + 9 - n
      BY <1>6, <2>2
    <3>2. QED
      BY <1>5, <1>6, <1>7, <1>8, <2>2, <3>1
  <2>3. CASE n > l + 4
    <3>1. n - (l + 4) \in 1..4 /\ 5 - (n - (l + 4)) = l + 9 - n
      BY <1>6, <2>3
    <3>2. QED
      BY <1>5, <1>6, <1>8, <2>3, <3>1
  <2>4. QED
    BY <1>6, <2>1, <2>2, <2>3
<1>10. QED
  <2>1. Hmac(keylen, size) = w
    BY <1>3 DEF a, w, k, i, o
  <2>2. l + 8 \in Nat /\ \A n \in 1..(l + 8) : (l + 8) + 1 - n = l + 9 - n
    BY <1>6
  <2>3. LeftOf(w, HmacFromLast)
    BY <1>1, <1>6, <1>8, <1>9, <2>2 DEF LeftOf, S
  <2>4. QED
    BY <1>6, <1>8, <2>1, <2>3

LEMMA ClientInitIsInv == ClientInit => ClientInv
<1> SUFFICES ASSUME ClientInit PROVE ClientInv
  OBVIOUS
<1>1. /\ Init /\ user \in Users
      /\ keylen \in IF user = "hmac" THEN KeyLens ELSE {0}
      /\ size \in CASE user \in {"hmac", "data"} -> InLens
                   [] user = "file" -> FileLens
                   [] user = "program" -> {0}
      /\ todo = CASE user = "hmac" -> Hmac(keylen, size)
                  [] user = "data" -> BodyHashData(size)
                  [] OTHER -> <<>>
      /\ key = Leaf("key") /\ stage = "open" /\ offset = 0 /\ errors = 0
  BY DEF ClientInit
<1>2. user \in {"program", "hmac", "data", "file"}
  BY <1>1, ClientsAssumption
<1>3. ClientType
  BY <1>1, <1>2, ClientsAssumption DEF ClientType
<1>4. length = 0 /\ digest = <<>>
  BY <1>1 DEF Init
<1>5. CASE user \in {"program", "file"}
  BY <1>1, <1>3, <1>4, <1>5 DEF ClientInv, FileAt
<1>6. CASE user = "data"
  <2>1. todo = <<Reset, Input("data", size), Result("digest")>>
    BY <1>1, <1>6 DEF BodyHashData
  <2>2. LeftOf(todo, DataFromLast)
    <3> DEFINE S == {DataFromLast[n] : n \in 1..3}
    <3>1. /\ Len(DataFromLast) = 3 /\ DataFromLast[1] = Result("digest")
          /\ DataFromLast[2] = Input("data", size) /\ DataFromLast[3] = Reset
      BY DEF DataFromLast
    <3>2. Reset \in S /\ Input("data", size) \in S /\ Result("digest") \in S
      BY <3>1
    <3> HIDE DEF S
    <3>3. todo \in Seq(S) /\ Len(todo) = 3
      BY <2>1, <3>2
    <3>4. todo[1] = DataFromLast[3] /\ todo[2] = DataFromLast[2] /\ todo[3] = DataFromLast[1]
      BY <2>1, <3>1
    <3>5. \A n \in 1..Len(todo) : todo[n] = DataFromLast[Len(todo) + 1 - n]
      BY <3>3, <3>4
    <3>6. QED
      BY <3>1, <3>3, <3>5 DEF LeftOf, S
  <2>3. Len(todo) = 3
    BY <2>1
  <2>4. QED
    BY <1>3, <1>4, <1>6, <2>2, <2>3 DEF ClientInv, DataAt
<1>7. CASE user = "hmac"
  <2>1. todo = Hmac(keylen, size)
    BY <1>1, <1>7
  <2>2. LeftOf(todo, HmacFromLast)
    BY <2>1, HmacIsFromLast
  <2>3. /\ KeyIsHashed(keylen) => Len(todo) = 11
        /\ ~ KeyIsHashed(keylen) => Len(todo) = 8
    BY <2>1, HmacIsFromLast
  <2>4. key = Leaf("key")
    BY <1>1
  <2>5. Len(todo) = 11 => HmacAt(Len(todo))
    BY <2>3, <2>4 DEF HmacAt
  <2>6. Len(todo) = 8 => HmacAt(Len(todo))
    BY <2>3, <2>4 DEF HmacAt, HashedKey
  <2>7. QED
    BY <1>3, <1>4, <1>7, <2>2, <2>3, <2>5, <2>6 DEF ClientInv
<1>8. QED
  BY <1>2, <1>5, <1>6, <1>7

LEMMA ClientNextKeeps ==
  IInv /\ ClientInv /\ [ClientNext]_clientVars => IInv' /\ ClientInv'
<1> SUFFICES ASSUME IInv, ClientInv, [ClientNext]_clientVars PROVE IInv' /\ ClientInv'
  OBVIOUS
<1>1. IInv'
  BY ClientStepIsAStep, NextKeepsIInv
<1>2. CASE UNCHANGED clientVars
  BY <1>1, <1>2, ClientStutterKeeps
<1>3. CASE Program
  BY <1>1, <1>3, ProgramKeeps
<1>4. CASE ClientInput
  BY <1>1, <1>4, LoopKeeps
<1>5. CASE Fopen \/ Fread \/ FreadNothing
  <2>1. user = "file" /\ user' = user /\ todo' = todo
    BY <1>5 DEF Fopen, Fread, FreadNothing, args, mac
  <2>2. ClientType' /\ FileAt' /\ (pc' = "ready" => length' = 0)
    BY <1>1, <1>5, FileStep
  <2>3. QED
    BY <1>1, <2>1, <2>2 DEF ClientInv
<1>6. CASE CallReset \/ CallInput \/ CallResult
  <2>1. todo # <<>>
    BY <1>6 DEF CallReset, CallInput, CallResult
  <2>2. CASE user = "hmac"
    <3>1. LeftOf(todo, HmacFromLast)' /\ UNCHANGED <<user, keylen, size, stage, offset, errors>>
      BY <1>6, <2>2, HmacCall
    <3>2. HmacAt(Len(todo))' /\ (pc' = "ready" => length' = 0)
      BY <1>1, <1>6, <2>2, HmacReset, HmacInput, HmacResult
    <3>3. ClientType'
      BY <3>1 DEF ClientInv, ClientType
    <3>4. QED
      BY <1>1, <2>2, <3>1, <3>2, <3>3 DEF ClientInv
  <2>3. CASE user = "data"
    <3>1. /\ LeftOf(todo, DataFromLast)' /\ DataAt(Len(todo))'
          /\ pc' = "ready" => length' = 0
          /\ UNCHANGED <<user, keylen, size, stage, offset, errors>>
      BY <1>1, <1>6, <2>3, DataCall
    <3>2. ClientType'
      BY <3>1 DEF ClientInv, ClientType
    <3>3. QED
      BY <1>1, <2>3, <3>1, <3>2 DEF ClientInv
  <2>4. QED
    BY <2>1, <2>2, <2>3 DEF ClientInv, ClientType
<1>7. QED
  BY <1>2, <1>3, <1>4, <1>5, <1>6 DEF ClientNext

LEMMA ClientInvariance == ClientSpec => [](IInv /\ ClientInv)
<1>1. ClientInit => IInv /\ ClientInv
  BY ClientInitIsInv, InitIsIInv DEF ClientInit
<1>2. QED
  BY <1>1, ClientNextKeeps, PTL DEF ClientSpec

(* The functions of hash.c use a context as any program may, so that       *)
(* whatever is shown of the calls of sha1.c in any order holds of a hash   *)
(* they make: its block never overflows, its digest is that of the padded  *)
(* message, and stays (hash.c:19-119, sha1.c:57-331).                      *)
THEOREM ClientsUseTheContext == ClientSpec => Spec
<1>1. ClientInit => Init
  BY DEF ClientInit
<1>2. QED
  BY <1>1, ClientInvariance, ClientStepIsAStep, PTL DEF ClientSpec, Spec

(* What hmac_sha1 writes is the HMAC of RFC 2104, though it looks at none  *)
(* of the answers of SHA1Reset, SHA1Input and SHA1Result: for keys and     *)
(* messages of every length, empty ones and those of just a block among    *)
(* them (hash.c:19-57).                                                    *)
THEOREM MacIsRfc2104 == ClientSpec => []MacIsHmac
<1>1. ClientInv => MacIsHmac
  <2> SUFFICES ASSUME ClientInv, user = "hmac", todo = <<>>, pc = "ready" PROVE MacIsHmac
    BY DEF MacIsHmac
  <2> DEFINE k == IF keylen <= BlockLen THEN Leaf("key") ELSE H(<<Leaf("key")>>)
  <2>1. keylen \in Nat /\ BlockLen \in Nat /\ Len(todo) = 0
    BY BlockAssumption DEF ClientInv, ClientType
  <2>2. value = H(<<Opad, Inner>>) /\ digest = Padded(BlockLen + DigestLen)
    BY <2>1 DEF ClientInv, HmacAt
  <2>3. HashedKey = k
    BY <2>1 DEF HashedKey, KeyIsHashed
  <2>4. QED
    BY <2>2, <2>3 DEF MacIsHmac, Opad, Ipad, Inner
<1>2. QED
  BY <1>1, ClientInvariance, PTL

(* A body hash is that of the whole of the data or of the file, however    *)
(* fread cuts the file up, unless a read fails (hash.c:72-119).            *)
THEOREM BodyHashIsWhole == ClientSpec => []BodyHashIsOfBody
<1>1. ClientInv => BodyHashIsOfBody
  <2> SUFFICES ASSUME ClientInv, BodyHashed, errors = 0 PROVE digest = Padded(size)
    BY DEF BodyHashIsOfBody
  <2>1. CASE user = "data" /\ todo = <<>>
    BY <2>1 DEF ClientInv, DataAt
  <2>2. CASE user = "file" /\ stage = "done" /\ digest # <<>>
    BY <2>2 DEF ClientInv, FileAt
  <2>3. QED
    BY <2>1, <2>2 DEF BodyHashed
<1>2. QED
  BY <1>1, ClientInvariance, PTL

(* In the calls of hash.c too, whatever the context gives is the digest of *)
(* the octets it was fed, padded as the standard says (sha1.c:102-331).    *)
THEOREM ClientsDigestTheirMessage == ClientSpec => []DigestOfPaddedMessage
BY ClientsUseTheContext, DigestIsOfTheMessage, PTL

=============================================================================
