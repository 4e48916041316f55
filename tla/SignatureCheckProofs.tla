------------------------ MODULE SignatureCheckProofs ------------------------
(***************************************************************************)
(* Proofs that encoding and decoding stay inside their buffers and that    *)
(* the comparison that never stops early is equality, for octets and       *)
(* strings of every length.                                                *)
(***************************************************************************)
EXTENDS SignatureCheck, Integers, TLAPS

(* Four characters have been written for each three octets begun; while    *)
(* decoding, three octets at most for each four characters taken.          *)
Coding ==
  /\ alloc = Alloc(size)
  /\ 3 * Len(out) = 4 * i
  /\ \E q \in Nat : i = 3 * q
  /\ i <= size + 2
  /\ pc \in {"encode", "encoded"} => buf = <<>> /\ k = 0 /\ dest = <<>>
  /\ pc = "filter" => dest = <<>> /\ Len(buf) <= k
  /\ pc = "decode" => 4 * Len(dest) <= 3 * k /\ k <= Len(buf) + 3

(* The place in b is the place in a, but at the end, where it has gone     *)
(* round; diff tells whether anything differed so far.                     *)
Comparing ==
  /\ a \in Seq(Nat)
  /\ b \in Seq(Nat)
  /\ ia \in 0..Len(a)
  /\ Len(a) # Len(b) => diff
  /\ Len(a) = Len(b) =>
       /\ ia < Len(a) => j = ia
       /\ diff = (\E n \in 1..ia : a[n] # b[n])

IInv ==
  /\ TypeOK
  /\ Coding
  /\ BuffersFit
  /\ pc = "compare" => Comparing
  /\ EqualsIsEquality

-----------------------------------------------------------------------------
(* Sextets and characters.                                                 *)
LEMMA EncodeType ==
  ASSUME NEW u \in 0..63 PROVE B64Encode(u) \in Nat
BY DEF B64Encode

LEMMA DecodeType ==
  ASSUME NEW c \in Nat PROVE B64Decode(c) \in 0..63
BY DEF B64Decode

(* A group is four characters.                                             *)
LEMMA GroupType ==
  ASSUME NEW b1 \in Octets, NEW b2 \in Octets, NEW b3 \in Octets, NEW n \in Nat
  PROVE  Group(b1, b2, b3, n) \in Seq(Nat) /\ Len(Group(b1, b2, b3, n)) = 4
<1>1. /\ b1 \div 4 \in 0..63
      /\ (b1 % 4) * 16 + b2 \div 16 \in 0..63
      /\ (b2 % 16) * 4 + b3 \div 64 \in 0..63
      /\ b3 % 64 \in 0..63
  BY DEF Octets
<1>2. /\ B64Encode(b1 \div 4) \in Nat
      /\ B64Encode((b1 % 4) * 16 + b2 \div 16) \in Nat
      /\ B64Encode((b2 % 16) * 4 + b3 \div 64) \in Nat
      /\ B64Encode(b3 % 64) \in Nat
  BY <1>1, EncodeType
<1> DEFINE c3 == IF n >= 2 THEN B64Encode((b2 % 16) * 4 + b3 \div 64) ELSE Pad
<1> DEFINE c4 == IF n >= 3 THEN B64Encode(b3 % 64) ELSE Pad
<1>3. c3 \in Nat /\ c4 \in Nat
  BY <1>2 DEF Pad
<1>4. Group(b1, b2, b3, n)
        = <<B64Encode(b1 \div 4), B64Encode((b1 % 4) * 16 + b2 \div 16), c3, c4>>
  BY DEF Group
<1> HIDE DEF c3, c4
<1>5. QED
  BY <1>2, <1>3, <1>4

(* Octets are made of sextets.                                             *)
LEMMA OctetsOfSextets ==
  ASSUME NEW s0 \in 0..63, NEW s1 \in 0..63, NEW s2 \in 0..63, NEW s3 \in 0..63
  PROVE  /\ (s0 * 4 + s1 \div 16) % 256 \in Octets
         /\ (s1 % 16) * 16 + s2 \div 4 \in Octets
         /\ (s2 % 4) * 64 + s3 \in Octets
BY DEF Octets

(* Going round a string of m characters.                                   *)
LEMMA Round ==
  ASSUME NEW m \in Nat \ {0}, NEW x \in 0..(m - 1)
  PROVE  (x + 1) % m = IF x + 1 = m THEN 0 ELSE x + 1
<1>1. CASE x + 1 = m
  <2>1. m % m = 0
    OBVIOUS
  <2>2. QED
    BY <1>1, <2>1
<1>2. CASE x + 1 < m
  BY <1>2
<1>3. QED
  BY <1>1, <1>2

(* What comes for a string is a string or NULL.                            *)
LEMMA ReceivedType ==
  ASSUME NEW s \in Seq(Nat) PROVE Received(s) \subseteq Strings
<1>1. ASSUME NEW n \in DOMAIN s PROVE [s EXCEPT ![n] = 65] \in Seq(Nat)
  OBVIOUS
<1>2. ASSUME NEW n \in 0..Len(s) PROVE SubSeq(s, 1, n) \in Seq(Nat)
  OBVIOUS
<1>3. <<>> \in Seq(Nat) /\ s \o s \in Seq(Nat) /\ s \o <<Pad>> \in Seq(Nat)
  BY DEF Pad
<1>4. QED
  BY <1>1, <1>2, <1>3 DEF Received, Strings

(* Sequences put together.                                                 *)
LEMMA Concat ==
  ASSUME NEW S, NEW s \in Seq(S), NEW t \in Seq(S)
  PROVE  s \o t \in Seq(S) /\ Len(s \o t) = Len(s) + Len(t)
OBVIOUS

(* Strings of one length are equal when they agree everywhere.             *)
LEMMA SameString ==
  ASSUME NEW s \in Seq(Nat), NEW t \in Seq(Nat), Len(s) = Len(t),
         \A n \in 1..Len(s) : s[n] = t[n]
  PROVE  s = t
OBVIOUS

-----------------------------------------------------------------------------
LEMMA InitIsIInv == Init => IInv
<1> SUFFICES ASSUME Init PROVE IInv
  OBVIOUS
<1> USE DEF Init, Base64Init, EncodeInit
<1>1. src \in Seq(Octets) /\ size \in 0..Len(src)
  BY SourcesAssumption
<1>2. size \in Nat /\ Alloc(size) \in Nat /\ 1 <= Alloc(size)
  BY <1>1 DEF Alloc
<1>3. TypeOK
  <2>1. i \in Nat /\ k \in Nat /\ ia \in Nat /\ alloc \in Nat /\ pc = "encode"
    BY <1>2
  <2>2. /\ out \in Seq(Nat) /\ text \in Seq(Nat) /\ buf \in Seq(Nat)
        /\ dest \in Seq(Octets)
    OBVIOUS
  <2>3. a \in Strings /\ b \in Strings /\ diff \in BOOLEAN /\ equal \in BOOLEAN
    BY DEF Strings
  <2>4. QED
    BY <1>1, <2>1, <2>2, <2>3 DEF TypeOK
<1>4. Coding
  <2>1. i = 3 * 0
    OBVIOUS
  <2>2. QED
    BY <1>2, <2>1 DEF Coding
<1>5. QED
  BY <1>2, <1>3, <1>4 DEF IInv, BuffersFit, EqualsIsEquality

(* The loop of oauth_encode_base64.                                        *)
LEMMA EncodeGroupKeeps == IInv /\ EncodeGroup /\ UNCHANGED compareVars => IInv'
<1> SUFFICES ASSUME IInv, EncodeGroup, UNCHANGED compareVars PROVE IInv'
  OBVIOUS
<1> DEFINE b1 == src[i + 1]
<1> DEFINE b2 == IF i + 1 < size THEN src[i + 2] ELSE 0
<1> DEFINE b3 == IF i + 2 < size THEN src[i + 3] ELSE 0
<1> DEFINE g == Group(b1, b2, b3, size - i)
<1>1. /\ src \in Seq(Octets) /\ size \in 0..Len(src) /\ i \in Nat /\ i < size
      /\ alloc \in Nat /\ out \in Seq(Nat) /\ pc = "encode"
  BY DEF IInv, TypeOK, EncodeGroup
<1>2. b1 \in Octets /\ b2 \in Octets /\ b3 \in Octets /\ size - i \in Nat
  <2>1. 0 \in Octets
    BY DEF Octets
  <2>2. \A n \in 1..size : src[n] \in Octets
    BY <1>1
  <2>3. size \in Nat /\ i + 1 \in 1..size
    BY <1>1
  <2>4. i + 1 < size => i + 2 \in 1..size
    BY <1>1, <2>3
  <2>5. i + 2 < size => i + 3 \in 1..size
    BY <1>1, <2>3
  <2>6. QED
    BY <1>1, <2>1, <2>2, <2>3, <2>4, <2>5
<1>3. g \in Seq(Nat) /\ Len(g) = 4
  BY <1>2, GroupType
<1>4. /\ out' = out \o g /\ i' = i + 3
      /\ UNCHANGED <<src, size, alloc, text, buf, k, dest, pc, a, b, ia, j, diff, equal>>
  BY DEF EncodeGroup, decodeVars, compareVars
<1> HIDE DEF g
<1>5. out' \in Seq(Nat) /\ Len(out') = Len(out) + 4
  BY <1>1, <1>3, <1>4, Concat
<1>6. TypeOK'
  BY <1>1, <1>4, <1>5 DEF IInv, TypeOK
<1>7. Coding'
  <2>1. PICK q \in Nat : i = 3 * q
    BY DEF IInv, Coding
  <2>2. i' = 3 * (q + 1) /\ q + 1 \in Nat
    BY <1>4, <2>1
  <2>3. 3 * Len(out') = 4 * i' /\ i' <= size' + 2
    <3>1. 3 * Len(out) = 4 * i
      BY DEF IInv, Coding
    <3>2. Len(out) \in Nat
      BY <1>1
    <3>3. Len(src) \in Nat /\ size \in 0..Len(src)
      BY <1>1
    <3>4. i \in Nat /\ i < size /\ i' = i + 3 /\ Len(out') = Len(out) + 4 /\ size' = size
      BY <1>1, <1>4, <1>5
    <3>5. QED
      BY <3>1, <3>2, <3>3, <3>4
  <2>4. QED
    BY <1>1, <1>4, <2>2, <2>3 DEF IInv, Coding, Alloc
<1>8. Len(out') + 1 <= alloc'
  <2>1. PICK q \in Nat : i' = 3 * q
    BY <1>7 DEF Coding
  <2>2. Len(out') = 4 * q /\ 3 * q <= size + 2
    BY <1>1, <1>4, <1>5, <1>7, <2>1 DEF Coding
  <2>3. alloc' = (size * 4) \div 3 + 4
    BY <1>4 DEF IInv, Coding, Alloc
  <2>4. QED
    BY <1>1, <2>2, <2>3
<1>9. QED
  BY <1>1, <1>4, <1>6, <1>7, <1>8 DEF IInv, BuffersFit, EqualsIsEquality

(* The steps between the loops, and what happens to the text on its way.   *)
LEMMA BetweenKeeps ==
  IInv /\ (EncodeReturns \/ Break \/ DecodeCall \/ FilterEnds \/ DecodeReturns)
       /\ UNCHANGED compareVars => IInv'
<1> SUFFICES ASSUME IInv, UNCHANGED compareVars,
                    EncodeReturns \/ Break \/ DecodeCall \/ FilterEnds \/ DecodeReturns
             PROVE  IInv'
  OBVIOUS
<1> USE DEF encodeVars, decodeVars, compareVars
<1>1. CASE EncodeReturns
  <2>1. /\ pc = "encode" /\ pc' = "encoded" /\ text' = out
        /\ UNCHANGED <<src, size, i, alloc, out, buf, k, dest, a, b, ia, j, diff, equal>>
    BY <1>1 DEF EncodeReturns
  <2>2. TypeOK'
    BY <2>1 DEF IInv, TypeOK
  <2>3. Coding'
    BY <2>1 DEF IInv, Coding
  <2>4. BuffersFit'
    <3>1. /\ buf = <<>> /\ Len(buf) = 0 /\ out \in Seq(Nat) /\ Len(out) \in Nat
          /\ Len(dest) = 0
      BY <2>1 DEF IInv, TypeOK, Coding
    <3>2. QED
      BY <2>1, <3>1 DEF IInv, BuffersFit
  <2>5. QED
    BY <2>1, <2>2, <2>3, <2>4 DEF IInv, EqualsIsEquality
<1>2. CASE Break
  <2>1. PICK c \in Breaks, n \in 0..Len(text) :
          text' = SubSeq(text, 1, n) \o <<c>> \o SubSeq(text, n + 1, Len(text))
    BY <1>2 DEF Break
  <2>2. text \in Seq(Nat) /\ c \in Nat
    BY BreaksAssumption DEF IInv, TypeOK
  <2>3. text' \in Seq(Nat)
    <3>1. /\ SubSeq(text, 1, n) \in Seq(Nat) /\ SubSeq(text, n + 1, Len(text)) \in Seq(Nat)
          /\ <<c>> \in Seq(Nat)
      BY <2>2
    <3>2. SubSeq(text, 1, n) \o <<c>> \in Seq(Nat)
      BY <3>1, Concat
    <3>3. QED
      BY <2>1, <3>1, <3>2, Concat
  <2>4. /\ pc = "encoded" /\ pc' = pc
        /\ UNCHANGED <<src, size, i, alloc, out, buf, k, dest, a, b, ia, j, diff, equal>>
    BY <1>2 DEF Break
  <2>5. TypeOK'
    BY <2>3, <2>4 DEF IInv, TypeOK
  <2>6. Coding'
    BY <2>4 DEF IInv, Coding
  <2>7. BuffersFit'
    <3>1. buf = <<>> /\ Len(buf) = 0 /\ Len(dest) = 0 /\ Len(text') \in Nat
      BY <2>3, <2>4 DEF IInv, Coding
    <3>2. QED
      BY <2>4, <3>1 DEF IInv, BuffersFit
  <2>8. QED
    BY <2>4, <2>5, <2>6, <2>7 DEF IInv, EqualsIsEquality
<1>3. CASE DecodeCall
  <2>1. /\ pc = "encoded" /\ pc' = "filter"
        /\ UNCHANGED <<src, size, i, alloc, out, text, buf, k, dest, a, b, ia, j, diff, equal>>
    BY <1>3 DEF DecodeCall
  <2>2. TypeOK'
    BY <2>1 DEF IInv, TypeOK
  <2>3. buf = <<>> /\ k = 0 /\ dest = <<>> /\ Len(buf) = 0
    BY <2>1 DEF IInv, Coding
  <2>4. Coding'
    BY <2>1, <2>3 DEF IInv, Coding
  <2>5. BuffersFit'
    BY <2>1 DEF IInv, BuffersFit
  <2>6. QED
    BY <2>1, <2>2, <2>4, <2>5 DEF IInv, EqualsIsEquality
<1>4. CASE FilterEnds
  <2>1. /\ pc = "filter" /\ pc' = "decode" /\ k' = 0
        /\ UNCHANGED <<src, size, i, alloc, out, text, buf, dest, a, b, ia, j, diff, equal>>
    BY <1>4 DEF FilterEnds
  <2>2. TypeOK'
    BY <2>1 DEF IInv, TypeOK
  <2>3. dest = <<>> /\ Len(dest) = 0 /\ Len(buf) \in Nat
    BY <2>1 DEF IInv, TypeOK, Coding
  <2>4. Coding'
    BY <2>1, <2>3 DEF IInv, Coding
  <2>5. QED
    BY <2>1, <2>2, <2>4 DEF IInv, BuffersFit, EqualsIsEquality
<1>5. CASE DecodeReturns
  <2>1. /\ pc = "decode" /\ pc' = "decoded" /\ dest' = Append(dest, 0)
        /\ UNCHANGED <<src, size, i, alloc, out, text, buf, k, a, b, ia, j, diff, equal>>
    BY <1>5 DEF DecodeReturns
  <2>2. dest \in Seq(Octets) /\ 0 \in Octets
    BY DEF IInv, TypeOK, Octets
  <2>3. dest' \in Seq(Octets) /\ Len(dest') = Len(dest) + 1 /\ Len(dest) \in Nat
    BY <2>1, <2>2
  <2>4. TypeOK'
    BY <2>1, <2>3 DEF IInv, TypeOK
  <2>5. Coding'
    BY <2>1 DEF IInv, Coding
  <2>6. 4 * Len(dest') <= 3 * (Len(text') + 3) + 4
    <3>1. 4 * Len(dest) <= 3 * k /\ k <= Len(buf) + 3
      BY <2>1 DEF IInv, Coding
    <3>2. Len(buf) <= Len(text)
      BY DEF IInv, BuffersFit
    <3>3. k \in Nat /\ Len(buf) \in Nat /\ Len(text) \in Nat
      BY DEF IInv, TypeOK
    <3>4. QED
      BY <2>1, <2>3, <3>1, <3>2, <3>3
  <2>7. QED
    BY <2>1, <2>4, <2>5, <2>6 DEF IInv, BuffersFit, EqualsIsEquality
<1>6. QED
  BY <1>1, <1>2, <1>3, <1>4, <1>5

(* The first loop of oauth_decode_base64.                                  *)
LEMMA FilterKeeps == IInv /\ Filter /\ UNCHANGED compareVars => IInv'
<1> SUFFICES ASSUME IInv, Filter, UNCHANGED compareVars PROVE IInv'
  OBVIOUS
<1> USE DEF encodeVars, compareVars
<1>1. /\ text \in Seq(Nat) /\ buf \in Seq(Nat) /\ k \in Nat /\ k < Len(text)
      /\ pc = "filter" /\ k' = k + 1
  BY DEF IInv, TypeOK, Filter
<1>2. buf' \in Seq(Nat) /\ Len(buf') <= Len(buf) + 1
  BY <1>1 DEF Filter
<1>3. dest = <<>> /\ Len(buf) <= k
  BY <1>1 DEF IInv, Coding
<1>4. BuffersFit'
  BY <1>1, <1>2, <1>3 DEF IInv, BuffersFit, Filter
<1>5. UNCHANGED <<src, size, i, alloc, out, text, dest, pc, a, b, ia, j, diff, equal>>
  BY DEF Filter
<1>6. TypeOK'
  BY <1>1, <1>2, <1>5 DEF IInv, TypeOK
<1>7. Len(buf') <= k'
  BY <1>1, <1>2, <1>3
<1>8. Coding'
  BY <1>1, <1>3, <1>5, <1>7 DEF IInv, Coding
<1>9. QED
  BY <1>1, <1>4, <1>5, <1>6, <1>8 DEF IInv, EqualsIsEquality

(* Its second loop.                                                        *)
LEMMA DecodeGroupKeeps == IInv /\ DecodeGroup /\ UNCHANGED compareVars => IInv'
<1> SUFFICES ASSUME IInv, DecodeGroup, UNCHANGED compareVars PROVE IInv'
  OBVIOUS
<1> USE DEF encodeVars, compareVars
<1> DEFINE c(n) == IF k + n < Len(buf) THEN buf[k + n + 1] ELSE 65
<1> DEFINE s(n) == B64Decode(c(n))
<1> DEFINE d1 == <<(s(0) * 4 + s(1) \div 16) % 256>>
<1> DEFINE d2 == IF c(2) # Pad THEN <<(s(1) % 16) * 16 + s(2) \div 4>> ELSE <<>>
<1> DEFINE d3 == IF c(3) # Pad THEN <<(s(2) % 4) * 64 + s(3)>> ELSE <<>>
<1>1. /\ buf \in Seq(Nat) /\ k \in Nat /\ k < Len(buf) /\ dest \in Seq(Octets)
      /\ pc = "decode" /\ k' = k + 4
  BY DEF IInv, TypeOK, DecodeGroup
<1>2. c(0) \in Nat /\ c(1) \in Nat /\ c(2) \in Nat /\ c(3) \in Nat
  BY <1>1
<1>3. s(0) \in 0..63 /\ s(1) \in 0..63 /\ s(2) \in 0..63 /\ s(3) \in 0..63
  <2> HIDE DEF c
  <2> QED
    BY <1>2, DecodeType
<1>4. /\ d1 \in Seq(Octets) /\ Len(d1) = 1
      /\ d2 \in Seq(Octets) /\ Len(d2) <= 1
      /\ d3 \in Seq(Octets) /\ Len(d3) <= 1
  <2> HIDE DEF s
  <2>1. /\ (s(0) * 4 + s(1) \div 16) % 256 \in Octets
        /\ (s(1) % 16) * 16 + s(2) \div 4 \in Octets
        /\ (s(2) % 4) * 64 + s(3) \in Octets
    BY <1>3, OctetsOfSextets
  <2>2. QED
    BY <2>1
<1>5. dest' = dest \o d1 \o d2 \o d3
  BY DEF DecodeGroup
<1> HIDE DEF d1, d2, d3
<1>6. dest' \in Seq(Octets) /\ Len(dest') <= Len(dest) + 3
  <2>1. /\ dest \o d1 \in Seq(Octets)
        /\ Len(dest \o d1) = Len(dest) + Len(d1)
    BY <1>1, <1>4, Concat
  <2>2. /\ (dest \o d1) \o d2 \in Seq(Octets)
        /\ Len((dest \o d1) \o d2) = Len(dest \o d1) + Len(d2)
    BY <1>4, <2>1, Concat
  <2>3. /\ ((dest \o d1) \o d2) \o d3 \in Seq(Octets)
        /\ Len(((dest \o d1) \o d2) \o d3) = Len((dest \o d1) \o d2) + Len(d3)
    BY <1>4, <2>2, Concat
  <2>4. Len(dest) \in Nat /\ Len(d1) \in Nat /\ Len(d2) \in Nat /\ Len(d3) \in Nat
    BY <1>1, <1>4
  <2>5. QED
    BY <1>4, <1>5, <2>1, <2>2, <2>3, <2>4
<1>7. UNCHANGED <<src, size, i, alloc, out, text, buf, pc, a, b, ia, j, diff, equal>>
  BY DEF DecodeGroup
<1>8. TypeOK'
  BY <1>1, <1>6, <1>7 DEF IInv, TypeOK
<1>9. 4 * Len(dest') <= 3 * k' /\ k' <= Len(buf') + 3
  <2>1. 4 * Len(dest) <= 3 * k
    BY <1>1 DEF IInv, Coding
  <2>2. Len(dest) \in Nat /\ Len(dest') \in Nat /\ Len(buf) \in Nat
    BY <1>1, <1>6
  <2>3. QED
    BY <1>1, <1>6, <1>7, <2>1, <2>2
<1>10. Coding' /\ BuffersFit'
  <2>1. Coding'
    BY <1>1, <1>7, <1>9 DEF IInv, Coding
  <2>2. 4 * Len(dest') <= 3 * (Len(text') + 3) + 4
    <3>1. Len(dest') \in Nat /\ Len(buf') \in Nat /\ Len(text') \in Nat /\ k' \in Nat
      BY <1>1, <1>6, <1>7 DEF IInv, TypeOK
    <3>2. Len(buf') <= Len(text')
      BY <1>7 DEF IInv, BuffersFit
    <3>3. QED
      BY <1>9, <3>1, <3>2
  <2>3. QED
    BY <1>7, <2>1, <2>2 DEF IInv, BuffersFit
<1>11. QED
  BY <1>1, <1>7, <1>8, <1>10 DEF IInv, EqualsIsEquality

-----------------------------------------------------------------------------
(* The comparison leaves what was encoded and decoded alone.               *)
LEMMA CompareLeavesCoding ==
  ASSUME IInv, UNCHANGED <<encodeVars, decodeVars>>, pc' \in {"compare", "compared"}
  PROVE  Coding' /\ BuffersFit'
BY DEF IInv, Coding, BuffersFit, encodeVars, decodeVars

LEMMA CompareCallKeeps == IInv /\ CompareCall => IInv'
<1> SUFFICES ASSUME IInv, CompareCall PROVE IInv'
  OBVIOUS
<1>1. out \in Seq(Nat) /\ out \in Strings
  BY DEF IInv, TypeOK, Strings
<1>2. a' \in {NULL, <<>>, out} /\ b' \in Strings /\ ia' = 0 /\ j' = 0
  BY <1>1, ReceivedType DEF CompareCall
<1>3. a' \in Strings
  <2>1. <<>> \in Strings /\ NULL \in Strings
    BY DEF Strings
  <2>2. QED
    BY <1>1, <1>2, <2>1
<1>4. UNCHANGED <<src, size, i, alloc, out, text, buf, k, dest>>
  BY DEF CompareCall, encodeVars, decodeVars
<1>5. CASE a' = NULL \/ b' = NULL
  <2>1. pc' = "compared" /\ equal' = (a' = b') /\ diff' = diff
    BY <1>5 DEF CompareCall
  <2>2. TypeOK'
    BY <1>2, <1>3, <1>4, <2>1 DEF IInv, TypeOK
  <2>3. QED
    BY <1>4, <2>1, <2>2, CompareLeavesCoding DEF IInv, EqualsIsEquality, encodeVars, decodeVars
<1>6. CASE a' # NULL /\ b' # NULL /\ b' = <<>>
  <2>1. pc' = "compared" /\ equal' = (a' = b') /\ diff' = diff
    BY <1>6 DEF CompareCall
  <2>2. TypeOK'
    BY <1>2, <1>3, <1>4, <2>1 DEF IInv, TypeOK
  <2>3. QED
    BY <1>4, <2>1, <2>2, CompareLeavesCoding DEF IInv, EqualsIsEquality, encodeVars, decodeVars
<1>7. CASE a' # NULL /\ b' # NULL /\ b' # <<>>
  <2>1. pc' = "compare" /\ diff' = (Len(a') # Len(b')) /\ equal' = equal
    BY <1>7 DEF CompareCall
  <2>2. a' \in Seq(Nat) /\ b' \in Seq(Nat) /\ Len(b') > 0
    BY <1>1, <1>2, <1>3, <1>7 DEF Strings
  <2>3. TypeOK'
    BY <1>2, <1>3, <1>4, <2>1, <2>2 DEF IInv, TypeOK
  <2>4. Comparing'
    <3>1. 0 \in 0..Len(a') /\ 1..0 = {}
      BY <2>2
    <3>2. (\E n \in 1..0 : a'[n] # b'[n]) = FALSE
      BY <3>1
    <3>3. QED
      BY <1>2, <2>1, <2>2, <3>1, <3>2 DEF Comparing
  <2>5. QED
    BY <1>4, <2>1, <2>3, <2>4, CompareLeavesCoding DEF IInv, EqualsIsEquality, encodeVars, decodeVars
<1>8. QED
  BY <1>5, <1>6, <1>7

(* One pass of the loop of oauth_time_independent_equals_n.                *)
LEMMA CompareOctetKeeps == IInv /\ CompareOctet => IInv'
<1> SUFFICES ASSUME IInv, CompareOctet PROVE IInv'
  OBVIOUS
<1>1. /\ pc = "compare" /\ pc' = pc /\ ia' = ia + 1 /\ j' = (j + 1) % Len(b)
      /\ diff' = (diff \/ a[ia + 1] # b[j + 1])
      /\ UNCHANGED <<src, size, i, alloc, out, text, buf, k, dest, a, b, equal>>
  BY DEF CompareOctet, base64Vars, encodeVars, decodeVars
<1>2. /\ a \in Seq(Nat) /\ b \in Seq(Nat) /\ ia \in 0..Len(a) /\ ia < Len(a)
      /\ diff \in BOOLEAN /\ j \in 0..(Len(b) - 1) /\ Len(b) \in Nat \ {0}
  BY <1>1 DEF IInv, Comparing, TypeOK, CompareOctet
<1>3. j' = IF j + 1 = Len(b) THEN 0 ELSE j + 1
  BY <1>1, <1>2, Round
<1>4. j' \in 0..(Len(b) - 1)
  BY <1>2, <1>3
<1>5. TypeOK'
  BY <1>1, <1>2, <1>4 DEF IInv, TypeOK
<1>6. Comparing'
  <2>1. Len(a) # Len(b) => diff'
    BY <1>1 DEF IInv, Comparing
  <2>2. ASSUME Len(a) = Len(b)
        PROVE  /\ ia + 1 < Len(a) => j' = ia + 1
               /\ diff' = (\E n \in 1..(ia + 1) : a[n] # b[n])
    <3>1. j = ia /\ diff = (\E n \in 1..ia : a[n] # b[n])
      BY <1>1, <1>2, <2>2 DEF IInv, Comparing
    <3>2. 1..(ia + 1) = (1..ia) \cup {ia + 1}
      BY <1>2
    <3>3. diff' = (\E n \in 1..(ia + 1) : a[n] # b[n])
      BY <1>1, <3>1, <3>2
    <3>4. QED
      BY <1>2, <1>3, <2>2, <3>1, <3>3
  <2>3. ia' = ia + 1 /\ a' = a /\ b' = b /\ ia + 1 \in 0..Len(a)
    BY <1>1, <1>2
  <2>4. a \in Seq(Nat) /\ b \in Seq(Nat)
    BY <1>2
  <2>5. QED
    BY <2>1, <2>2, <2>3, <2>4 DEF Comparing
<1>7. QED
  BY <1>1, <1>5, <1>6, CompareLeavesCoding DEF IInv, EqualsIsEquality, encodeVars, decodeVars

LEMMA CompareReturnsKeeps == IInv /\ CompareReturns => IInv'
<1> SUFFICES ASSUME IInv, CompareReturns PROVE IInv'
  OBVIOUS
<1>1. /\ pc = "compare" /\ pc' = "compared" /\ equal' = ~ diff
      /\ UNCHANGED <<src, size, i, alloc, out, text, buf, k, dest, a, b, ia, j, diff>>
  BY DEF CompareReturns, encodeVars, decodeVars
<1>2. a \in Seq(Nat) /\ b \in Seq(Nat) /\ ia = Len(a) /\ diff \in BOOLEAN
  BY <1>1 DEF IInv, Comparing, TypeOK, CompareReturns
<1>3. TypeOK'
  BY <1>1, <1>2 DEF IInv, TypeOK
<1>4. ~ diff => a = b
  <2>1. ASSUME ~ diff PROVE Len(a) = Len(b) /\ \A n \in 1..Len(a) : a[n] = b[n]
    BY <1>1, <1>2, <2>1 DEF IInv, Comparing
  <2>2. QED
    BY <1>2, <2>1, SameString
<1>5. diff => a # b
  BY <1>1, <1>2 DEF IInv, Comparing
<1>6. EqualsIsEquality'
  BY <1>1, <1>2, <1>4, <1>5 DEF EqualsIsEquality
<1>7. QED
  BY <1>1, <1>3, <1>6, CompareLeavesCoding DEF IInv, encodeVars, decodeVars

-----------------------------------------------------------------------------
LEMMA StutterKeeps == IInv /\ UNCHANGED vars => IInv'
<1> SUFFICES ASSUME IInv, UNCHANGED vars PROVE IInv'
  OBVIOUS
<1>1. UNCHANGED <<src, size, pc, i, alloc, out, text, buf, k, dest, a, b, ia, j, diff, equal>>
  BY DEF vars, base64Vars, encodeVars, decodeVars, compareVars
<1>2. TypeOK'
  BY <1>1 DEF IInv, TypeOK
<1>3. Coding' /\ BuffersFit'
  BY <1>1 DEF IInv, Coding, BuffersFit
<1>4. pc' = "compare" => Comparing'
  BY <1>1 DEF IInv, Comparing
<1>5. QED
  BY <1>1, <1>2, <1>3, <1>4 DEF IInv, EqualsIsEquality

LEMMA NextKeepsIInv == IInv /\ [Next]_vars => IInv'
BY EncodeGroupKeeps, BetweenKeeps, FilterKeeps, DecodeGroupKeeps, CompareCallKeeps,
   CompareOctetKeeps, CompareReturnsKeeps, StutterKeeps DEF Next, Base64Next

LEMMA Invariance == Spec => []IInv
BY InitIsIInv, NextKeepsIInv, PTL DEF Spec

(* Encoding, decoding and comparing keep to their types: for any octets,   *)
(* and any breaks of the text.                                             *)
THEOREM TypeCorrect == Spec => []TypeOK
<1>1. IInv => TypeOK
  BY DEF IInv
<1>2. QED
  BY <1>1, Invariance, PTL

(* The three buffers of oauth_encode_base64 and oauth_decode_base64 are    *)
(* long enough for octets and texts of every length.                       *)
THEOREM BuffersAreLongEnough == Spec => []BuffersFit
<1>1. IInv => BuffersFit
  BY DEF IInv
<1>2. QED
  BY <1>1, Invariance, PTL

(* oauth_time_independent_equals answers whether two strings are equal,    *)
(* for strings of every length.                                            *)
THEOREM ComparisonIsEquality == Spec => []EqualsIsEquality
<1>1. IInv => EqualsIsEquality
  BY DEF IInv
<1>2. QED
  BY <1>1, Invariance, PTL

-----------------------------------------------------------------------------
(* The round trip.  Nothing here speaks of the whole text at once: an      *)
(* encoded group is where its number says, the text that was broken still  *)
(* has the characters written at increasing places, and what was decoded   *)
(* is the beginning of what was encoded.                                   *)

(* Octet n of z octets s, counted from 0, and the characters of group g.   *)
OctetAt(s, z, n) == IF n < z THEN s[n + 1] ELSE 0

GroupOf(s, z, g) ==
  Group(OctetAt(s, z, 3 * g), OctetAt(s, z, 3 * g + 1), OctetAt(s, z, 3 * g + 2), z - 3 * g)

(* The groups of the first m octets stand in o.                            *)
GroupsStand(s, z, m, o) ==
  \A g \in Nat : 3 * g < m => \A r \in 1..4 : o[4 * g + r] = GroupOf(s, z, g)[r]

AllBase64(o) == \A n \in 1..Len(o) : IsBase64(o[n])

(* Character n of o is character at[n] of t, and the rest of t is breaks.  *)
Spread(at, o, t) ==
  /\ at \in [1..Len(o) -> 1..Len(t)]
  /\ \A m, n \in 1..Len(o) : m < n => at[m] < at[n]
  /\ \A n \in 1..Len(o) : t[at[n]] = o[n]
  /\ \A p \in 1..Len(t) : (\A n \in 1..Len(o) : at[n] # p) => ~ IsBase64(t[p])

(* f holds those characters of o that are among the first m of the text.   *)
Sifted(at, o, f, m) ==
  /\ Len(f) <= Len(o)
  /\ \A n \in 1..Len(f) : f[n] = o[n]
  /\ \A n \in 1..Len(o) : at[n] <= m <=> n <= Len(f)

(* d holds the octets of the first q groups.                               *)
Restored(s, z, d, q) ==
  /\ Len(d) = IF 3 * q <= z THEN 3 * q ELSE z
  /\ \A n \in 1..Len(d) : d[n] = s[n]

Trip ==
  /\ GroupsStand(src, size, i, out)
  /\ AllBase64(out)
  /\ pc # "encode" => size <= i
  /\ pc \in {"encoded", "filter"} =>
       \E at \in [1..Len(out) -> 1..Len(text)] : Spread(at, out, text) /\ Sifted(at, out, buf, k)
  /\ pc = "decode" => buf = out /\ \E q \in Nat : k = 4 * q /\ Restored(src, size, dest, q)
  /\ pc = "decoded" => dest = Append(SubSeq(src, 1, size), 0)

(* A sextet comes back from its character, which is not the pad.           *)
LEMMA SextetComesBack ==
  ASSUME NEW u \in 0..63
  PROVE  /\ B64Decode(B64Encode(u)) = u
         /\ B64Encode(u) # Pad
         /\ IsBase64(B64Encode(u))
<1>1. CASE u < 26
  BY <1>1 DEF B64Encode, B64Decode, IsBase64, Pad
<1>2. CASE u \in 26..51
  BY <1>2 DEF B64Encode, B64Decode, IsBase64, Pad
<1>3. CASE u \in 52..61
  BY <1>3 DEF B64Encode, B64Decode, IsBase64, Pad
<1>4. CASE u = 62
  BY <1>4 DEF B64Encode, B64Decode, IsBase64, Pad
<1>5. CASE u = 63
  BY <1>5 DEF B64Encode, B64Decode, IsBase64, Pad
<1>6. QED
  BY <1>1, <1>2, <1>3, <1>4, <1>5

(* Three octets come back from their four sextets; the last ones that were *)
(* made up with zeros do no harm.                                          *)
LEMMA OctetsComeBack ==
  ASSUME NEW b1 \in Octets, NEW b2 \in Octets, NEW b3 \in Octets,
         NEW s0, NEW s1, NEW s2, NEW s3,
         s0 = b1 \div 4, s1 = (b1 % 4) * 16 + b2 \div 16,
         s2 = (b2 % 16) * 4 + b3 \div 64, s3 = b3 % 64
  PROVE  /\ s0 \in 0..63 /\ s1 \in 0..63 /\ s2 \in 0..63 /\ s3 \in 0..63
         /\ (s0 * 4 + s1 \div 16) % 256 = b1
         /\ (s1 % 16) * 16 + s2 \div 4 = b2
         /\ (s2 % 4) * 64 + s3 = b3
<1>1. s0 \in 0..63 /\ s1 \in 0..63 /\ s2 \in 0..63 /\ s3 \in 0..63
  BY DEF Octets
<1>2. s1 \div 16 = b1 % 4 /\ s1 % 16 = b2 \div 16
  BY DEF Octets
<1>3. s2 \div 4 = b2 % 16 /\ s2 % 4 = b3 \div 64
  BY DEF Octets
<1>4. s0 * 4 + s1 \div 16 = b1
  BY <1>2 DEF Octets
<1>5. QED
  BY <1>1, <1>2, <1>3, <1>4 DEF Octets

(* One pass of the loop of oauth_encode_base64 makes one group, of         *)
(* characters that are base64.                                             *)
LEMMA GroupIsBase64 ==
  ASSUME NEW b1 \in Octets, NEW b2 \in Octets, NEW b3 \in Octets, NEW n \in Nat, NEW r \in 1..4
  PROVE  IsBase64(Group(b1, b2, b3, n)[r])
<1>1. /\ b1 \div 4 \in 0..63
      /\ (b1 % 4) * 16 + b2 \div 16 \in 0..63
      /\ (b2 % 16) * 4 + b3 \div 64 \in 0..63
      /\ b3 % 64 \in 0..63
  BY DEF Octets
<1>2. IsBase64(Pad)
  BY DEF IsBase64
<1>3. /\ IsBase64(B64Encode(b1 \div 4))
      /\ IsBase64(B64Encode((b1 % 4) * 16 + b2 \div 16))
      /\ IsBase64(B64Encode((b2 % 16) * 4 + b3 \div 64))
      /\ IsBase64(B64Encode(b3 % 64))
  BY <1>1, SextetComesBack
<1> DEFINE c1 == B64Encode(b1 \div 4)
<1> DEFINE c2 == B64Encode((b1 % 4) * 16 + b2 \div 16)
<1> DEFINE c3 == IF n >= 2 THEN B64Encode((b2 % 16) * 4 + b3 \div 64) ELSE Pad
<1> DEFINE c4 == IF n >= 3 THEN B64Encode(b3 % 64) ELSE Pad
<1>4. IsBase64(c1) /\ IsBase64(c2) /\ IsBase64(c3) /\ IsBase64(c4)
  BY <1>2, <1>3
<1>5. Group(b1, b2, b3, n) = <<c1, c2, c3, c4>>
  BY DEF Group
<1> HIDE DEF c1, c2, c3, c4
<1>6. /\ <<c1, c2, c3, c4>>[1] = c1 /\ <<c1, c2, c3, c4>>[2] = c2
      /\ <<c1, c2, c3, c4>>[3] = c3 /\ <<c1, c2, c3, c4>>[4] = c4
  OBVIOUS
<1>7. r = 1 \/ r = 2 \/ r = 3 \/ r = 4
  OBVIOUS
<1>8. QED
  BY <1>4, <1>5, <1>6, <1>7

(* What a pass of the second loop of oauth_decode_base64 writes for the    *)
(* four characters c1 to c4.                                               *)
Written(c1, c2, c3, c4) ==
  <<(B64Decode(c1) * 4 + B64Decode(c2) \div 16) % 256>>
    \o (IF c3 # Pad THEN <<(B64Decode(c2) % 16) * 16 + B64Decode(c3) \div 4>> ELSE <<>>)
    \o (IF c4 # Pad THEN <<(B64Decode(c3) % 4) * 64 + B64Decode(c4)>> ELSE <<>>)

(* w is t after s.                                                         *)
Joins(w, S, s, t) ==
  /\ w \in Seq(S)
  /\ Len(w) = Len(s) + Len(t)
  /\ \A n \in 1..Len(s) : w[n] = s[n]
  /\ \A n \in 1..Len(t) : w[Len(s) + n] = t[n]

LEMMA Joined ==
  ASSUME NEW S, NEW s \in Seq(S), NEW t \in Seq(S), NEW w, w = s \o t
  PROVE  Joins(w, S, s, t)
BY DEF Joins

(* It does not matter which of three are put together first.                *)
LEMMA Associative ==
  ASSUME NEW s \in Seq(Octets), NEW t \in Seq(Octets), NEW u \in Seq(Octets)
  PROVE  (s \o t) \o u = s \o (t \o u)
OBVIOUS

(* One, two and three octets put together.                                 *)
LEMMA TwoOctets ==
  ASSUME NEW x \in Octets, NEW y \in Octets, NEW w, w = <<x>> \o <<y>>
  PROVE  w \in Seq(Octets) /\ Len(w) = 2 /\ w[1] = x /\ w[2] = y
<1> DEFINE s == <<x>>
<1> DEFINE t == <<y>>
<1>1. /\ s \in Seq(Octets) /\ Len(s) = 1 /\ s[1] = x
      /\ t \in Seq(Octets) /\ Len(t) = 1 /\ t[1] = y
      /\ w = s \o t
  OBVIOUS
<1> HIDE DEF s, t
<1>2. w \in Seq(Octets) /\ Len(w) = 2
  BY <1>1, Concat
<1>3. w[1] = s[1] /\ w[1 + 1] = t[1]
  BY <1>1
<1>4. QED
  BY <1>1, <1>2, <1>3

LEMMA OneMoreOctet ==
  ASSUME NEW s \in Seq(Octets), NEW x \in Octets, NEW w, w = s \o <<x>>
  PROVE  /\ w \in Seq(Octets)
         /\ Len(w) = Len(s) + 1
         /\ \A n \in 1..Len(s) : w[n] = s[n]
         /\ w[Len(s) + 1] = x
<1> DEFINE t == <<x>>
<1>1. t \in Seq(Octets) /\ Len(t) = 1 /\ t[1] = x /\ w = s \o t
  OBVIOUS
<1> HIDE DEF t
<1>2. w \in Seq(Octets) /\ Len(w) = Len(s) + 1
  BY <1>1, Concat
<1>3. (\A n \in 1..Len(s) : w[n] = s[n]) /\ w[Len(s) + 1] = t[1]
  BY <1>1
<1>4. QED
  BY <1>1, <1>2, <1>3

GivesBack(w, b1, b2, b3, n) ==
  /\ w \in Seq(Octets)
  /\ Len(w) = IF n < 3 THEN n ELSE 3
  /\ w[1] = b1
  /\ n >= 2 => w[2] = b2
  /\ n >= 3 => w[3] = b3

(* A group gives back its octets, as many as there were.                   *)
LEMMA GroupComesBack ==
  ASSUME NEW b1 \in Octets, NEW b2 \in Octets, NEW b3 \in Octets, NEW n \in Nat \ {0},
         NEW w, n < 3 => b3 = 0, n < 2 => b2 = 0,
         NEW g, g = Group(b1, b2, b3, n), w = Written(g[1], g[2], g[3], g[4])
  PROVE  GivesBack(w, b1, b2, b3, n)
<1> USE DEF GivesBack
<1> DEFINE s0 == b1 \div 4
<1> DEFINE s1 == (b1 % 4) * 16 + b2 \div 16
<1> DEFINE s2 == (b2 % 16) * 4 + b3 \div 64
<1> DEFINE s3 == b3 % 64
<1>1. /\ s0 \in 0..63 /\ s1 \in 0..63 /\ s2 \in 0..63 /\ s3 \in 0..63
      /\ (s0 * 4 + s1 \div 16) % 256 = b1
      /\ (s1 % 16) * 16 + s2 \div 4 = b2
      /\ (s2 % 4) * 64 + s3 = b3
  BY OctetsComeBack
<1> DEFINE c1 == B64Encode(s0)
<1> DEFINE c2 == B64Encode(s1)
<1> DEFINE c3 == IF n >= 2 THEN B64Encode(s2) ELSE Pad
<1> DEFINE c4 == IF n >= 3 THEN B64Encode(s3) ELSE Pad
<1>2. Group(b1, b2, b3, n) = <<c1, c2, c3, c4>>
  BY DEF Group
<1> HIDE DEF s0, s1, s2, s3
<1>3. /\ B64Decode(B64Encode(s0)) = s0 /\ B64Decode(B64Encode(s1)) = s1
      /\ B64Decode(B64Encode(s2)) = s2 /\ B64Decode(B64Encode(s3)) = s3
      /\ B64Encode(s2) # Pad /\ B64Encode(s3) # Pad
  BY <1>1, SextetComesBack
<1>4. w = Written(c1, c2, c3, c4)
  <2> HIDE DEF c1, c2, c3, c4
  <2>1. /\ <<c1, c2, c3, c4>>[1] = c1 /\ <<c1, c2, c3, c4>>[2] = c2
        /\ <<c1, c2, c3, c4>>[3] = c3 /\ <<c1, c2, c3, c4>>[4] = c4
    OBVIOUS
  <2>2. QED
    BY <1>2, <2>1
<1>5. CASE n >= 3
  <2>1. /\ c3 # Pad /\ c4 # Pad /\ B64Decode(c1) = s0 /\ B64Decode(c2) = s1
        /\ B64Decode(c3) = s2 /\ B64Decode(c4) = s3
    BY <1>3, <1>5
  <2> HIDE DEF c1, c2, c3, c4
  <2>2. w = <<b1>> \o <<b2>> \o <<b3>>
    <3>1. /\ (B64Decode(c1) * 4 + B64Decode(c2) \div 16) % 256 = b1
          /\ (B64Decode(c2) % 16) * 16 + B64Decode(c3) \div 4 = b2
          /\ (B64Decode(c3) % 4) * 64 + B64Decode(c4) = b3
      BY <1>1, <2>1
    <3>2. QED
      BY <1>4, <2>1, <3>1, Zenon DEF Written
  <2> DEFINE v == <<b1>> \o <<b2>>
  <2>3. v \in Seq(Octets) /\ Len(v) = 2 /\ v[1] = b1 /\ v[2] = b2
    BY TwoOctets
  <2>4. w = v \o <<b3>>
    BY <2>2
  <2> HIDE DEF v
  <2>5. w \in Seq(Octets) /\ Len(w) = 3 /\ (\A m \in 1..2 : w[m] = v[m]) /\ w[3] = b3
    BY <2>3, <2>4, OneMoreOctet
  <2>6. QED
    BY <1>5, <2>3, <2>5
<1>6. CASE n = 2
  <2>1. /\ c3 # Pad /\ c4 = Pad /\ B64Decode(c1) = s0 /\ B64Decode(c2) = s1
        /\ B64Decode(c3) = s2
    BY <1>3, <1>6
  <2> HIDE DEF c1, c2, c3, c4
  <2>2. w = <<b1>> \o <<b2>> \o <<>>
    <3>1. /\ (B64Decode(c1) * 4 + B64Decode(c2) \div 16) % 256 = b1
          /\ (B64Decode(c2) % 16) * 16 + B64Decode(c3) \div 4 = b2
      BY <1>1, <2>1
    <3>2. QED
      BY <1>4, <2>1, <3>1, Zenon DEF Written
  <2> DEFINE v == <<b1>> \o <<b2>>
  <2>3. v \in Seq(Octets) /\ Len(v) = 2 /\ v[1] = b1 /\ v[2] = b2
    BY TwoOctets
  <2>4. w = v \o <<>>
    BY <2>2
  <2> HIDE DEF v
  <2>5. w = v
    BY <2>3, <2>4
  <2>6. QED
    BY <1>6, <2>3, <2>5
<1>7. CASE n = 1
  <2>1. /\ c3 = Pad /\ c4 = Pad /\ B64Decode(c1) = s0 /\ B64Decode(c2) = s1
    BY <1>3, <1>7
  <2> HIDE DEF c1, c2, c3, c4
  <2>2. w = <<b1>> \o <<>> \o <<>>
    BY <1>1, <1>4, <2>1 DEF Written
  <2> DEFINE v == <<b1>>
  <2>30. v \in Seq(Octets) /\ Len(v) = 1 /\ v[1] = b1 /\ w = v \o <<>> \o <<>>
    BY <2>2
  <2> HIDE DEF v
  <2>31. v \o <<>> = v
    BY <2>30
  <2>3. w = v
    BY <2>30, <2>31
  <2>4. QED
    BY <1>7, <2>30, <2>3
<1>8. QED
  BY <1>5, <1>6, <1>7

LEMMA OctetAtType ==
  ASSUME NEW s \in Seq(Octets), NEW z \in 0..Len(s), NEW n \in Nat
  PROVE  OctetAt(s, z, n) \in Octets
<1>1. 0 \in Octets
  BY DEF Octets
<1>2. n < z => s[n + 1] \in Octets
  OBVIOUS
<1>3. QED
  BY <1>1, <1>2 DEF OctetAt

(* Going on with the next group leaves those before it.                    *)
LEMMA GroupAppended ==
  ASSUME NEW s \in Seq(Octets), NEW z \in 0..Len(s), NEW q \in Nat, 3 * q < z,
         NEW o \in Seq(Nat), Len(o) = 4 * q,
         GroupsStand(s, z, 3 * q, o), AllBase64(o),
         NEW oo, oo = o \o GroupOf(s, z, q)
  PROVE  GroupsStand(s, z, 3 * q + 3, oo) /\ AllBase64(oo)
<1> DEFINE b1 == OctetAt(s, z, 3 * q)
<1> DEFINE b2 == OctetAt(s, z, 3 * q + 1)
<1> DEFINE b3 == OctetAt(s, z, 3 * q + 2)
<1>1. b1 \in Octets /\ b2 \in Octets /\ b3 \in Octets /\ z - 3 * q \in Nat
  <2>1. 3 * q \in Nat /\ 3 * q + 1 \in Nat /\ 3 * q + 2 \in Nat
    OBVIOUS
  <2>2. b1 \in Octets /\ b2 \in Octets /\ b3 \in Octets
    BY <2>1, OctetAtType
  <2>3. QED
    BY <2>2
<1> DEFINE g == GroupOf(s, z, q)
<1>2. g = Group(b1, b2, b3, z - 3 * q)
  BY DEF GroupOf
<1>3. oo = o \o g
  OBVIOUS
<1> HIDE DEF b1, b2, b3, g
<1>4. g \in Seq(Nat) /\ Len(g) = 4 /\ \A r \in 1..4 : IsBase64(g[r])
  BY <1>1, <1>2, GroupType, GroupIsBase64
<1>5. /\ Len(oo) = 4 * q + 4
      /\ \A n \in 1..(4 * q) : oo[n] = o[n]
      /\ \A r \in 1..4 : oo[4 * q + r] = g[r]
  <2>1. Joins(oo, Nat, o, g)
    BY <1>3, <1>4, Joined
  <2>2. QED
    BY <1>4, <2>1 DEF Joins
<1>6. ASSUME NEW h \in Nat, 3 * h < 3 * q + 3, NEW r \in 1..4
      PROVE  oo[4 * h + r] = GroupOf(s, z, h)[r]
  <2>1. CASE h = q
    BY <1>5, <2>1 DEF g
  <2>2. CASE h < q
    <3>1. 4 * h + r \in 1..(4 * q) /\ 3 * h < 3 * q
      BY <2>2
    <3>2. QED
      BY <1>5, <3>1 DEF GroupsStand
  <2>3. h = q \/ h < q
    BY <1>6
  <2>4. QED
    BY <2>1, <2>2, <2>3
<1>7. ASSUME NEW n \in 1..Len(oo) PROVE IsBase64(oo[n])
  <2>1. CASE n \in 1..(4 * q)
    BY <1>5, <2>1 DEF AllBase64
  <2>2. CASE n \in (4 * q + 1)..(4 * q + 4)
    <3>1. n - 4 * q \in 1..4 /\ n = 4 * q + (n - 4 * q)
      BY <2>2
    <3>2. QED
      BY <1>4, <1>5, <3>1
  <2>3. n \in 1..(4 * q) \/ n \in (4 * q + 1)..(4 * q + 4)
    BY <1>5, <1>7
  <2>4. QED
    BY <2>1, <2>2, <2>3
<1>8. QED
  BY <1>6, <1>7 DEF GroupsStand, AllBase64

(* One more group given back.                                              *)
LEMMA GroupRestored ==
  ASSUME NEW s \in Seq(Octets), NEW z \in 0..Len(s), NEW q \in Nat, 3 * q < z,
         NEW d \in Seq(Octets), Restored(s, z, d, q),
         NEW dd, dd = d \o Written(GroupOf(s, z, q)[1], GroupOf(s, z, q)[2],
                                   GroupOf(s, z, q)[3], GroupOf(s, z, q)[4])
  PROVE  Restored(s, z, dd, q + 1)
<1> DEFINE n == z - 3 * q
<1> DEFINE b1 == OctetAt(s, z, 3 * q)
<1> DEFINE b2 == OctetAt(s, z, 3 * q + 1)
<1> DEFINE b3 == OctetAt(s, z, 3 * q + 2)
<1> DEFINE w == Written(GroupOf(s, z, q)[1], GroupOf(s, z, q)[2],
                        GroupOf(s, z, q)[3], GroupOf(s, z, q)[4])
<1>1. /\ b1 \in Octets /\ b2 \in Octets /\ b3 \in Octets /\ n \in Nat \ {0}
      /\ n < 3 => b3 = 0
      /\ n < 2 => b2 = 0
      /\ b1 = s[3 * q + 1]
      /\ n >= 2 => b2 = s[3 * q + 2]
      /\ n >= 3 => b3 = s[3 * q + 3]
  <2>1. 3 * q \in Nat /\ 3 * q + 1 \in Nat /\ 3 * q + 2 \in Nat
    OBVIOUS
  <2>2. b1 \in Octets /\ b2 \in Octets /\ b3 \in Octets
    BY <2>1, OctetAtType
  <2>3. n \in Nat \ {0}
    OBVIOUS
  <2>4. /\ n < 3 => b3 = 0
        /\ n < 2 => b2 = 0
        /\ b1 = s[3 * q + 1]
        /\ n >= 2 => b2 = s[3 * q + 2]
        /\ n >= 3 => b3 = s[3 * q + 3]
    BY DEF OctetAt
  <2>5. QED
    BY <2>2, <2>3, <2>4
<1>2. /\ w \in Seq(Octets)
      /\ Len(w) = IF n < 3 THEN n ELSE 3
      /\ w[1] = b1
      /\ n >= 2 => w[2] = b2
      /\ n >= 3 => w[3] = b3
  <2>1. GroupOf(s, z, q) = Group(b1, b2, b3, n)
    BY DEF GroupOf
  <2> DEFINE g == GroupOf(s, z, q)
  <2>2. w = Written(g[1], g[2], g[3], g[4]) /\ g = Group(b1, b2, b3, n)
    BY <2>1
  <2> HIDE DEF b1, b2, b3, n, w, g
  <2>3. GivesBack(w, b1, b2, b3, n)
    BY <1>1, <2>2, GroupComesBack
  <2>4. QED
    BY <2>3 DEF GivesBack
<1>3. dd = d \o w
  OBVIOUS
<1> HIDE DEF w, b1, b2, b3
<1>4. Len(d) = 3 * q /\ \A m \in 1..(3 * q) : d[m] = s[m]
  <2>1. 3 * q <= z
    OBVIOUS
  <2>2. QED
    BY <2>1 DEF Restored
<1>5. Len(dd) = Len(d) + Len(w)
  BY <1>2, <1>3, Concat
<1>6. /\ \A m \in 1..(3 * q) : dd[m] = d[m]
      /\ \A m \in 1..Len(w) : dd[3 * q + m] = w[m]
  BY <1>2, <1>3, <1>4
<1>7. Len(dd) = IF 3 * (q + 1) <= z THEN 3 * (q + 1) ELSE z
  BY <1>1, <1>2, <1>4, <1>5
<1>8. ASSUME NEW m \in 1..Len(dd) PROVE dd[m] = s[m]
  <2>1. CASE m \in 1..(3 * q)
    BY <1>4, <1>6, <2>1
  <2>2. CASE m = 3 * q + 1
    BY <1>1, <1>2, <1>6, <2>2
  <2>3. CASE m = 3 * q + 2
    <3>1. n >= 2 /\ 2 \in 1..Len(w)
      BY <1>1, <1>2, <1>4, <1>5, <2>3, <1>8
    <3>2. QED
      BY <1>1, <1>2, <1>6, <2>3, <3>1
  <2>4. CASE m = 3 * q + 3
    <3>1. n >= 3 /\ 3 \in 1..Len(w)
      BY <1>1, <1>2, <1>4, <1>5, <2>4, <1>8
    <3>2. QED
      BY <1>1, <1>2, <1>6, <2>4, <3>1
  <2>5. Len(dd) <= 3 * q + 3
    BY <1>1, <1>2, <1>4, <1>5
  <2>6. m \in 1..(3 * q) \/ m = 3 * q + 1 \/ m = 3 * q + 2 \/ m = 3 * q + 3
    BY <1>7, <1>8, <2>5
  <2>7. QED
    BY <2>1, <2>2, <2>3, <2>4, <2>6
<1>9. QED
  BY <1>7, <1>8 DEF Restored

-----------------------------------------------------------------------------
LEMMA InitIsTrip == Init => Trip
BY DEF Init, Base64Init, EncodeInit, Trip, GroupsStand, AllBase64

LEMMA EncodeGroupTrips == IInv /\ Trip /\ EncodeGroup => Trip'
<1> SUFFICES ASSUME IInv, Trip, EncodeGroup PROVE Trip'
  OBVIOUS
<1>1. /\ src \in Seq(Octets) /\ size \in 0..Len(src) /\ i < size /\ out \in Seq(Nat)
      /\ pc = "encode" /\ pc' = pc /\ src' = src /\ size' = size /\ i' = i + 3
  BY DEF IInv, TypeOK, EncodeGroup
<1>2. PICK q \in Nat : i = 3 * q
  BY DEF IInv, Coding
<1>3. 3 * q < size /\ Len(out) = 4 * q
  BY <1>1, <1>2 DEF IInv, Coding
<1>4. out' = out \o GroupOf(src, size, q)
  <2>1. out' = out \o Group(src[i + 1], IF i + 1 < size THEN src[i + 2] ELSE 0,
                            IF i + 2 < size THEN src[i + 3] ELSE 0, size - i)
    BY DEF EncodeGroup
  <2>2. /\ OctetAt(src, size, 3 * q) = src[i + 1]
        /\ OctetAt(src, size, 3 * q + 1) = IF i + 1 < size THEN src[i + 2] ELSE 0
        /\ OctetAt(src, size, 3 * q + 2) = IF i + 2 < size THEN src[i + 3] ELSE 0
        /\ size - 3 * q = size - i
    BY <1>1, <1>2, <1>3 DEF OctetAt
  <2>3. QED
    BY <2>1, <2>2 DEF GroupOf
<1>5. GroupsStand(src, size, 3 * q, out) /\ AllBase64(out)
  BY <1>2 DEF Trip
<1>6. GroupsStand(src, size, 3 * q + 3, out') /\ AllBase64(out')
  BY <1>1, <1>3, <1>4, <1>5, GroupAppended
<1>7. i' = 3 * q + 3
  BY <1>1, <1>2
<1>8. QED
  BY <1>1, <1>6, <1>7 DEF Trip

(* The text is given as it was written.                                    *)
LEMMA EncodeReturnsTrips == IInv /\ Trip /\ EncodeReturns => Trip'
<1> SUFFICES ASSUME IInv, Trip, EncodeReturns PROVE Trip'
  OBVIOUS
<1>1. /\ pc = "encode" /\ pc' = "encoded" /\ text' = out /\ size <= i
      /\ UNCHANGED <<src, size, i, out, buf, k>>
  BY DEF EncodeReturns, encodeVars, IInv, TypeOK
<1>2. out \in Seq(Nat) /\ buf = <<>> /\ k = 0 /\ Len(buf) = 0
  BY <1>1 DEF IInv, TypeOK, Coding
<1> DEFINE at == [n \in 1..Len(out) |-> n]
<1>3. Spread(at, out, out)
  BY <1>2 DEF Spread
<1>4. Sifted(at, out, <<>>, 0)
  <2>1. Len(<<>>) = 0 /\ Len(out) \in Nat
    BY <1>2
  <2>2. QED
    BY <2>1 DEF Sifted
<1>5. at \in [1..Len(out) -> 1..Len(out)]
  OBVIOUS
<1> HIDE DEF at
<1>6. \E f \in [1..Len(out') -> 1..Len(text')] : Spread(f, out', text') /\ Sifted(f, out', buf', k')
  BY <1>1, <1>2, <1>3, <1>4, <1>5
<1>7. QED
  BY <1>1, <1>6 DEF Trip

(* The text t with the break c after n characters, and where the places at *)
(* have gone.                                                              *)
WithBreak(t, n, c) == SubSeq(t, 1, n) \o <<c>> \o SubSeq(t, n + 1, Len(t))

Moved(at, n, o) == [m \in 1..Len(o) |-> IF at[m] <= n THEN at[m] ELSE at[m] + 1]

(* A break moves what comes after it by one.                               *)
LEMMA BreakSpreads ==
  ASSUME NEW o \in Seq(Nat), NEW t \in Seq(Nat), NEW at, Spread(at, o, t),
         NEW c \in Nat, ~ IsBase64(c), AllBase64(o), NEW n \in Nat, n <= Len(t), NEW tt,
         tt = WithBreak(t, n, c), NEW ff, ff = Moved(at, n, o)
  PROVE  Spread(ff, o, tt)
<1>1. /\ tt \in Seq(Nat) /\ Len(tt) = Len(t) + 1
      /\ \A m \in 1..n : tt[m] = t[m]
      /\ tt[n + 1] = c
      /\ \A m \in (n + 1)..Len(t) : tt[m + 1] = t[m]
  <2> DEFINE x == SubSeq(t, 1, n)
  <2> DEFINE y == SubSeq(t, n + 1, Len(t))
  <2> DEFINE z == <<c>>
  <2> DEFINE w == x \o z
  <2>1. x \in Seq(Nat) /\ Len(x) = n /\ \A m \in 1..n : x[m] = t[m]
    OBVIOUS
  <2>2. /\ y \in Seq(Nat) /\ Len(y) = Len(t) - n
        /\ \A m \in 1..(Len(t) - n) : y[m] = t[(n + 1) + m - 1]
    OBVIOUS
  <2>3. z \in Seq(Nat) /\ Len(z) = 1 /\ z[1] = c
    OBVIOUS
  <2>4. tt = w \o y /\ w = x \o z
    BY DEF WithBreak
  <2> HIDE DEF x, y, z, w
  <2>5. Joins(w, Nat, x, z)
    BY <2>1, <2>3, <2>4, Joined
  <2>6. w \in Seq(Nat) /\ Len(w) = n + 1 /\ (\A m \in 1..n : w[m] = x[m]) /\ w[n + 1] = z[1]
    BY <2>1, <2>3, <2>5 DEF Joins
  <2>7. Joins(tt, Nat, w, y)
    BY <2>2, <2>4, <2>6, Joined
  <2>8. Len(t) \in Nat /\ n \in Nat /\ n <= Len(t)
    OBVIOUS
  <2>9. tt \in Seq(Nat) /\ Len(tt) = Len(t) + 1
    BY <2>2, <2>6, <2>7, <2>8 DEF Joins
  <2>10. ASSUME NEW m \in 1..n PROVE tt[m] = t[m]
    <3>1. m \in 1..Len(w)
      BY <2>6, <2>8
    <3>2. tt[m] = w[m]
      BY <2>7, <3>1 DEF Joins
    <3>3. QED
      BY <2>1, <2>6, <3>2
  <2>11. tt[n + 1] = c
    BY <2>3, <2>6, <2>7, <2>8 DEF Joins
  <2>12. ASSUME NEW m \in (n + 1)..Len(t) PROVE tt[m + 1] = t[m]
    <3>1. /\ m - n \in 1..Len(y) /\ m - n \in 1..(Len(t) - n)
          /\ Len(w) + (m - n) = m + 1 /\ (n + 1) + (m - n) - 1 = m
      BY <2>2, <2>6, <2>8
    <3>2. tt[Len(w) + (m - n)] = y[m - n]
      BY <2>7, <3>1 DEF Joins
    <3>3. y[m - n] = t[(n + 1) + (m - n) - 1]
      BY <2>2, <3>1
    <3>4. QED
      BY <3>1, <3>2, <3>3
  <2>13. QED
    BY <2>9, <2>10, <2>11, <2>12
<1>2. /\ at \in [1..Len(o) -> 1..Len(t)]
      /\ \A m, p \in 1..Len(o) : m < p => at[m] < at[p]
      /\ \A m \in 1..Len(o) : t[at[m]] = o[m]
      /\ \A p \in 1..Len(t) : (\A m \in 1..Len(o) : at[m] # p) => ~ IsBase64(t[p])
  BY DEF Spread
<1>3. ASSUME NEW m \in 1..Len(o)
      PROVE  /\ at[m] \in 1..Len(t)
             /\ ff[m] = IF at[m] <= n THEN at[m] ELSE at[m] + 1
             /\ ff[m] \in 1..Len(tt)
             /\ tt[ff[m]] = o[m]
  <2>1. at[m] \in 1..Len(t) /\ t[at[m]] = o[m]
    BY <1>2
  <2>2. ff[m] = IF at[m] <= n THEN at[m] ELSE at[m] + 1
    BY DEF Moved
  <2>3. Len(t) \in Nat /\ n \in Nat /\ n <= Len(t) /\ Len(tt) = Len(t) + 1
    BY <1>1
  <2>4. CASE at[m] <= n
    <3>1. ff[m] = at[m]
      BY <2>2, <2>4
    <3>2. at[m] \in 1..n /\ at[m] \in 1..Len(tt)
      BY <2>1, <2>3, <2>4
    <3>3. tt[at[m]] = t[at[m]]
      BY <1>1, <3>2
    <3>4. QED
      BY <2>1, <2>2, <3>1, <3>2, <3>3
  <2>5. CASE at[m] > n
    <3>1. ff[m] = at[m] + 1
      BY <2>1, <2>2, <2>3, <2>5
    <3>2. at[m] \in (n + 1)..Len(t) /\ at[m] + 1 \in 1..Len(tt)
      <4>1. PICK x \in Int : x = at[m]
        BY <2>1
      <4>2. x > n /\ x <= Len(t) /\ x >= 1
        BY <2>1, <2>3, <2>5, <4>1
      <4>3. x \in (n + 1)..Len(t) /\ x + 1 \in 1..Len(tt)
        BY <2>3, <4>2
      <4>4. QED
        BY <4>1, <4>3
    <3>3. tt[at[m] + 1] = t[at[m]]
      BY <1>1, <3>2
    <3>4. QED
      BY <2>1, <2>2, <3>1, <3>2, <3>3
  <2>6. QED
    BY <2>1, <2>3, <2>4, <2>5
<1>4. ff \in [1..Len(o) -> 1..Len(tt)]
  <2>1. ff = [m \in 1..Len(o) |-> ff[m]]
    BY DEF Moved
  <2>2. \A m \in 1..Len(o) : ff[m] \in 1..Len(tt)
    BY <1>3
  <2>3. QED
    BY <2>1, <2>2
<1>5. ASSUME NEW m \in 1..Len(o), NEW p \in 1..Len(o), m < p PROVE ff[m] < ff[p]
  <2>1. at[m] < at[p] /\ at[m] \in 1..Len(t) /\ at[p] \in 1..Len(t)
    BY <1>2, <1>3, <1>5
  <2>2. /\ ff[m] = IF at[m] <= n THEN at[m] ELSE at[m] + 1
        /\ ff[p] = IF at[p] <= n THEN at[p] ELSE at[p] + 1
    BY <1>3
  <2>3. PICK x \in Int, y \in Int : x = at[m] /\ y = at[p]
    BY <2>1
  <2>4. x < y
    BY <2>1, <2>3
  <2>5. (IF x <= n THEN x ELSE x + 1) < (IF y <= n THEN y ELSE y + 1)
    BY <2>4
  <2>6. QED
    BY <2>2, <2>3, <2>5
<1>6. ASSUME NEW p \in 1..Len(tt), \A m \in 1..Len(o) : ff[m] # p PROVE ~ IsBase64(tt[p])
  <2>1. CASE p <= n
    <3>1. \A m \in 1..Len(o) : at[m] # p
      BY <1>3, <1>6, <2>1
    <3>2. p \in 1..Len(t) /\ tt[p] = t[p]
      BY <1>1, <2>1
    <3>3. QED
      BY <1>2, <3>1, <3>2
  <2>2. CASE p = n + 1
    BY <1>1, <2>2
  <2>3. CASE p > n + 1
    <3>1. p - 1 \in (n + 1)..Len(t) /\ p - 1 \in 1..Len(t) /\ (p - 1) + 1 = p
      <4>1. Len(tt) = Len(t) + 1 /\ Len(t) \in Nat /\ n \in Nat
        BY <1>1
      <4>2. QED
        BY <1>6, <2>3, <4>1
    <3>2. ASSUME NEW m \in 1..Len(o), at[m] = p - 1 PROVE FALSE
      <4>1. ff[m] = (IF at[m] <= n THEN at[m] ELSE at[m] + 1) /\ ff[m] # p
        BY <1>3, <1>6
      <4>2. p \in Int /\ n \in Int
        OBVIOUS
      <4>3. QED
        BY <2>3, <3>2, <4>1, <4>2
    <3>3. tt[p] = t[p - 1]
      BY <1>1, <3>1
    <3>4. QED
      BY <1>2, <3>1, <3>2, <3>3
  <2>4. p <= n \/ p = n + 1 \/ p > n + 1
    <3>1. Len(tt) \in Nat
      BY <1>1
    <3>2. QED
      BY <1>6, <3>1
  <2>5. QED
    BY <2>1, <2>2, <2>3, <2>4
<1>7. QED
  BY <1>3, <1>4, <1>5, <1>6 DEF Spread

LEMMA BreakTrips == IInv /\ Trip /\ Break => Trip'
<1> SUFFICES ASSUME IInv, Trip, Break PROVE Trip'
  OBVIOUS
<1>1. /\ pc = "encoded" /\ pc' = "encoded" /\ text \in Seq(Nat) /\ out \in Seq(Nat)
      /\ buf = <<>> /\ k = 0
      /\ UNCHANGED <<src, size, i, out, buf, k>>
  BY DEF Break, encodeVars, IInv, TypeOK, Coding
<1>2. PICK c \in Breaks, n \in 0..Len(text) :
        text' = SubSeq(text, 1, n) \o <<c>> \o SubSeq(text, n + 1, Len(text))
  BY DEF Break
<1>3. c \in Nat /\ ~ IsBase64(c) /\ AllBase64(out)
  BY BreaksAssumption DEF Trip
<1>4. PICK at \in [1..Len(out) -> 1..Len(text)] : Spread(at, out, text) /\ Sifted(at, out, buf, k)
  BY <1>1 DEF Trip
<1>5. PICK ff : ff = Moved(at, n, out)
  OBVIOUS
<1>6. PICK tt : tt = text'
  OBVIOUS
<1>7. tt = WithBreak(text, n, c)
  BY <1>2, <1>6 DEF WithBreak
<1>8. Spread(ff, out, tt)
  <2>1. n \in Nat /\ n <= Len(text)
    BY <1>1
  <2>2. QED
    BY <1>1, <1>3, <1>4, <1>5, <1>7, <2>1, BreakSpreads
<1>9. Sifted(ff, out, <<>>, 0)
  <2>1. ff \in [1..Len(out) -> 1..Len(tt)]
    BY <1>8 DEF Spread
  <2>2. \A m \in 1..Len(out) : ff[m] \in 1..Len(tt)
    BY <2>1
  <2>3. Len(<<>>) = 0 /\ Len(out) \in Nat
    BY <1>1
  <2>4. QED
    BY <2>2, <2>3 DEF Sifted
<1>10. ff \in [1..Len(out) -> 1..Len(tt)]
  BY <1>8 DEF Spread
<1>11. \E f \in [1..Len(out') -> 1..Len(text')] : Spread(f, out', text') /\ Sifted(f, out', buf', k')
  BY <1>1, <1>6, <1>8, <1>9, <1>10
<1>12. QED
  BY <1>1, <1>11 DEF Trip

LEMMA DecodeCallTrips == IInv /\ Trip /\ DecodeCall => Trip'
<1> SUFFICES ASSUME IInv, Trip, DecodeCall PROVE Trip'
  OBVIOUS
<1>1. /\ pc = "encoded" /\ pc' = "filter"
      /\ UNCHANGED <<src, size, i, out, text, buf, k>>
  BY DEF DecodeCall, encodeVars, decodeVars
<1>2. QED
  BY <1>1 DEF Trip

(* f, and c if it is base64.                                               *)
Sieved(f, c) == IF IsBase64(c) THEN Append(f, c) ELSE f

(* A character of the text is the next one of what was written, or none.   *)
LEMMA SiftsOne ==
  ASSUME NEW o \in Seq(Nat), NEW t \in Seq(Nat), NEW at, Spread(at, o, t), AllBase64(o),
         NEW f \in Seq(Nat), NEW m \in Nat, m < Len(t), Sifted(at, o, f, m),
         NEW c, c = t[m + 1], NEW ff, ff = Sieved(f, c)
  PROVE  Sifted(at, o, ff, m + 1)
<1>1. /\ at \in [1..Len(o) -> 1..Len(t)]
      /\ \A n, p \in 1..Len(o) : n < p => at[n] < at[p]
      /\ \A n \in 1..Len(o) : t[at[n]] = o[n]
      /\ \A p \in 1..Len(t) : (\A n \in 1..Len(o) : at[n] # p) => ~ IsBase64(t[p])
  BY DEF Spread
<1>2. /\ Len(f) <= Len(o)
      /\ \A n \in 1..Len(f) : f[n] = o[n]
      /\ \A n \in 1..Len(o) : at[n] <= m <=> n <= Len(f)
  BY DEF Sifted
<1>3. \A n \in 1..Len(o) : at[n] \in 1..Len(t)
  BY <1>1
<1>4. m \in Nat /\ Len(f) \in Nat /\ Len(o) \in Nat /\ Len(t) \in Nat
  OBVIOUS
<1>5. m + 1 \in 1..Len(t)
  OBVIOUS
<1>6. CASE IsBase64(c)
  <2>1. PICK n \in 1..Len(o) : at[n] = m + 1
    BY <1>1, <1>5, <1>6
  <2>2. n > Len(f)
    BY <1>2, <1>4, <2>1
  <2>3. n = Len(f) + 1
    <3> SUFFICES ASSUME n # Len(f) + 1 PROVE FALSE
      OBVIOUS
    <3>1. n > Len(f) + 1
      BY <1>4, <2>2
    <3>2. Len(f) + 1 \in 1..Len(o)
      BY <1>4, <3>1
    <3>3. at[Len(f) + 1] < m + 1 /\ at[Len(f) + 1] \in 1..Len(t)
      BY <1>1, <1>3, <2>1, <3>1, <3>2
    <3>4. at[Len(f) + 1] <= m
      BY <1>4, <3>3
    <3>5. QED
      BY <1>2, <1>4, <3>2, <3>4
  <2>4. /\ ff \in Seq(Nat) /\ Len(ff) = Len(f) + 1 /\ ff[Len(f) + 1] = c
        /\ \A p \in 1..Len(f) : ff[p] = f[p]
    <3>1. c \in Nat
      BY <1>5
    <3>2. QED
      BY <1>6, <3>1 DEF Sieved
  <2>5. c = o[n]
    BY <1>1, <2>1
  <2>6. ASSUME NEW p \in 1..Len(o) PROVE at[p] <= m + 1 <=> p <= Len(f) + 1
    <3>1. CASE p <= Len(f)
      <4>1. at[p] <= m /\ at[p] \in 1..Len(t)
        BY <1>2, <1>3, <3>1
      <4>2. PICK x \in Int : x = at[p]
        BY <4>1
      <4>3. x <= m + 1
        BY <1>4, <4>1, <4>2
      <4>4. p <= Len(f) + 1
        BY <1>4, <3>1
      <4>5. QED
        BY <4>2, <4>3, <4>4
    <3>2. CASE p = n
      BY <1>4, <2>1, <2>3, <3>2
    <3>3. CASE p > n
      <4>1. at[n] < at[p]
        BY <1>1, <3>3
      <4>2. QED
        BY <1>3, <1>4, <2>1, <2>3, <3>3, <4>1
    <3>4. QED
      BY <1>4, <2>3, <3>1, <3>2, <3>3
  <2>7. ASSUME NEW p \in 1..Len(ff) PROVE ff[p] = o[p]
    <3>1. Len(ff) = Len(f) + 1
      BY <2>4
    <3>2. p \in 1..Len(f) \/ p = Len(f) + 1
      BY <1>4, <3>1
    <3>3. CASE p \in 1..Len(f)
      BY <1>2, <2>4, <3>3
    <3>4. CASE p = Len(f) + 1
      BY <2>3, <2>4, <2>5, <3>4
    <3>5. QED
      BY <3>2, <3>3, <3>4
  <2>8. Len(ff) = Len(f) + 1
    BY <2>4
  <2>9. Len(ff) <= Len(o)
    BY <1>4, <2>3, <2>8
  <2>10. QED
    BY <2>6, <2>7, <2>8, <2>9 DEF Sifted
<1>7. CASE ~ IsBase64(c)
  <2>1. ASSUME NEW p \in 1..Len(o) PROVE at[p] # m + 1
    <3>1. IsBase64(t[at[p]])
      BY <1>1 DEF AllBase64
    <3>2. QED
      BY <1>7, <3>1
  <2>2. ASSUME NEW p \in 1..Len(o) PROVE at[p] <= m + 1 <=> p <= Len(f)
    <3>1. at[p] \in 1..Len(t) /\ at[p] # m + 1 /\ (at[p] <= m <=> p <= Len(f))
      BY <1>2, <1>3, <2>1
    <3>2. PICK x \in Int : x = at[p]
      BY <3>1
    <3>3. x <= m + 1 <=> x <= m
      <4>1. x # m + 1
        BY <3>1, <3>2
      <4>2. QED
        BY <1>4, <4>1
    <3>4. QED
      BY <3>1, <3>2, <3>3
  <2>3. ff = f
    BY <1>7 DEF Sieved
  <2>4. QED
    BY <1>2, <2>2, <2>3 DEF Sifted
<1>8. QED
  BY <1>6, <1>7

LEMMA FilterTrips == IInv /\ Trip /\ Filter => Trip'
<1> SUFFICES ASSUME IInv, Trip, Filter PROVE Trip'
  OBVIOUS
<1>1. /\ pc = "filter" /\ pc' = "filter" /\ k' = k + 1 /\ k \in Nat /\ k < Len(text)
      /\ text \in Seq(Nat) /\ out \in Seq(Nat) /\ buf \in Seq(Nat)
      /\ buf' = Sieved(buf, text[k + 1])
      /\ UNCHANGED <<src, size, i, out, text>>
  BY DEF Filter, encodeVars, IInv, TypeOK, Sieved
<1>2. AllBase64(out)
  BY DEF Trip
<1>3. PICK at \in [1..Len(out) -> 1..Len(text)] : Spread(at, out, text) /\ Sifted(at, out, buf, k)
  BY <1>1 DEF Trip
<1>4. Sifted(at, out, buf', k + 1)
  <2>1. PICK c, f : c = text[k + 1] /\ f = buf'
    OBVIOUS
  <2>2. f = Sieved(buf, c)
    BY <1>1, <2>1
  <2>3. Sifted(at, out, f, k + 1)
    BY <1>1, <1>2, <1>3, <2>1, <2>2, SiftsOne
  <2>4. QED
    BY <2>1, <2>3
<1>5. \E f \in [1..Len(out') -> 1..Len(text')] : Spread(f, out', text') /\ Sifted(f, out', buf', k')
  BY <1>1, <1>3, <1>4
<1>6. QED
  BY <1>1, <1>5 DEF Trip

(* All of the text was looked at: what is left is what was written.        *)
LEMMA FilterEndsTrips == IInv /\ Trip /\ FilterEnds => Trip'
<1> SUFFICES ASSUME IInv, Trip, FilterEnds PROVE Trip'
  OBVIOUS
<1>1. /\ pc = "filter" /\ pc' = "decode" /\ k = Len(text) /\ k' = 0
      /\ text \in Seq(Nat) /\ out \in Seq(Nat) /\ buf \in Seq(Nat)
      /\ dest = <<>> /\ size \in 0..Len(src) /\ src \in Seq(Octets)
      /\ UNCHANGED <<src, size, i, out, text, buf, dest>>
  BY DEF FilterEnds, encodeVars, IInv, TypeOK, Coding
<1>2. PICK at \in [1..Len(out) -> 1..Len(text)] : Spread(at, out, text) /\ Sifted(at, out, buf, k)
  BY <1>1 DEF Trip
<1>3. buf = out
  <2>1. Len(buf) <= Len(out) /\ \A n \in 1..Len(buf) : buf[n] = out[n]
    BY <1>2 DEF Sifted
  <2>2. Len(out) <= Len(buf)
    <3>1. CASE Len(out) = 0
      BY <1>1, <3>1
    <3>2. CASE Len(out) # 0
      <4>1. Len(out) \in 1..Len(out) /\ at[Len(out)] \in 1..Len(text)
        <5>1. Len(out) \in Nat
          BY <1>1
        <5>2. Len(out) \in 1..Len(out)
          BY <3>2, <5>1
        <5>3. QED
          BY <5>2
      <4>2. at[Len(out)] <= k
        BY <1>1, <4>1
      <4>3. QED
        BY <1>2, <4>1, <4>2 DEF Sifted
    <3>3. QED
      BY <3>1, <3>2
  <2>3. Len(buf) = Len(out)
    BY <1>1, <2>1, <2>2
  <2>4. QED
    BY <1>1, <2>1, <2>3, SameString
<1>4. Restored(src, size, <<>>, 0)
  <2>1. Len(<<>>) = 0 /\ size \in Nat
    BY <1>1
  <2>2. QED
    BY <2>1 DEF Restored
<1>5. k' = 4 * 0 /\ Restored(src', size', dest', 0)
  BY <1>1, <1>4
<1>6. QED
  BY <1>1, <1>3, <1>5 DEF Trip

LEMMA DecodeGroupTrips == IInv /\ Trip /\ DecodeGroup => Trip'
<1> SUFFICES ASSUME IInv, Trip, DecodeGroup PROVE Trip'
  OBVIOUS
<1>1. /\ pc = "decode" /\ pc' = "decode" /\ k < Len(buf) /\ k' = k + 4
      /\ out \in Seq(Nat) /\ dest \in Seq(Octets) /\ i \in Nat
      /\ size \in 0..Len(src) /\ src \in Seq(Octets)
      /\ UNCHANGED <<src, size, i, out, buf>>
  BY DEF DecodeGroup, encodeVars, IInv, TypeOK
<1>2. buf = out /\ GroupsStand(src, size, i, out)
  BY <1>1 DEF Trip
<1>3. PICK q \in Nat : k = 4 * q /\ Restored(src, size, dest, q)
  BY <1>1 DEF Trip
<1>4. 3 * Len(out) = 4 * i /\ i <= size + 2
  BY DEF IInv, Coding
<1>5. PICK e \in Nat : i = 3 * e
  BY DEF IInv, Coding
<1>6. Len(out) = 4 * e /\ q < e
  <2>1. Len(out) \in Nat
    BY <1>1
  <2>2. QED
    BY <1>1, <1>2, <1>3, <1>4, <1>5, <2>1
<1>7. 3 * q < size /\ 3 * q < i /\ k + 3 < Len(buf)
  BY <1>1, <1>2, <1>3, <1>4, <1>5, <1>6
<1> DEFINE g == GroupOf(src, size, q)
<1>8. out[k + 1] = g[1] /\ out[k + 2] = g[2] /\ out[k + 3] = g[3] /\ out[k + 4] = g[4]
  <2>1. \A r \in 1..4 : out[4 * q + r] = g[r]
    BY <1>2, <1>7 DEF GroupsStand
  <2> HIDE DEF g
  <2>2. QED
    BY <1>3, <2>1
<1>9. dest' = dest \o Written(out[k + 1], out[k + 2], out[k + 3], out[k + 4])
  <2> DEFINE c(n) == IF k + n < Len(buf) THEN buf[k + n + 1] ELSE 65
  <2> DEFINE sextet(n) == B64Decode(c(n))
  <2>1. dest' = dest \o <<(sextet(0) * 4 + sextet(1) \div 16) % 256>>
                     \o (IF c(2) # Pad THEN <<(sextet(1) % 16) * 16 + sextet(2) \div 4>> ELSE <<>>)
                     \o (IF c(3) # Pad THEN <<(sextet(2) % 4) * 64 + sextet(3)>> ELSE <<>>)
    BY DEF DecodeGroup
  <2>2. c(0) = out[k + 1] /\ c(1) = out[k + 2] /\ c(2) = out[k + 3] /\ c(3) = out[k + 4]
    BY <1>2, <1>3, <1>7
  <2> DEFINE c1 == out[k + 1]
  <2> DEFINE c2 == out[k + 2]
  <2> DEFINE c3 == out[k + 3]
  <2> DEFINE c4 == out[k + 4]
  <2> DEFINE d1 == <<(B64Decode(c1) * 4 + B64Decode(c2) \div 16) % 256>>
  <2> DEFINE d2 == IF c3 # Pad THEN <<(B64Decode(c2) % 16) * 16 + B64Decode(c3) \div 4>> ELSE <<>>
  <2> DEFINE d3 == IF c4 # Pad THEN <<(B64Decode(c3) % 4) * 64 + B64Decode(c4)>> ELSE <<>>
  <2>3. dest' = dest \o d1 \o d2 \o d3
    <3>1. /\ sextet(0) = B64Decode(c1) /\ sextet(1) = B64Decode(c2)
          /\ sextet(2) = B64Decode(c3) /\ sextet(3) = B64Decode(c4)
      BY <2>2
    <3> DEFINE e1 == <<(sextet(0) * 4 + sextet(1) \div 16) % 256>>
    <3> DEFINE e2 == IF c(2) # Pad THEN <<(sextet(1) % 16) * 16 + sextet(2) \div 4>> ELSE <<>>
    <3> DEFINE e3 == IF c(3) # Pad THEN <<(sextet(2) % 4) * 64 + sextet(3)>> ELSE <<>>
    <3>2. dest' = dest \o e1 \o e2 \o e3
      BY <2>1
    <3> HIDE DEF sextet, c
    <3>3. e1 = d1
      BY <3>1
    <3>4. e2 = d2
      BY <2>2, <3>1
    <3>5. e3 = d3
      BY <2>2, <3>1
    <3> HIDE DEF e1, e2, e3, d1, d2, d3
    <3>6. QED
      BY <3>2, <3>3, <3>4, <3>5
  <2>4. Written(c1, c2, c3, c4) = d1 \o d2 \o d3
    BY DEF Written
  <2>5. d1 \in Seq(Octets) /\ d2 \in Seq(Octets) /\ d3 \in Seq(Octets)
    <3>1. k + 1 \in 1..Len(out) /\ k + 2 \in 1..Len(out) /\ k + 3 \in 1..Len(out) /\ k + 4 \in 1..Len(out)
      <4>1. Len(out) \in Nat /\ k \in Nat
        BY <1>1, <1>3
      <4>2. QED
        BY <1>2, <1>7, <4>1
    <3>2. \A n \in 1..Len(out) : out[n] \in Nat
      BY <1>1
    <3> HIDE DEF d1, d2, d3
    <3>3. c1 \in Nat /\ c2 \in Nat /\ c3 \in Nat /\ c4 \in Nat
      BY <3>1, <3>2
    <3> USE DEF d1, d2, d3
    <3> HIDE DEF c1, c2, c3, c4
    <3>4. /\ B64Decode(c1) \in 0..63 /\ B64Decode(c2) \in 0..63
          /\ B64Decode(c3) \in 0..63 /\ B64Decode(c4) \in 0..63
      BY <3>3, DecodeType
    <3>5. /\ (B64Decode(c1) * 4 + B64Decode(c2) \div 16) % 256 \in Octets
          /\ (B64Decode(c2) % 16) * 16 + B64Decode(c3) \div 4 \in Octets
          /\ (B64Decode(c3) % 4) * 64 + B64Decode(c4) \in Octets
      BY <3>4, OctetsOfSextets
    <3>6. QED
      BY <3>5
  <2> HIDE DEF d1, d2, d3
  <2>6. dest \o d1 \o d2 \o d3 = dest \o (d1 \o d2 \o d3)
    <3>1. dest \in Seq(Octets)
      BY <1>1
    <3>2. d1 \o d2 \in Seq(Octets)
      BY <2>5
    <3>3. (dest \o d1) \o d2 = dest \o (d1 \o d2)
      BY <2>5, <3>1, Associative
    <3>4. (dest \o (d1 \o d2)) \o d3 = dest \o ((d1 \o d2) \o d3)
      BY <2>5, <3>1, <3>2, Associative
    <3>5. QED
      BY <3>3, <3>4
  <2>7. QED
    BY <2>3, <2>4, <2>6
<1>10. dest' = dest \o Written(g[1], g[2], g[3], g[4])
  <2> HIDE DEF g
  <2>1. QED
    BY <1>8, <1>9
<1>11. Restored(src, size, dest', q + 1)
  BY <1>1, <1>3, <1>7, <1>10, GroupRestored
<1>12. k' = 4 * (q + 1) /\ q + 1 \in Nat
  BY <1>1, <1>3
<1>13. \E p \in Nat : k' = 4 * p /\ Restored(src', size', dest', p)
  BY <1>1, <1>11, <1>12
<1>14. QED
  BY <1>1, <1>2, <1>13 DEF Trip

(* No group is left: everything has come back.                             *)
LEMMA DecodeReturnsTrips == IInv /\ Trip /\ DecodeReturns => Trip'
<1> SUFFICES ASSUME IInv, Trip, DecodeReturns PROVE Trip'
  OBVIOUS
<1>1. /\ pc = "decode" /\ pc' = "decoded" /\ k >= Len(buf)
      /\ out \in Seq(Nat) /\ dest \in Seq(Octets) /\ i \in Nat
      /\ size \in 0..Len(src) /\ src \in Seq(Octets)
      /\ dest' = Append(dest, 0)
      /\ UNCHANGED <<src, size, i, out>>
  BY DEF DecodeReturns, encodeVars, IInv, TypeOK
<1>2. buf = out /\ size <= i
  BY <1>1 DEF Trip
<1>3. PICK q \in Nat : k = 4 * q /\ Restored(src, size, dest, q)
  BY <1>1 DEF Trip
<1>4. size <= 3 * q
  <2>1. 3 * Len(out) = 4 * i /\ Len(out) \in Nat
    BY <1>1 DEF IInv, Coding
  <2>2. QED
    BY <1>1, <1>2, <1>3, <2>1
<1>5. Len(dest) = size /\ \A n \in 1..size : dest[n] = src[n]
  BY <1>1, <1>3, <1>4 DEF Restored
<1>6. dest = SubSeq(src, 1, size)
  <2> DEFINE t == SubSeq(src, 1, size)
  <2>1. t \in Seq(Octets) /\ Len(t) = size /\ \A n \in 1..size : t[n] = src[n]
    BY <1>1
  <2> HIDE DEF t
  <2>2. dest = t
    BY <1>1, <1>5, <2>1
  <2>3. QED
    BY <2>2 DEF t
<1>7. QED
  BY <1>1, <1>2, <1>6 DEF Trip

(* The comparison does not touch what was encoded.                         *)
LEMMA CompareTrips ==
  IInv /\ Trip /\ (CompareCall \/ CompareOctet \/ CompareReturns) => Trip'
<1> SUFFICES ASSUME IInv, Trip, CompareCall \/ CompareOctet \/ CompareReturns PROVE Trip'
  OBVIOUS
<1>1. /\ pc # "encode" /\ pc' \in {"compare", "compared"}
      /\ UNCHANGED <<src, size, i, out>>
  BY DEF CompareCall, CompareOctet, CompareReturns, encodeVars, base64Vars
<1>2. QED
  BY <1>1 DEF Trip

LEMMA StutterTrips == Trip /\ UNCHANGED vars => Trip'
BY DEF Trip, vars, base64Vars, encodeVars, decodeVars

LEMMA NextTrips == IInv /\ Trip /\ [Next]_vars => Trip'
BY EncodeGroupTrips, EncodeReturnsTrips, BreakTrips, DecodeCallTrips, FilterTrips,
   FilterEndsTrips, DecodeGroupTrips, DecodeReturnsTrips, CompareTrips, StutterTrips
DEF Next, Base64Next

(* oauth_decode_base64 gives back the octets that oauth_encode_base64 was  *)
(* given, for octets of every length and values and whatever was put into  *)
(* the text that is not base64.                                            *)
THEOREM OctetsComeBackWhole == Spec => []RoundTrip
<1>1. Trip => RoundTrip
  BY DEF Trip, RoundTrip
<1>2. Spec => []Trip
  BY InitIsTrip, NextTrips, Invariance, PTL DEF Spec
<1>3. QED
  BY <1>1, <1>2, PTL

=============================================================================
