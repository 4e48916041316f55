--------------------------- MODULE UrlCodingProofs ---------------------------
(***************************************************************************)
(* Proofs that the two functions stay inside their buffers and arguments,  *)
(* that an escaped string is clean and that the second gives back what the *)
(* first escaped, for strings of every length, every base and every set of *)
(* unreserved characters.                                                  *)
(***************************************************************************)
EXTENDS UrlCoding, Integers, TLAPS

Clean(s) == \A i \in 1..Len(s) : s[i] \in Unreserved \cup {Percent}

(* While escaping, newlen is what is written and what is left, each of it  *)
(* counted once, and fits the block; while unescaping, count covers both   *)
(* what is left to read and the room to write it.                          *)
IInv ==
  /\ TypeOK
  /\ touched <= alloc
  /\ pc = "call" => string = original /\ taken = 0 /\ ns = <<>> /\ touched = 0
  /\ pc = "escape" => newlen = Len(ns) + rest + 1 /\ newlen <= alloc
  /\ pc \in {"escape", "escaped"} => Clean(ns)
  /\ pc = "escaped" => Len(ns) + 1 <= alloc
  /\ pc = "unescape" => count = rest + 1 /\ Len(ns) + count <= alloc

-----------------------------------------------------------------------------
(* Two digits are enough for any character.                                *)
LEMMA TwoDigits ==
  ASSUME NEW c \in Chars
  PROVE  Digit(c \div Base) \in Digits /\ Digit(c % Base) \in Digits
<1> DEFINE q == c \div Base
<1> DEFINE r == c % Base
<1>1. Base \in Nat /\ Base > 1 /\ c \in Nat /\ c < Base * Base
  BY BaseAssumption DEF Chars
<1>2. r \in 0..(Base - 1) /\ q \in Int /\ c = Base * q + r
  BY <1>1
<1>3. q < Base
  <2>1. SUFFICES ASSUME q >= Base PROVE FALSE
    BY <1>1, <1>2
  <2>2. Base * q >= Base * Base
    BY <1>1, <1>2, <2>1
  <2>3. QED
    BY <1>1, <1>2, <2>2
<1>4. q >= 0
  BY <1>1
<1>5. QED
  BY <1>1, <1>2, <1>3, <1>4 DEF Digit, Digits

(* The three characters written for one are clean, and legal characters.   *)
LEMMA EncodedIsClean ==
  ASSUME NEW c \in Chars
  PROVE  Encoded(c) \in Seq(Chars) /\ Len(Encoded(c)) = 3 /\ Clean(Encoded(c))
<1> DEFINE a == Digit(c \div Base)
<1> DEFINE b == Digit(c % Base)
<1>1. a \in Unreserved /\ b \in Unreserved /\ Percent \in Chars /\ Unreserved \subseteq Chars
  BY TwoDigits, CharsAssumption, PercentAssumption
<1>2. Encoded(c) = <<Percent, a, b>>
  BY DEF Encoded
<1> HIDE DEF a, b
<1>3. QED
  BY <1>1, <1>2 DEF Clean

(* Appending clean characters to a clean string leaves it clean.           *)
LEMMA CleanAppend ==
  ASSUME NEW s \in Seq(Nat), NEW t \in Seq(Chars), Clean(s), Clean(t)
  PROVE  s \o t \in Seq(Nat) /\ Len(s \o t) = Len(s) + Len(t) /\ Clean(s \o t)
<1>1. t \in Seq(Nat)
  BY BaseAssumption DEF Chars
<1>2. s \o t \in Seq(Nat) /\ Len(s \o t) = Len(s) + Len(t)
  BY <1>1
<1>3. \A i \in 1..Len(s \o t) : (s \o t)[i] = IF i <= Len(s) THEN s[i] ELSE t[i - Len(s)]
  BY <1>1, <1>2
<1>4. QED
  BY <1>2, <1>3 DEF Clean

(* A sequence of numbers that are characters is a sequence of characters.  *)
LEMMA ElementsInSeq ==
  ASSUME NEW s \in Seq(Nat), \A i \in 1..Len(s) : s[i] \in Chars
  PROVE  s \in Seq(Chars)
<1>1. Len(s) \in Nat /\ s \in [1..Len(s) -> Nat]
  OBVIOUS
<1>2. s \in [1..Len(s) -> Chars]
  BY <1>1
<1>3. QED
  BY <1>1, <1>2

(* IInv holds before the first call.                                       *)
LEMMA InitInv == Init => IInv
<1> SUFFICES ASSUME Init PROVE IInv
  OBVIOUS
<1>1. original \in Seq(Chars)
  BY DEF Init
<1>2. string \in Seq(Chars) /\ 0 \in 0..Len(string) /\ <<>> \in Seq(Nat)
  BY <1>1 DEF Init
<1>3. TypeOK
  BY <1>1, <1>2 DEF Init, TypeOK
<1>4. QED
  BY <1>3 DEF Init, IInv

(* A pass of the loop of oauth_url_escape keeps IInv: one doubling is      *)
(* always enough, because the block already holds a character and a '\0'.  *)
LEMMA EscapeInv == IInv /\ (KeepCharacter \/ EncodeCharacter) => IInv'
<1> SUFFICES ASSUME IInv, KeepCharacter \/ EncodeCharacter PROVE IInv'
  OBVIOUS
<1> USE DEF IInv, TypeOK, rest, strindex, Most, args
<1>1. pc = "escape" /\ rest > 0 /\ string[taken + 1] \in Chars
  BY DEF KeepCharacter, EncodeCharacter
<1>2. CASE KeepCharacter
  <2>1. <<string[taken + 1]>> \in Seq(Chars) /\ Clean(<<string[taken + 1]>>)
    BY <1>1, <1>2 DEF KeepCharacter, Clean
  <2>2. ns' = ns \o <<string[taken + 1]>>
    BY <1>2 DEF KeepCharacter
  <2>3. ns' \in Seq(Nat) /\ Len(ns') = Len(ns) + 1 /\ Clean(ns')
    BY <1>1, <2>1, <2>2, CleanAppend
  <2>4. QED
    BY <1>1, <1>2, <2>3 DEF KeepCharacter
<1>3. CASE EncodeCharacter
  <2>1. ns' = ns \o Encoded(string[taken + 1])
    BY <1>3 DEF EncodeCharacter
  <2>2. ns' \in Seq(Nat) /\ Len(ns') = Len(ns) + 3 /\ Clean(ns')
    BY <1>1, <2>1, EncodedIsClean, CleanAppend
  <2>3. Len(ns) + 4 <= newlen' /\ newlen' <= alloc' /\ alloc <= alloc'
    BY <1>1, <1>3 DEF EncodeCharacter
  <2>4. touched' \in Nat /\ touched' <= alloc' /\ alloc' \in Nat
    BY <1>1, <1>3, <2>3 DEF EncodeCharacter
  <2>5. pc' = "escape" /\ UNCHANGED <<original, back, string, count>>
    BY <1>1, <1>3 DEF EncodeCharacter
  <2>6. newlen' = Len(ns') + rest' + 1 /\ newlen' \in Nat /\ taken' \in 0..Len(string)
    <3>1. newlen' = newlen + 2 /\ taken' = taken + 1 /\ rest \in Nat \ {0}
      BY <1>1, <1>3 DEF EncodeCharacter
    <3>2. rest' = rest - 1 /\ taken' \in 0..Len(string)
      BY <1>1, <2>5, <3>1
    <3>3. newlen = Len(ns) + rest + 1 /\ Len(ns) \in Nat /\ newlen \in Nat
      BY <1>1
    <3> HIDE DEF IInv, TypeOK, rest
    <3>4. QED
      BY <2>2, <3>1, <3>2, <3>3
  <2>7. QED
    BY <2>2, <2>3, <2>4, <2>5, <2>6
<1>4. QED
  BY <1>2, <1>3

(* A call of oauth_url_unescape, and the passes of its loop, keep IInv.    *)
LEMMA UnescapeInv == IInv /\ (UnescapeCall \/ CopyCharacter \/ DecodeCharacter) => IInv'
<1> SUFFICES ASSUME IInv, UnescapeCall \/ CopyCharacter \/ DecodeCharacter PROVE IInv'
  OBVIOUS
<1> USE DEF IInv, TypeOK, rest, strindex, Most, args
<1>1. CASE UnescapeCall
  <2>1. string' \in Seq(Chars)
    <3>1. CASE pc = "call"
      BY <1>1, <3>1 DEF UnescapeCall
    <3>2. CASE pc = "escaped"
      <4>1. \A i \in 1..Len(ns) : ns[i] \in Chars
        BY <3>2, CharsAssumption, PercentAssumption DEF Clean
      <4>2. ns \in Seq(Chars)
        BY <4>1, ElementsInSeq
      <4>3. QED
        BY <1>1, <3>2, <4>2 DEF UnescapeCall
    <3>3. QED
      BY <1>1, <3>1, <3>2 DEF UnescapeCall
  <2>2. QED
    BY <1>1, <2>1 DEF UnescapeCall
<1>2. CASE CopyCharacter
  <2>1. string[taken + 1] \in Nat
    BY <1>2, BaseAssumption DEF CopyCharacter, Chars
  <2>2. ns' \in Seq(Nat) /\ Len(ns') = Len(ns) + 1
    BY <1>2, <2>1 DEF CopyCharacter
  <2>3. QED
    BY <1>2, <2>2 DEF CopyCharacter
<1>3. CASE DecodeCharacter
  <2>1. rest >= 3 /\ string[taken + 2] \in Digits /\ string[taken + 3] \in Digits
    BY <1>3 DEF DecodeCharacter, EncodedAhead
  <2>2. Base * Value(string[taken + 2]) + Value(string[taken + 3]) \in Nat
    <3>1. Value(string[taken + 2]) \in Nat /\ Value(string[taken + 3]) \in Nat
      BY <2>1, BaseAssumption DEF Digits, Value
    <3>2. \A m, n, k \in Nat : m * n + k \in Nat
      OBVIOUS
    <3>3. Base \in Nat
      BY BaseAssumption
    <3>4. QED
      BY <3>1, <3>2, <3>3, Zenon
  <2>3. ns' \in Seq(Nat) /\ Len(ns') = Len(ns) + 1
    BY <1>3, <2>2 DEF DecodeCharacter
  <2>4. QED
    BY <1>3, <2>1, <2>3 DEF DecodeCharacter
<1>4. QED
  BY <1>1, <1>2, <1>3

(* Every step keeps IInv.                                                  *)
LEMMA NextInv == IInv /\ [Next]_vars => IInv'
<1> SUFFICES ASSUME IInv, [Next]_vars PROVE IInv'
  OBVIOUS
<1>1. CASE EscapeCall
  <2>1. ns = <<>> /\ taken = 0 /\ pc' = "escape" /\ alloc' = Len(string) + 1 /\ newlen' = alloc'
    BY <1>1 DEF EscapeCall, IInv
  <2>2. Clean(ns') /\ Len(ns') = 0 /\ rest' = Len(string)
    BY <1>1, <2>1 DEF EscapeCall, IInv, TypeOK, rest, Clean, args
  <2>3. QED
    BY <1>1, <2>1, <2>2 DEF EscapeCall, IInv, TypeOK, args
<1>2. CASE EscapeReturns
  BY <1>2 DEF EscapeReturns, IInv, TypeOK, rest, strindex, Most, Clean, args
<1>3. CASE UnescapeReturns
  BY <1>3 DEF UnescapeReturns, IInv, TypeOK, rest, strindex, Most, args
<1>4. CASE UNCHANGED vars
  BY <1>4 DEF vars, args, IInv, TypeOK, rest, Clean
<1>5. QED
  BY <1>1, <1>2, <1>3, <1>4, EscapeInv, UnescapeInv DEF Next

(* IInv holds throughout.                                                  *)
LEMMA Invariance == Spec => []IInv
  BY InitInv, NextInv, PTL DEF Spec

-----------------------------------------------------------------------------
(* The round trip.  Where the characters of s, and what comes after the    *)
(* last, stand in the escaped string t: pos tells, without a recursion.    *)
Stands(s, t, pos, i) ==
  IF s[i] \in Unreserved
    THEN t[pos[i]] = s[i] /\ pos[i + 1] = pos[i] + 1
    ELSE /\ t[pos[i]] = Percent
         /\ t[pos[i] + 1] = Digit(s[i] \div Base)
         /\ t[pos[i] + 2] = Digit(s[i] % Base)
         /\ pos[i + 1] = pos[i] + 3

Layout(s, n, t, pos) ==
  /\ pos \in [1..(n + 1) -> Nat \ {0}]
  /\ pos[1] = 1
  /\ pos[n + 1] = Len(t) + 1
  /\ \A i \in 1..n : Stands(s, t, pos, i) /\ pos[i + 1] <= Len(t) + 1

(* What has been unescaped is the beginning of the original, and reading   *)
(* goes on where the next of its characters stands.                        *)
Unescaping(pos) ==
  /\ Layout(original, Len(original), string, pos)
  /\ Len(ns) <= Len(original)
  /\ taken = pos[Len(ns) + 1] - 1
  /\ \A i \in 1..Len(ns) : ns[i] = original[i]

Trip ==
  /\ pc \in {"call", "escape", "escaped"} => string = original
  /\ pc \in {"escape", "escaped"} => \E pos : Layout(original, taken, ns, pos)
  /\ pc = "escaped" => taken = Len(original)
  /\ pc = "unescape" /\ back => \E pos : Unescaping(pos)
  /\ RoundTrip

(* A character of t that ends before the end of t lies inside t.           *)
LEMMA Inside ==
  ASSUME NEW m \in Nat, NEW x \in Nat \ {0}, NEW k \in Nat, x + k <= m + 1
  PROVE  /\ k = 1 => x \in 1..m
         /\ k = 3 => x \in 1..m /\ x + 1 \in 1..m /\ x + 2 \in 1..m
OBVIOUS

(* The parts of the three characters written for one.                      *)
LEMMA EncodedParts ==
  ASSUME NEW c
  PROVE  /\ Len(Encoded(c)) = 3
         /\ Encoded(c)[1] = Percent
         /\ Encoded(c)[2] = Digit(c \div Base)
         /\ Encoded(c)[3] = Digit(c % Base)
<1>1. \A a, b : LET e == <<Percent, a, b>>
                IN  Len(e) = 3 /\ e[1] = Percent /\ e[2] = a /\ e[3] = b
  OBVIOUS
<1>2. QED
  BY <1>1, Zenon DEF Encoded

(* A character escaped after the others has its place after theirs.        *)
LEMMA LayoutExtends ==
  ASSUME NEW s \in Seq(Chars), NEW n \in Nat, n + 1 <= Len(s),
         NEW t \in Seq(Nat), NEW u \in Seq(Nat), NEW pos, Layout(s, n, t, pos),
         u = IF s[n + 1] \in Unreserved THEN <<s[n + 1]>> ELSE Encoded(s[n + 1])
  PROVE  \E p : Layout(s, n + 1, t \o u, p)
<1> DEFINE w == t \o u
<1> DEFINE p == [i \in 1..(n + 2) |-> IF i = n + 2 THEN Len(w) + 1 ELSE pos[i]]
<1>1. /\ w \in Seq(Nat) /\ Len(w) = Len(t) + Len(u)
      /\ \A i \in 1..Len(t) : w[i] = t[i]
      /\ \A i \in 1..Len(u) : w[Len(t) + i] = u[i]
      /\ Len(t) \in Nat /\ Len(u) \in Nat
  OBVIOUS
<1>2. /\ pos \in [1..(n + 1) -> Nat \ {0}] /\ pos[1] = 1 /\ pos[n + 1] = Len(t) + 1
      /\ \A i \in 1..n : Stands(s, t, pos, i) /\ pos[i + 1] <= Len(t) + 1
  BY DEF Layout
<1>3. /\ p \in [1..(n + 2) -> Nat \ {0}]
      /\ p[n + 2] = Len(t) + Len(u) + 1
      /\ \A i \in 1..(n + 1) : p[i] = pos[i]
  BY <1>1, <1>2
<1> HIDE DEF p, w
<1>4. ASSUME NEW i \in 1..n
      PROVE  Stands(s, w, p, i) /\ p[i + 1] <= Len(w) + 1
  <2>1. Stands(s, t, pos, i) /\ pos[i + 1] <= Len(t) + 1
    BY <1>2
  <2>2. i \in 1..(n + 1) /\ i + 1 \in 1..(n + 1)
    OBVIOUS
  <2>3. p[i] = pos[i] /\ p[i + 1] = pos[i + 1] /\ pos[i] \in Nat \ {0} /\ pos[i + 1] \in Nat
    BY <1>2, <1>3, <2>2
  <2>4. p[i + 1] <= Len(w) + 1
    BY <1>1, <2>1, <2>3
  <2>5. CASE s[i] \in Unreserved
    <3>1. t[pos[i]] = s[i] /\ pos[i + 1] = pos[i] + 1
      BY <2>1, <2>5 DEF Stands
    <3>2. pos[i] \in 1..Len(t)
      BY <1>1, <2>1, <2>3, <3>1, Inside, Zenon
    <3>3. w[p[i]] = s[i] /\ p[i + 1] = p[i] + 1
      BY <1>1, <2>3, <3>1, <3>2
    <3>4. QED
      BY <2>4, <2>5, <3>3 DEF Stands
  <2>6. CASE s[i] \notin Unreserved
    <3>1. /\ t[pos[i]] = Percent
          /\ t[pos[i] + 1] = Digit(s[i] \div Base)
          /\ t[pos[i] + 2] = Digit(s[i] % Base)
          /\ pos[i + 1] = pos[i] + 3
      BY <2>1, <2>6 DEF Stands
    <3>2. pos[i] \in 1..Len(t) /\ pos[i] + 1 \in 1..Len(t) /\ pos[i] + 2 \in 1..Len(t)
      BY <1>1, <2>1, <2>3, <3>1, Inside, Zenon
    <3>3. /\ w[pos[i]] = t[pos[i]] /\ w[pos[i] + 1] = t[pos[i] + 1]
          /\ w[pos[i] + 2] = t[pos[i] + 2]
      BY <1>1, <3>2
    <3>4. /\ w[p[i]] = Percent
          /\ w[p[i] + 1] = Digit(s[i] \div Base)
          /\ w[p[i] + 2] = Digit(s[i] % Base)
          /\ p[i + 1] = p[i] + 3
      BY <2>3, <3>1, <3>3, Zenon
    <3>5. QED
      BY <2>4, <2>6, <3>4, Zenon DEF Stands
  <2>7. QED
    BY <2>5, <2>6
<1>5. Stands(s, w, p, n + 1) /\ p[(n + 1) + 1] <= Len(w) + 1
  <2>1. p[n + 1] = Len(t) + 1 /\ (n + 1) + 1 = n + 2 /\ Len(w) + 1 = p[n + 2]
    BY <1>1, <1>2, <1>3
  <2>2. CASE s[n + 1] \in Unreserved
    <3>1. Len(u) = 1 /\ u[1] = s[n + 1]
      BY <2>2
    <3>2. w[Len(t) + 1] = s[n + 1] /\ p[n + 2] = (Len(t) + 1) + 1
      <4>1. 1 \in 1..1
        OBVIOUS
      <4>2. QED
        BY <1>1, <1>3, <3>1, <4>1, Zenon
    <3>3. p[n + 2] <= Len(w) + 1
      BY <1>1, <2>1
    <3>4. QED
      BY <2>1, <2>2, <3>2, <3>3, Zenon DEF Stands
  <2>3. CASE s[n + 1] \notin Unreserved
    <3>1. u = Encoded(s[n + 1])
      BY <2>3, Zenon
    <3>2. /\ Len(u) = 3 /\ u[1] = Percent
          /\ u[2] = Digit(s[n + 1] \div Base) /\ u[3] = Digit(s[n + 1] % Base)
      BY <3>1, EncodedParts, Zenon
    <3>3. /\ w[Len(t) + 1] = u[1] /\ w[(Len(t) + 1) + 1] = u[2]
          /\ w[(Len(t) + 1) + 2] = u[3] /\ p[n + 2] = (Len(t) + 1) + 3
      <4>1. \A m \in Nat : (m + 1) + 1 = m + 2 /\ (m + 1) + 2 = m + 3 /\ m + 3 + 1 = (m + 1) + 3
        OBVIOUS
      <4>2. 1 \in 1..3 /\ 2 \in 1..3 /\ 3 \in 1..3
        OBVIOUS
      <4>3. QED
        BY <1>1, <1>3, <3>2, <4>1, <4>2, Zenon
    <3>4. p[n + 2] <= Len(w) + 1
      BY <1>1, <2>1
    <3>5. QED
      BY <2>1, <2>3, <3>2, <3>3, <3>4, Zenon DEF Stands
  <2>4. QED
    BY <2>2, <2>3
<1>6. Layout(s, n + 1, w, p)
  <2>1. p[1] = 1 /\ p[(n + 1) + 1] = Len(w) + 1 /\ p \in [1..((n + 1) + 1) -> Nat \ {0}]
    BY <1>1, <1>2, <1>3
  <2>2. \A i \in 1..(n + 1) : Stands(s, w, p, i) /\ p[i + 1] <= Len(w) + 1
    BY <1>4, <1>5
  <2>3. QED
    BY <2>1, <2>2 DEF Layout
<1>7. QED
  BY <1>6 DEF w

(* The two digits of a character give it back.                             *)
LEMMA DigitsGiveBack ==
  ASSUME NEW c \in Chars
  PROVE  Base * Value(Digit(c \div Base)) + Value(Digit(c % Base)) = c
<1> DEFINE q == c \div Base
<1> DEFINE r == c % Base
<1>1. Base \in Nat /\ Base > 0 /\ c \in Nat
  BY BaseAssumption DEF Chars
<1>2. r \in Int /\ q \in Int /\ c = Base * q + r
  BY <1>1
<1> HIDE DEF q, r
<1>3. Value(Digit(q)) = q /\ Value(Digit(r)) = r
  BY <1>2 DEF Value, Digit
<1>4. Base * Value(Digit(q)) + Value(Digit(r)) = c
  BY <1>2, <1>3, Zenon
<1>5. QED
  BY <1>4 DEF q, r

(* Trip holds before the first call.                                       *)
LEMMA InitTrip == Init => Trip
  BY DEF Init, Trip, RoundTrip

(* Escaping lays its characters out one after the other.                   *)
LEMMA EscapeTrip ==
  IInv /\ Trip /\ (EscapeCall \/ KeepCharacter \/ EncodeCharacter \/ EscapeReturns) => Trip'
<1> SUFFICES ASSUME IInv, Trip,
                    EscapeCall \/ KeepCharacter \/ EncodeCharacter \/ EscapeReturns
             PROVE  Trip'
  OBVIOUS
<1>1. /\ original \in Seq(Chars) /\ string \in Seq(Chars) /\ ns \in Seq(Nat)
      /\ taken \in 0..Len(string) /\ string = original
  BY DEF IInv, TypeOK, Trip, EscapeCall, KeepCharacter, EncodeCharacter, EscapeReturns
<1>2. CASE EscapeCall
  <2>1. taken = 0 /\ ns = <<>>
    BY <1>2 DEF EscapeCall, IInv
  <2> DEFINE pos == [i \in 1..1 |-> 1]
  <2>2. Layout(original, 0, <<>>, pos)
    BY DEF Layout
  <2> HIDE DEF pos
  <2>3. \E p : Layout(original', taken', ns', p)
    BY <1>2, <2>1, <2>2, Zenon DEF EscapeCall, args
  <2>4. QED
    BY <1>1, <1>2, <2>3 DEF EscapeCall, Trip, RoundTrip, args
<1>3. CASE KeepCharacter \/ EncodeCharacter
  <2>1. /\ pc = "escape" /\ pc' = "escape" /\ taken' = taken + 1
        /\ original' = original /\ string' = string /\ rest > 0
    BY <1>3 DEF KeepCharacter, EncodeCharacter, args
  <2>2. taken \in Nat /\ taken + 1 <= Len(original)
    BY <1>1, <2>1 DEF rest
  <2>3. PICK pos : Layout(original, taken, ns, pos)
    BY <2>1 DEF Trip
  <2> DEFINE u == IF original[taken + 1] \in Unreserved
                    THEN <<original[taken + 1]>> ELSE Encoded(original[taken + 1])
  <2>4. original[taken + 1] \in Chars
    BY <1>1, <2>2
  <2>5. u \in Seq(Nat)
    <3>1. Encoded(original[taken + 1]) \in Seq(Chars)
      BY <2>4, EncodedIsClean
    <3>2. Seq(Chars) \subseteq Seq(Nat) /\ Chars \subseteq Nat
      BY BaseAssumption DEF Chars
    <3>3. <<original[taken + 1]>> \in Seq(Nat)
      <4>1. \A x \in Nat : <<x>> \in Seq(Nat)
        OBVIOUS
      <4>2. QED
        BY <2>4, <3>2, <4>1, Zenon
    <3>4. QED
      BY <3>1, <3>2, <3>3, Zenon
  <2>6. ns' = ns \o u
    <3>1. CASE KeepCharacter
      <4>1. original[taken + 1] \in Unreserved /\ ns' = Append(ns, original[taken + 1])
        BY <1>1, <3>1 DEF KeepCharacter
      <4>2. original[taken + 1] \in Nat
        BY <2>4, BaseAssumption DEF Chars
      <4>3. ns' = ns \o <<original[taken + 1]>>
        BY <1>1, <4>1, <4>2
      <4>4. QED
        BY <4>1, <4>3, Zenon
    <3>2. CASE EncodeCharacter
      BY <1>1, <3>2, Zenon DEF EncodeCharacter
    <3>3. QED
      BY <1>3, <3>1, <3>2
  <2>7. \E p : Layout(original, taken + 1, ns \o u, p)
    BY <1>1, <2>2, <2>3, <2>5, LayoutExtends
  <2> HIDE DEF u
  <2>8. \E p : Layout(original', taken', ns', p)
    BY <2>1, <2>6, <2>7
  <2>9. QED
    BY <1>1, <2>1, <2>8 DEF Trip, RoundTrip
<1>4. CASE EscapeReturns
  <2>1. taken = Len(original)
    BY <1>1, <1>4 DEF EscapeReturns, rest
  <2>2. pc = "escape" /\ pc' = "escaped" /\ UNCHANGED <<original, back, string, taken, ns>>
    BY <1>4 DEF EscapeReturns, args
  <2>3. QED
    BY <1>1, <2>1, <2>2 DEF Trip, RoundTrip
<1>5. QED
  BY <1>2, <1>3, <1>4

(* While what was escaped is unescaped, characters are left to read        *)
(* exactly as long as characters of the original are missing.              *)
LEMMA PlaceOfTheNext ==
  ASSUME IInv, pc = "unescape", NEW pos, Unescaping(pos)
  PROVE  /\ rest = 0 => Len(ns) = Len(original)
         /\ rest > 0 => /\ Len(ns) + 1 \in 1..Len(original)
                        /\ Stands(original, string, pos, Len(ns) + 1)
                        /\ pos[Len(ns) + 1] = taken + 1
                        /\ pos[(Len(ns) + 1) + 1] <= Len(string) + 1
<1> DEFINE i == Len(ns) + 1
<1>1. /\ Len(original) \in Nat /\ Len(string) \in Nat /\ Len(ns) \in Nat
      /\ taken \in 0..Len(string)
  BY DEF IInv, TypeOK
<1>2. /\ pos \in [1..(Len(original) + 1) -> Nat \ {0}]
      /\ pos[Len(original) + 1] = Len(string) + 1
      /\ \A j \in 1..Len(original) :
            Stands(original, string, pos, j) /\ pos[j + 1] <= Len(string) + 1
      /\ Len(ns) <= Len(original)
      /\ taken = pos[i] - 1
  BY DEF Unescaping, Layout
<1>3. i \in 1..(Len(original) + 1) /\ pos[i] \in Nat
  BY <1>1, <1>2
<1>4. pos[i] = taken + 1
  BY <1>1, <1>2, <1>3
<1>5. CASE Len(ns) = Len(original)
  <2>1. taken = Len(string)
    BY <1>1, <1>2, <1>5
  <2>2. QED
    BY <1>1, <1>5, <2>1 DEF rest
<1>6. CASE Len(ns) # Len(original)
  <2>1. i \in 1..Len(original) /\ i + 1 \in 1..(Len(original) + 1)
    BY <1>1, <1>2, <1>6
  <2>2. Stands(original, string, pos, i) /\ pos[i + 1] <= Len(string) + 1
    BY <1>2, <2>1, Zenon
  <2>3. pos[i + 1] = pos[i] + 1 \/ pos[i + 1] = pos[i] + 3
    BY <2>2, Zenon DEF Stands
  <2> HIDE DEF i
  <2>4. taken < Len(string)
    BY <1>1, <1>3, <1>4, <2>2, <2>3
  <2>5. rest # 0
    BY <1>1, <2>4 DEF rest
  <2>6. QED
    BY <1>4, <2>1, <2>2, <2>5 DEF i
<1>7. QED
  BY <1>5, <1>6

(* A pass of the loop of oauth_url_unescape gives back one more character. *)
LEMMA UnescapePassTrip ==
  IInv /\ Trip /\ (CopyCharacter \/ DecodeCharacter) => Trip'
<1> SUFFICES ASSUME IInv, Trip, CopyCharacter \/ DecodeCharacter PROVE Trip'
  OBVIOUS
<1>1. /\ pc = "unescape" /\ pc' = "unescape" /\ count > 1
      /\ original' = original /\ back' = back /\ string' = string
  BY DEF CopyCharacter, DecodeCharacter, args
<1>2. /\ original \in Seq(Chars) /\ string \in Seq(Chars) /\ ns \in Seq(Nat)
      /\ taken \in 0..Len(string) /\ count = rest + 1
  BY <1>1 DEF IInv, TypeOK
<1>3. SUFFICES ASSUME back PROVE \E pos : Unescaping(pos)'
  BY <1>1 DEF Trip, RoundTrip
<1>4. PICK pos : Unescaping(pos)
  BY <1>1, <1>3 DEF Trip
<1> DEFINE i == Len(ns) + 1
<1> DEFINE c == original[i]
<1>5. rest > 0
  BY <1>1, <1>2 DEF rest
<1>6. /\ i \in 1..Len(original) /\ Stands(original, string, pos, i)
      /\ pos[i] = taken + 1 /\ pos[i + 1] <= Len(string) + 1
  BY <1>1, <1>4, <1>5, PlaceOfTheNext
<1>7. c \in Chars
  BY <1>2, <1>6
<1>8. ns' = Append(ns, c) /\ taken' = pos[i + 1] - 1
  <2>1. CASE c \in Unreserved
    <3>1. string[taken + 1] = c /\ pos[i + 1] = (taken + 1) + 1
      <4>1. string[pos[i]] = c /\ pos[i + 1] = pos[i] + 1
        BY <1>6, <2>1, Zenon DEF Stands
      <4>2. QED
        BY <1>6, <4>1, Zenon
    <3>2. ~ EncodedAhead
      BY <2>1, <3>1, PercentAssumption, Zenon DEF EncodedAhead
    <3>3. CopyCharacter
      BY <3>2 DEF DecodeCharacter
    <3>4. ns' = Append(ns, c) /\ taken' = taken + 1
      BY <3>1, <3>3, Zenon DEF CopyCharacter
    <3>5. QED
      BY <1>2, <3>1, <3>4
  <2>2. CASE c \notin Unreserved
    <3>1. /\ string[taken + 1] = Percent
          /\ string[(taken + 1) + 1] = Digit(c \div Base)
          /\ string[(taken + 1) + 2] = Digit(c % Base)
          /\ pos[i + 1] = (taken + 1) + 3
      BY <1>6, <2>2, Zenon DEF Stands
    <3>2. (taken + 1) + 1 = taken + 2 /\ (taken + 1) + 2 = taken + 3 /\ rest >= 3
      <4>1. taken \in Nat /\ Len(string) \in Nat
        BY <1>2
      <4>2. QED
        BY <1>6, <3>1, <4>1 DEF rest
    <3>3. /\ string[taken + 2] = Digit(c \div Base)
          /\ string[taken + 3] = Digit(c % Base)
      BY <3>1, <3>2, Zenon
    <3>4. EncodedAhead
      BY <1>7, <3>1, <3>2, <3>3, TwoDigits, Zenon DEF EncodedAhead
    <3>5. DecodeCharacter
      BY <3>4 DEF CopyCharacter
    <3>6. /\ ns' = Append(ns, Base * Value(string[taken + 2]) + Value(string[taken + 3]))
          /\ taken' = taken + 3
      BY <3>5, Zenon DEF DecodeCharacter
    <3>7. ns' = Append(ns, c)
      BY <1>7, <3>3, <3>6, DigitsGiveBack, Zenon
    <3>8. taken' = pos[i + 1] - 1
      BY <1>2, <3>1, <3>6
    <3>9. QED
      BY <3>7, <3>8
  <2>3. QED
    BY <2>1, <2>2
<1>9. c \in Nat
  BY <1>7, BaseAssumption DEF Chars
<1>10. /\ Len(ns') = i /\ ns'[i] = c
       /\ \A j \in 1..Len(ns) : ns'[j] = ns[j]
  <2> HIDE DEF c
  <2>1. QED
    BY <1>2, <1>8, <1>9
<1>11. \A j \in 1..Len(ns') : ns'[j] = original[j]
  <2>1. \A j \in 1..Len(ns) : ns'[j] = original[j]
    BY <1>4, <1>10 DEF Unescaping
  <2>2. \A j \in 1..Len(ns') : j \in 1..Len(ns) \/ j = i
    BY <1>2, <1>10
  <2>3. QED
    BY <1>10, <2>1, <2>2, Zenon
<1>12. Layout(original', Len(original'), string', pos)
  BY <1>1, <1>4 DEF Unescaping
<1>13. Unescaping(pos)'
  BY <1>1, <1>6, <1>8, <1>10, <1>11, <1>12 DEF Unescaping
<1>14. QED
  BY <1>13

(* When oauth_url_unescape returns, nothing of the original is missing.    *)
LEMMA UnescapeReturnsTrip == IInv /\ Trip /\ UnescapeReturns => Trip'
<1> SUFFICES ASSUME IInv, Trip, UnescapeReturns PROVE Trip'
  OBVIOUS
<1>1. /\ pc = "unescape" /\ pc' = "done" /\ count = 1
      /\ original' = original /\ back' = back /\ string' = string /\ ns' = ns
  BY DEF UnescapeReturns, args
<1>2. /\ original \in Seq(Chars) /\ string \in Seq(Chars) /\ ns \in Seq(Nat)
      /\ taken \in 0..Len(string) /\ count = rest + 1
  BY <1>1 DEF IInv, TypeOK
<1>3. SUFFICES ASSUME back PROVE ns = original
  BY <1>1 DEF Trip, RoundTrip
<1>4. PICK pos : Unescaping(pos)
  BY <1>1, <1>3 DEF Trip
<1>5. rest = 0
  BY <1>1, <1>2 DEF rest
<1>6. Len(ns) = Len(original)
  BY <1>1, <1>4, <1>5, PlaceOfTheNext
<1>7. \A j \in 1..Len(ns) : ns[j] = original[j]
  BY <1>4 DEF Unescaping
<1>8. QED
  BY <1>2, <1>6, <1>7

(* Every step keeps Trip.                                                  *)
LEMMA NextTrip == IInv /\ Trip /\ [Next]_vars => Trip'
<1> SUFFICES ASSUME IInv, Trip, [Next]_vars PROVE Trip'
  OBVIOUS
<1>1. CASE UnescapeCall
  <2>1. /\ pc' = "unescape" /\ original' = original /\ back' = (pc = "escaped")
        /\ string' = (IF pc = "call" THEN original ELSE ns)
        /\ ns' = <<>> /\ taken' = 0
    BY <1>1 DEF UnescapeCall
  <2>2. SUFFICES ASSUME pc = "escaped" PROVE \E pos : Unescaping(pos)'
    BY <1>1, <2>1 DEF Trip, RoundTrip
  <2>3. PICK pos : Layout(original, Len(original), ns, pos)
    BY <2>2 DEF Trip
  <2>4. string' = ns
    BY <2>1, <2>2
  <2>5. Layout(original', Len(original'), string', pos) /\ pos[1] = 1
    BY <2>1, <2>3, <2>4 DEF Layout
  <2>6. Len(ns') = 0 /\ Len(original') \in Nat
    BY <2>1 DEF IInv, TypeOK
  <2>7. Unescaping(pos)'
    BY <2>1, <2>5, <2>6 DEF Unescaping
  <2>8. QED
    BY <2>7
<1>2. CASE UNCHANGED vars
  BY <1>2 DEF vars, args, Trip, RoundTrip, Unescaping
<1>3. QED
  BY <1>1, <1>2, EscapeTrip, UnescapePassTrip, UnescapeReturnsTrip DEF Next

-----------------------------------------------------------------------------
(* Type correctness.                                                       *)
THEOREM TypeCorrect == Spec => []TypeOK
<1>1. IInv => TypeOK
  BY DEF IInv
<1>2. QED
  BY <1>1, Invariance, PTL

(* Neither function writes past its block (oauth.c:272-277, 314-331), and  *)
(* oauth_url_unescape stops exactly at the end of its argument             *)
(* (oauth.c:303-328).                                                      *)
THEOREM NeitherLeavesItsBounds == Spec => []StaysInBounds
<1>1. IInv => StaysInBounds
  BY DEF IInv, StaysInBounds, WritesStayInBlock, CountIsTheRest
<1>2. QED
  BY <1>1, Invariance, PTL

(* An escaped string holds unreserved characters and '%' only.             *)
THEOREM EscapedStringIsClean == Spec => []EscapedIsClean
<1>1. IInv => EscapedIsClean
  BY DEF IInv, EscapedIsClean, Clean
<1>2. QED
  BY <1>1, Invariance, PTL

(* oauth_url_unescape gives back every string that oauth_url_escape        *)
(* escaped (oauth.c:215-332).                                              *)
THEOREM EscapeRoundTrip == Spec => []RoundTrip
<1>1. Init => IInv /\ Trip
  BY InitInv, InitTrip
<1>2. (IInv /\ Trip) /\ [Next]_vars => (IInv /\ Trip)'
  BY NextInv, NextTrip
<1>3. IInv /\ Trip => RoundTrip
  BY DEF Trip
<1>4. QED
  BY <1>1, <1>2, <1>3, PTL DEF Spec

=============================================================================
