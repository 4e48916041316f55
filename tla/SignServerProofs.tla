------------------------- MODULE SignServerProofs --------------------------
(***************************************************************************)
(* Proofs that the other end reads what was signed: from what is sent it   *)
(* gets every element of the array once, its order is that of the array,   *)
(* and the string it puts together is the one that was signed, for arrays, *)
(* keys and strings of every length, every form and any number of signings.*)
(***************************************************************************)
EXTENDS SignArrayProofs

(* Concatenation of strings.                                               *)
LEMMA Associative ==
  ASSUME NEW s \in Seq(Chars), NEW t \in Seq(Chars), NEW u \in Seq(Chars)
  PROVE  (s \o t) \o u = s \o (t \o u)
OBVIOUS

(* Two strings with a character between them.                              *)
Around(z, s, c, t) ==
  /\ z \in Seq(Chars) /\ Len(z) = Len(s) + 1 + Len(t) /\ Len(s) \in Nat /\ Len(t) \in Nat
  /\ \A k \in 1..Len(s) : z[k] = s[k]
  /\ z[Len(s) + 1] = c
  /\ \A k \in 1..Len(t) : z[Len(s) + 1 + k] = t[k]

(* Where the characters of the two strings come to stand.                  *)
LEMMA JoinedAround ==
  ASSUME NEW s \in Seq(Chars), NEW c \in Chars, NEW t \in Seq(Chars)
  PROVE  Around(s \o <<c>> \o t, s, c, t)
<1> DEFINE n == Len(s)
<1> DEFINE z == s \o <<c>> \o t
<1>1. /\ z \in Seq(Chars) /\ Len(z) = n + 1 + Len(t) /\ n \in Nat /\ Len(t) \in Nat
      /\ \A k \in 1..n : z[k] = s[k]
      /\ z[n + 1] = c
      /\ \A k \in 1..Len(t) : z[n + 1 + k] = t[k]
  <2>1. <<c>> \in Seq(Chars) /\ Len(<<c>>) = 1 /\ <<c>>[1] = c
    OBVIOUS
  <2>2. s \o <<c>> \in Seq(Chars) /\ Len(s \o <<c>>) = n + 1
    BY <2>1
  <2>3. \A k \in 1..n : (s \o <<c>>)[k] = s[k]
    BY <2>1
  <2>4. (s \o <<c>>)[n + 1] = c
    BY <2>1
  <2> DEFINE y == s \o <<c>>
  <2>5. y \in Seq(Chars) /\ Len(y) = n + 1 /\ (\A k \in 1..n : y[k] = s[k]) /\ y[n + 1] = c
    BY <2>2, <2>3, <2>4
  <2> HIDE DEF y
  <2>6. /\ y \o t \in Seq(Chars) /\ Len(y \o t) = Len(y) + Len(t)
        /\ \A k \in 1..Len(y) : (y \o t)[k] = y[k]
        /\ \A k \in 1..Len(t) : (y \o t)[Len(y) + k] = t[k]
    BY <2>5, Joined, Zenon
  <2>7. z = y \o t
    BY DEF y
  <2>8. n \in Nat /\ Len(t) \in Nat
    OBVIOUS
  <2> HIDE DEF z, n
  <2>9. \A k \in 1..n : k \in 1..(n + 1)
    BY <2>8
  <2>10. n + 1 \in 1..(n + 1)
    BY <2>8
  <2>11. QED
    BY <2>5, <2>6, <2>7, <2>8, <2>9, <2>10
<1> HIDE DEF z
<1>2. Around(z, s, c, t)
  BY <1>1 DEF Around
<1>3. QED
  BY <1>2 DEF z

(* A string is cut where it was put together, at the first such            *)
(* character.                                                              *)
LEMMA CutAt ==
  ASSUME NEW s \in Seq(Chars), NEW c \in Chars, NEW t \in Seq(Chars), ~ Has(s, c)
  PROVE  /\ Has(s \o <<c>> \o t, c)
         /\ Until(s \o <<c>> \o t, c) = s
         /\ After(s \o <<c>> \o t, c) = t
         /\ From(s \o <<c>> \o t, c) = <<c>> \o t
<1> DEFINE n == Len(s)
<1> DEFINE z == s \o <<c>> \o t
<1>1. /\ z \in Seq(Chars) /\ Len(z) = n + 1 + Len(t) /\ n \in Nat /\ Len(t) \in Nat
      /\ \A k \in 1..n : z[k] = s[k]
      /\ z[n + 1] = c
      /\ \A k \in 1..Len(t) : z[n + 1 + k] = t[k]
  BY JoinedAround, Zenon DEF Around
<1> HIDE DEF z
<1>2. Has(z, c)
  <2>1. n + 1 \in 1..Len(z)
    BY <1>1
  <2>2. QED
    BY <1>1, <2>1 DEF Has
<1> DEFINE m == Strchr(z, c)
<1>3. m \in 1..Len(z) /\ z[m] = c /\ \A j \in 1..(m - 1) : z[j] # c
  BY <1>1, <1>2, StrchrFinds
<1>4. \A k \in 1..n : z[k] # c
  BY <1>1 DEF Has
<1>5. Until(z, c) = SubSeq(z, 1, m - 1) /\ After(z, c) = SubSeq(z, m + 1, Len(z))
      /\ From(z, c) = SubSeq(z, m, Len(z))
  BY <1>2 DEF Until, After, From
<1> HIDE DEF m
<1>6. m = n + 1
  <2>1. ~ (m <= n)
    BY <1>1, <1>3, <1>4
  <2>2. ~ (m > n + 1)
    <3> SUFFICES ASSUME m > n + 1 PROVE FALSE
      OBVIOUS
    <3>1. n + 1 \in 1..(m - 1)
      BY <1>1, <1>3
    <3>2. QED
      BY <1>1, <1>3, <3>1
  <2>3. m \in Nat
    BY <1>1, <1>3
  <2>4. QED
    BY <1>1, <2>1, <2>2, <2>3
<1>7. SubSeq(z, 1, n) = s
  <2>1. SubSeq(z, 1, n) \in Seq(Chars) /\ Len(SubSeq(z, 1, n)) = n
        /\ \A k \in 1..n : SubSeq(z, 1, n)[k] = z[k]
    BY <1>1
  <2>2. QED
    BY <1>1, <2>1 DEF n
<1>8. SubSeq(z, n + 2, Len(z)) = t
  <2>1. SubSeq(z, n + 2, Len(z)) \in Seq(Chars) /\ Len(SubSeq(z, n + 2, Len(z))) = Len(t)
        /\ \A k \in 1..Len(t) : SubSeq(z, n + 2, Len(z))[k] = z[n + 1 + k]
    BY <1>1
  <2>2. QED
    BY <1>1, <2>1
<1>9. SubSeq(z, n + 1, Len(z)) = <<c>> \o t
  <2>1. SubSeq(z, n + 1, Len(z)) \in Seq(Chars) /\ Len(SubSeq(z, n + 1, Len(z))) = Len(t) + 1
        /\ \A k \in 1..(Len(t) + 1) : SubSeq(z, n + 1, Len(z))[k] = z[n + k]
    BY <1>1
  <2>2. <<c>> \o t \in Seq(Chars) /\ Len(<<c>> \o t) = Len(t) + 1 /\ (<<c>> \o t)[1] = c
        /\ \A k \in 1..Len(t) : (<<c>> \o t)[k + 1] = t[k]
    OBVIOUS
  <2> DEFINE x == <<c>> \o t
  <2> DEFINE y == SubSeq(z, n + 1, Len(z))
  <2>3. y \in Seq(Chars) /\ Len(y) = Len(t) + 1 /\ \A k \in 1..(Len(t) + 1) : y[k] = z[n + k]
    BY <2>1
  <2>4. x \in Seq(Chars) /\ Len(x) = Len(t) + 1 /\ x[1] = c /\ \A k \in 1..Len(t) : x[k + 1] = t[k]
    BY <2>2
  <2> HIDE DEF x, y, n
  <2>5. ASSUME NEW k \in 1..(Len(t) + 1) PROVE y[k] = x[k]
    <3>1. CASE k = 1
      BY <1>1, <2>3, <2>4, <3>1
    <3>2. CASE k # 1
      <4>1. PICK l \in 1..Len(t) : k = l + 1
        <5>1. k - 1 \in 1..Len(t) /\ k = (k - 1) + 1
          BY <1>1, <3>2
        <5>2. QED
          BY <5>1
      <4>2. n + k = n + 1 + l
        BY <1>1, <4>1
      <4>3. y[k] = t[l]
        BY <1>1, <2>3, <4>2
      <4>4. x[k] = t[l]
        BY <2>4, <4>1
      <4>5. QED
        BY <4>3, <4>4
    <3>3. QED
      BY <3>1, <3>2
  <2>6. x = y
    BY <2>3, <2>4, <2>5
  <2>7. QED
    BY <2>6 DEF x, y
<1>10. Until(z, c) = s /\ After(z, c) = t /\ From(z, c) = <<c>> \o t
  <2>1. m - 1 = n /\ m + 1 = n + 2
    BY <1>1, <1>6
  <2>2. QED
    BY <1>5, <1>6, <1>7, <1>8, <1>9, <2>1
<1>11. QED
  BY <1>2, <1>10 DEF z

(* A string that has the character is cut there into two.                  *)
LEMMA CutsApart ==
  ASSUME NEW s \in Seq(Chars), NEW c \in Chars, Has(s, c)
  PROVE  s = Until(s, c) \o <<c>> \o After(s, c)
<1> DEFINE m == Strchr(s, c)
<1>1. m \in 1..Len(s) /\ s[m] = c /\ Len(s) \in Nat
  BY StrchrFinds
<1>2. Until(s, c) = SubSeq(s, 1, m - 1) /\ After(s, c) = SubSeq(s, m + 1, Len(s))
  BY DEF Until, After
<1> HIDE DEF m
<1> DEFINE u == SubSeq(s, 1, m - 1)
<1> DEFINE v == SubSeq(s, m + 1, Len(s))
<1>3. u \in Seq(Chars) /\ Len(u) = m - 1 /\ \A k \in 1..(m - 1) : u[k] = s[k]
  BY <1>1
<1>4. v \in Seq(Chars) /\ Len(v) = Len(s) - m /\ \A k \in 1..(Len(s) - m) : v[k] = s[m + k]
  BY <1>1
<1> HIDE DEF u, v
<1> DEFINE z == u \o <<c>> \o v
<1>5. Around(z, u, c, v)
  BY <1>3, <1>4, JoinedAround
<1> HIDE DEF z
<1>9. /\ z \in Seq(Chars) /\ Len(z) = Len(s)
      /\ \A k \in 1..(m - 1) : z[k] = s[k]
      /\ z[m] = s[m]
      /\ \A k \in 1..(Len(s) - m) : z[m + k] = s[m + k]
  <2>2. Len(u) + 1 = m
    BY <1>1, <1>3
  <2>5. Len(z) = Len(s)
    BY <1>1, <1>3, <1>4, <1>5 DEF Around
  <2>6. QED
    BY <1>1, <1>3, <1>4, <1>5, <2>2, <2>5 DEF Around
<1>10. ASSUME NEW k \in 1..Len(s) PROVE z[k] = s[k]
  <2>1. CASE k \in 1..(m - 1)
    BY <1>9, <2>1
  <2>2. CASE k = m
    BY <1>9, <2>2
  <2>3. CASE k > m
    <3>1. PICK l \in 1..(Len(s) - m) : k = m + l
      <4>1. k - m \in 1..(Len(s) - m) /\ k = m + (k - m)
        BY <1>1, <2>3
      <4>2. QED
        BY <4>1
    <3>2. QED
      BY <1>9, <3>1
  <2>4. QED
    BY <1>1, <2>1, <2>2, <2>3
<1>11. z = s
  BY <1>9, <1>10
<1>12. QED
  BY <1>2, <1>11 DEF u, v, z

(* What is escaped has none of the characters that part a text, and is     *)
(* decoded to what it was.                                                 *)
Parting == {Quote, Amp, Comma, Eq, Mark}

LEMMA DecodesBack ==
  ASSUME NEW s \in Seq(Chars)
  PROVE  Decode(Escape(s)) = s /\ \A c \in Parting : ~ Has(Escape(s), c)
<1>1. /\ Escape(s) \in Seq(Chars) /\ Len(Escape(s)) = Len(s)
      /\ \A k \in 1..Len(s) : Escape(s)[k] = Coded(s[k])
  BY EscapeIsInjective
<1>2. \A c \in Chars : (IF Coded(c) < -Shift THEN Coded(c) + Shift ELSE Coded(c)) = c
  BY DEF Coded, Chars, Shift
<1>3. \A c \in Chars : \A d \in Parting : Coded(c) # d
  BY DEF Coded, Chars, Shift, Parting, Quote, Amp, Comma, Eq, Mark
<1>4. \A k \in 1..Len(s) : s[k] \in Chars
  OBVIOUS
<1>5. Decode(Escape(s)) = s
  <2> DEFINE e == Escape(s)
  <2>1. e \in Seq(Chars) /\ Len(e) = Len(s) /\ \A k \in 1..Len(s) : e[k] = Coded(s[k])
    BY <1>1
  <2> HIDE DEF e
  <2>2. Decode(e) = [k \in 1..Len(s) |-> IF e[k] < -Shift THEN e[k] + Shift ELSE e[k]]
    BY <2>1 DEF Decode
  <2>3. Decode(e) = [k \in 1..Len(s) |-> s[k]]
    BY <1>2, <1>4, <2>1, <2>2
  <2>4. Decode(e) = s
    BY <2>3
  <2>5. QED
    BY <2>4 DEF e
<1>6. \A c \in Parting : ~ Has(Escape(s), c)
  BY <1>1, <1>3, <1>4 DEF Has
<1>7. QED
  BY <1>5, <1>6

(* Escaping goes character by character.                                   *)
LEMMA EscapeJoins ==
  ASSUME NEW s \in Seq(Chars), NEW c \in Chars, NEW t \in Seq(Chars)
  PROVE  Escape(s \o <<c>> \o t) = Escape(s) \o <<Coded(c)>> \o Escape(t)
<1>1. Coded(c) \in Chars
  BY DEF Coded, Chars, Shift
<1> DEFINE y == s \o <<c>> \o t
<1> DEFINE z == Escape(s) \o <<Coded(c)>> \o Escape(t)
<1> DEFINE es == Escape(s)
<1> DEFINE et == Escape(t)
<1>3. /\ es \in Seq(Chars) /\ Len(es) = Len(s)
      /\ \A k \in 1..Len(s) : es[k] = Coded(s[k])
      /\ et \in Seq(Chars) /\ Len(et) = Len(t)
      /\ \A k \in 1..Len(t) : et[k] = Coded(t[k])
  BY EscapeIsInjective
<1>4. Around(y, s, c, t)
  BY JoinedAround
<1>5. Around(z, es, Coded(c), et)
  BY <1>1, <1>3, JoinedAround
<1>6. /\ y \in Seq(Chars) /\ Len(y) = Len(s) + 1 + Len(t)
      /\ \A k \in 1..Len(s) : y[k] = s[k]
      /\ y[Len(s) + 1] = c
      /\ \A k \in 1..Len(t) : y[Len(s) + 1 + k] = t[k]
  BY <1>4, Zenon DEF Around
<1>7. /\ z \in Seq(Chars) /\ Len(z) = Len(s) + 1 + Len(t)
      /\ \A k \in 1..Len(s) : z[k] = es[k]
      /\ z[Len(s) + 1] = Coded(c)
      /\ \A k \in 1..Len(t) : z[Len(s) + 1 + k] = et[k]
  <2> HIDE DEF z, es, et
  <2>1. QED
    BY <1>3, <1>5 DEF Around
<1>8. \A k \in 1..Len(s) : es[k] = Coded(s[k])
  BY <1>3
<1>9. \A k \in 1..Len(t) : et[k] = Coded(t[k])
  BY <1>3
<1> HIDE DEF y, z, es, et
<1>10. Escape(y) \in Seq(Chars) /\ Len(Escape(y)) = Len(y) /\ \A k \in 1..Len(y) : Escape(y)[k] = Coded(y[k])
  BY <1>6, EscapeIsInjective
<1>11. Len(s) \in Nat /\ Len(t) \in Nat
  OBVIOUS
<1>12. ASSUME NEW k \in 1..Len(y) PROVE Escape(y)[k] = z[k]
  <2>1. CASE k \in 1..Len(s)
    BY <1>6, <1>7, <1>8, <1>10, <2>1
  <2>2. CASE k = Len(s) + 1
    BY <1>6, <1>7, <1>10, <2>2
  <2>3. CASE k > Len(s) + 1
    <3>1. PICK l \in 1..Len(t) : k = Len(s) + 1 + l
      <4>1. k - (Len(s) + 1) \in 1..Len(t) /\ k = Len(s) + 1 + (k - (Len(s) + 1))
        BY <1>6, <1>11, <2>3
      <4>2. QED
        BY <4>1
    <3>2. QED
      BY <1>6, <1>7, <1>9, <1>10, <3>1
  <2>4. QED
    BY <1>6, <1>11, <2>1, <2>2, <2>3
<1>13. Escape(y) = z
  <2> DEFINE x == Escape(y)
  <2>1. x \in Seq(Chars) /\ Len(x) = Len(z) /\ \A k \in 1..Len(z) : x[k] = z[k]
    BY <1>6, <1>7, <1>10, <1>12
  <2> HIDE DEF x
  <2>2. x = z
    BY <1>7, <2>1
  <2>3. QED
    BY <2>2 DEF x
<1>14. QED
  BY <1>13 DEF y, z

(* Name and value of an element as the comparison takes them.              *)
LEMMA Compared ==
  ASSUME NEW e \in Seq(Chars)
  PROVE  /\ Until(Escape(e), Coded(Eq)) = Escape(Until(e, Eq))
         /\ From(Escape(e), Coded(Eq)) =
              IF Has(e, Eq) THEN <<Coded(Eq)>> \o Escape(After(e, Eq)) ELSE <<>>
         /\ ~ Has(e, Eq) => Until(e, Eq) = e /\ After(e, Eq) = <<>>
<1>1. Eq \in Chars /\ Coded(Eq) \in Chars /\ \A c \in Chars : Coded(c) = Coded(Eq) => c = Eq
  BY DEF Coded, Chars, Shift, Eq
<1>2. ASSUME NEW s \in Seq(Chars), ~ Has(s, Eq) PROVE ~ Has(Escape(s), Coded(Eq))
  <2>1. \A k \in 1..Len(s) : s[k] \in Chars /\ s[k] # Eq
    BY <1>2 DEF Has
  <2>2. QED
    BY <1>1, <2>1, EscapeIsInjective DEF Has
<1>3. CASE ~ Has(e, Eq)
  BY <1>2, <1>3 DEF Until, From, After
<1>4. CASE Has(e, Eq)
  <2> DEFINE u == Until(e, Eq)
  <2> DEFINE v == After(e, Eq)
  <2>1. u \in Seq(Chars) /\ v \in Seq(Chars) /\ ~ Has(u, Eq) /\ e = u \o <<Eq>> \o v
    BY <1>1, <1>4, Cuts, CutsApart
  <2> HIDE DEF u, v
  <2>2. Escape(e) = Escape(u) \o <<Coded(Eq)>> \o Escape(v)
    BY <1>1, <2>1, EscapeJoins
  <2>3. Escape(u) \in Seq(Chars) /\ Escape(v) \in Seq(Chars) /\ ~ Has(Escape(u), Coded(Eq))
    BY <1>2, <2>1, EscapeIsInjective
  <2>4. /\ Until(Escape(u) \o <<Coded(Eq)>> \o Escape(v), Coded(Eq)) = Escape(u)
        /\ From(Escape(u) \o <<Coded(Eq)>> \o Escape(v), Coded(Eq)) = <<Coded(Eq)>> \o Escape(v)
    BY <1>1, <2>3, CutAt
  <2>5. QED
    BY <1>4, <2>2, <2>4 DEF u, v
<1>5. QED
  BY <1>3, <1>4

-----------------------------------------------------------------------------
(* The parameter an element of the array is.                               *)
Params == [name : Seq(Chars), value : Seq(Chars)]

ParamOf(e) == [name |-> Until(e, Eq), value |-> After(e, Eq)]

(* A common first character does not change how strings compare.           *)
LEMMA LessAfterTheSame ==
  ASSUME NEW c \in Chars, NEW s \in Seq(Chars), NEW t \in Seq(Chars), Less(s, t)
  PROVE  Less(<<c>> \o s, <<c>> \o t)
<1>1. Len(s) \in Nat /\ Len(t) \in Nat
  OBVIOUS
<1>2. PICK k \in 1..Len(t) :
        /\ \A j \in 1..(k - 1) : j <= Len(s) /\ s[j] = t[j]
        /\ k > Len(s) \/ s[k] < t[k]
  BY DEF Less
<1> DEFINE y == <<c>> \o s
<1> DEFINE z == <<c>> \o t
<1>3. Len(y) = Len(s) + 1 /\ y[1] = c /\ \A j \in 1..Len(s) : y[j + 1] = s[j]
  OBVIOUS
<1>4. Len(z) = Len(t) + 1 /\ z[1] = c /\ \A j \in 1..Len(t) : z[j + 1] = t[j]
  OBVIOUS
<1> HIDE DEF y, z
<1>5. k + 1 \in 1..Len(z) /\ (k + 1) - 1 = k
  BY <1>1, <1>4
<1>6. ASSUME NEW j \in 1..k PROVE j <= Len(y) /\ y[j] = z[j]
  <2>1. CASE j = 1
    BY <1>1, <1>3, <1>4, <2>1
  <2>2. CASE j # 1
    <3>1. PICK l \in 1..(k - 1) : j = l + 1
      <4>1. j - 1 \in 1..(k - 1) /\ j = (j - 1) + 1
        BY <2>2
      <4>2. QED
        BY <4>1
    <3>2. l <= Len(s) /\ s[l] = t[l] /\ l \in 1..Len(s) /\ l \in 1..Len(t)
      BY <1>1, <1>2
    <3>3. QED
      BY <1>1, <1>3, <1>4, <3>1, <3>2
  <2>3. QED
    BY <2>1, <2>2
<1>7. k + 1 > Len(y) \/ y[k + 1] < z[k + 1]
  <2>1. CASE k > Len(s)
    BY <1>1, <1>3, <2>1
  <2>2. CASE k <= Len(s)
    <3>1. k \in 1..Len(s) /\ s[k] < t[k]
      BY <1>1, <1>2, <2>2
    <3>2. QED
      BY <1>3, <1>4, <3>1
  <2>3. QED
    BY <1>1, <2>1, <2>2
<1>8. Less(y, z)
  BY <1>5, <1>6, <1>7 DEF Less
<1>9. QED
  BY <1>8 DEF y, z

(* What the comparison has put in order is in order for the server.        *)
LEMMA ServerOrder ==
  ASSUME NEW x \in Seq(Chars), NEW y \in Seq(Chars), ParameterLess(ParamOf(x), ParamOf(y))
  PROVE  Precedes(x, y)
<1> DEFINE c == Coded(Eq)
<1> DEFINE name(e) == Escape(Until(e, Eq))
<1> DEFINE value(e) == Escape(After(e, Eq))
<1>1. /\ Until(Escape(x), c) = name(x) /\ Until(Escape(y), c) = name(y)
      /\ From(Escape(x), c) = IF Has(x, Eq) THEN <<c>> \o value(x) ELSE <<>>
      /\ From(Escape(y), c) = IF Has(y, Eq) THEN <<c>> \o value(y) ELSE <<>>
      /\ ~ Has(y, Eq) => After(y, Eq) = <<>>
  BY Compared
<1>2. value(x) \in Seq(Chars) /\ value(y) \in Seq(Chars) /\ c \in Chars
  BY Cuts, EscapeIsInjective DEF Coded, Eq, Shift, Chars
<1>3. \/ Less(name(x), name(y))
      \/ Until(x, Eq) = Until(y, Eq) /\ Less(value(x), value(y))
  BY DEF ParameterLess, ParamOf
<1>4. CASE Less(name(x), name(y))
  BY <1>1, <1>4 DEF Precedes
<1>5. CASE Until(x, Eq) = Until(y, Eq) /\ Less(value(x), value(y))
  <2>1. Has(y, Eq)
    <3> SUFFICES ASSUME ~ Has(y, Eq) PROVE FALSE
      OBVIOUS
    <3>1. <<>> \in Seq(Chars) /\ Len(<<>>) = 0
      OBVIOUS
    <3>2. After(y, Eq) = <<>> /\ Len(Escape(<<>>)) = 0
      BY <1>1, <3>1, EscapeIsInjective
    <3>3. QED
      BY <1>5, <3>2 DEF Less
  <2>2. name(x) = name(y)
    BY <1>5
  <2>3. Less(From(Escape(x), c), From(Escape(y), c))
    <3>1. CASE Has(x, Eq)
      BY <1>1, <1>2, <1>5, <2>1, <3>1, LessAfterTheSame
    <3>2. CASE ~ Has(x, Eq)
      <4>1. From(Escape(x), c) = <<>> /\ From(Escape(y), c) = <<c>> \o value(y)
        BY <1>1, <2>1, <3>2
      <4> DEFINE z == <<c>> \o value(y)
      <4>2. Len(z) \in Nat /\ Len(z) > 0
        BY <1>2
      <4> HIDE DEF z
      <4>3. 1 \in 1..Len(z) /\ 1 > Len(<<>>) /\ 1..(1 - 1) = {}
        BY <4>2
      <4>4. Less(<<>>, z)
        BY <4>3 DEF Less
      <4>5. QED
        BY <4>1, <4>4 DEF z
    <3>3. QED
      BY <3>1, <3>2
  <2>4. QED
    BY <1>1, <2>2, <2>3 DEF Precedes
<1>6. QED
  BY <1>3, <1>4, <1>5

(* The order of parameters is strict and total.                            *)
LEMMA ParameterOrder ==
  /\ \A p \in Params : ~ ParameterLess(p, p)
  /\ \A p, q, r \in Params : ParameterLess(p, q) /\ ParameterLess(q, r) => ParameterLess(p, r)
  /\ \A p, q \in Params : p = q \/ ParameterLess(p, q) \/ ParameterLess(q, p)
<1> DEFINE name == [p \in Params |-> Escape(p.name)]
<1> DEFINE value == [p \in Params |-> Escape(p.value)]
<1>1. \A p \in Params : p.name \in Seq(Chars) /\ p.value \in Seq(Chars)
  BY DEF Params
<1>2. \A p \in Params : name[p] \in Seq(Chars) /\ value[p] \in Seq(Chars)
  BY <1>1, EscapeIsInjective
<1>3. \A p, q \in Params : (name[p] = name[q] <=> p.name = q.name) /\ (value[p] = value[q] <=> p.value = q.value)
  BY <1>1, EscapeIsInjective
<1>4. \A p, q \in Params : p.name = q.name /\ p.value = q.value => p = q
  BY DEF Params
<1>5. \A p, q \in Params :
        ParameterLess(p, q) <=> \/ Less(name[p], name[q])
                                \/ name[p] = name[q] /\ Less(value[p], value[q])
  BY <1>3 DEF ParameterLess
<1> HIDE DEF name, value
<1>6. \A p \in Params : ~ ParameterLess(p, p)
  BY <1>2, <1>5, LessIrreflexive
<1>7. ASSUME NEW p \in Params, NEW q \in Params, NEW r \in Params,
             ParameterLess(p, q), ParameterLess(q, r)
      PROVE  ParameterLess(p, r)
  <2>1. /\ name[p] \in Seq(Chars) /\ name[q] \in Seq(Chars) /\ name[r] \in Seq(Chars)
        /\ value[p] \in Seq(Chars) /\ value[q] \in Seq(Chars) /\ value[r] \in Seq(Chars)
    BY <1>2
  <2>2. /\ Less(name[p], name[q]) \/ (name[p] = name[q] /\ Less(value[p], value[q]))
        /\ Less(name[q], name[r]) \/ (name[q] = name[r] /\ Less(value[q], value[r]))
    BY <1>5, <1>7
  <2>3. Less(name[p], name[q]) /\ Less(name[q], name[r]) => Less(name[p], name[r])
    BY <2>1, LessTransitive
  <2>4. Less(value[p], value[q]) /\ Less(value[q], value[r]) => Less(value[p], value[r])
    BY <2>1, LessTransitive
  <2>5. Less(name[p], name[r]) \/ (name[p] = name[r] /\ Less(value[p], value[r]))
    BY <2>2, <2>3, <2>4
  <2>6. QED
    BY <1>5, <2>5
<1>8. ASSUME NEW p \in Params, NEW q \in Params, p # q
      PROVE  ParameterLess(p, q) \/ ParameterLess(q, p)
  <2>1. /\ name[p] \in Seq(Chars) /\ name[q] \in Seq(Chars)
        /\ value[p] \in Seq(Chars) /\ value[q] \in Seq(Chars)
    BY <1>2
  <2>2. CASE name[p] # name[q]
    BY <1>5, <2>1, <2>2, LessTotal
  <2>3. CASE name[p] = name[q]
    <3>1. value[p] # value[q]
      BY <1>3, <1>4, <1>8, <2>3
    <3>2. QED
      BY <1>5, <2>1, <2>3, <3>1, LessTotal
  <2>4. QED
    BY <2>2, <2>3
<1>9. QED
  BY <1>6, <1>7, <1>8

-----------------------------------------------------------------------------
(* An element as it is written into a text that is not a URL, and the      *)
(* parameter that is read from a part of a text.                           *)
Quoting(mod) == IF 4 \in mod THEN <<Quote>> ELSE <<>>

(* The text of an element.                                                 *)
Written(mod, e) ==
  IF ~ Has(e, Eq)
    THEN Append(e, Eq)
    ELSE Escape(Until(e, Eq)) \o <<Eq>> \o Quoting(mod) \o Escape(After(e, Eq)) \o Quoting(mod)

(* The parameter a part of a text is read as.                              *)
ReadAs(t) == [name |-> Decode(Until(t, Eq)), value |-> Decode(Unquoted(After(t, Eq)))]

(* An element whose text can be read back.                                 *)
Writable(e) == e \in Seq(Chars) /\ (Has(e, Eq) \/ Escape(e) = e)

(* The quotes that are put around a value are taken off, and no others.    *)
LEMMA QuotesComeOff ==
  ASSUME NEW mod, NEW v \in Seq(Chars), ~ Has(v, Quote)
  PROVE  /\ Quoting(mod) \o v \o Quoting(mod) \in Seq(Chars)
         /\ Unquoted(Quoting(mod) \o v \o Quoting(mod)) = v
<1>1. Quote \in Chars /\ <<Quote>> \in Seq(Chars) /\ Len(<<Quote>>) = 1 /\ <<Quote>>[1] = Quote
      /\ <<>> \in Seq(Chars) /\ Len(<<>>) = 0 /\ Len(v) \in Nat
  BY DEF Quote, Chars
<1>2. CASE 4 \in mod
  <2> DEFINE z == <<>> \o <<Quote>> \o v
  <2>1. Around(z, <<>>, Quote, v)
    BY <1>1, JoinedAround
  <2>2. z = <<Quote>> \o v
    OBVIOUS
  <2> HIDE DEF z
  <2>3. z \in Seq(Chars) /\ Len(z) = Len(v) + 1 /\ z[1] = Quote /\ \A k \in 1..Len(v) : z[1 + k] = v[k]
    BY <1>1, <2>1 DEF Around
  <2> DEFINE y == z \o <<Quote>>
  <2>4. y \in Seq(Chars) /\ Len(y) = Len(v) + 2 /\ y[1] = Quote /\ \A k \in 1..Len(v) : y[1 + k] = v[k]
    <3>1. y \in Seq(Chars) /\ Len(y) = Len(z) + 1 /\ \A k \in 1..Len(z) : y[k] = z[k]
      BY <1>1, <2>3
    <3> HIDE DEF y
    <3>2. 1 \in 1..Len(z) /\ \A k \in 1..Len(v) : 1 + k \in 1..Len(z)
      BY <1>1, <2>3
    <3>3. QED
      BY <1>1, <2>3, <3>1, <3>2
  <2> HIDE DEF y
  <2>5. Unquoted(y) = SubSeq(y, 2, Len(y) - 1)
    BY <1>1, <2>4 DEF Unquoted
  <2>6. SubSeq(y, 2, Len(y) - 1) = v
    <3> DEFINE u == SubSeq(y, 2, Len(y) - 1)
    <3>1. u \in Seq(Chars) /\ Len(u) = Len(v) /\ \A k \in 1..Len(v) : u[k] = y[1 + k]
      BY <1>1, <2>4
    <3> HIDE DEF u
    <3>2. u = v
      BY <2>4, <3>1
    <3>3. QED
      BY <3>2 DEF u
  <2>7. Quoting(mod) \o v \o Quoting(mod) = y
    BY <1>2, <2>2, Zenon DEF Quoting, y
  <2>8. QED
    BY <2>4, <2>5, <2>6, <2>7
<1>3. CASE 4 \notin mod
  <2>1. Quoting(mod) = <<>>
    BY <1>3 DEF Quoting
  <2>2. <<>> \o v \o <<>> = v
    OBVIOUS
  <2>3. v # <<>> => v[1] # Quote
    <3>1. v # <<>> => 1 \in 1..Len(v)
      BY <1>1
    <3>2. QED
      BY <3>1 DEF Has
  <2>4. Unquoted(v) = v
    BY <2>3, Zenon DEF Unquoted
  <2>5. QED
    BY <2>1, <2>2, <2>4
<1>4. QED
  BY <1>2, <1>3

(* An element that is written is not empty, has none of the separators,    *)
(* and is read back as the parameter it is; without quotes, it is          *)
(* written as the server encodes it.                                       *)
LEMMA ReadBack ==
  ASSUME NEW mod, NEW e, Writable(e)
  PROVE  /\ Written(mod, e) \in Seq(Bare) /\ Written(mod, e) \in Seq(Chars) /\ Written(mod, e) # <<>>
         /\ ReadAs(Written(mod, e)) = ParamOf(e)
         /\ Written({}, e) = Encoded(ParamOf(e))
         /\ ParamOf(e) \in Params
<1> DEFINE u == Until(e, Eq)
<1> DEFINE v == After(e, Eq)
<1> DEFINE q == Quoting(mod)
<1>1. /\ e \in Seq(Chars) /\ u \in Seq(Chars) /\ v \in Seq(Chars)
      /\ ~ Has(e, Eq) => u = e /\ v = <<>>
  BY Cuts, Compared DEF Writable
<1>2. Eq \in Bare /\ Quote \in Bare /\ Bare \subseteq Chars /\ Eq \in Chars
  BY DEF Bare, Chars, Eq, Quote, Amp, Comma, Mark
<1>3. /\ Escape(u) \in Seq(Bare) /\ Escape(v) \in Seq(Bare)
      /\ Escape(u) \in Seq(Chars) /\ Escape(v) \in Seq(Chars)
      /\ Decode(Escape(u)) = u /\ Decode(Escape(v)) = v
      /\ ~ Has(Escape(u), Eq) /\ ~ Has(Escape(v), Quote)
  BY <1>1, EscapedIsBare, EscapeIsInjective, DecodesBack DEF Parting
<1>4. /\ q \in Seq(Bare) /\ q \o Escape(v) \o q \in Seq(Chars)
      /\ Unquoted(q \o Escape(v) \o q) = Escape(v)
  <2>1. q \in Seq(Bare)
    BY <1>2 DEF Quoting
  <2>2. QED
    BY <1>3, <2>1, QuotesComeOff
<1>5. ParamOf(e) = [name |-> u, value |-> v] /\ ParamOf(e) \in Params
  BY <1>1 DEF ParamOf, Params
<1>6. Encoded(ParamOf(e)) = Escape(u) \o <<Eq>> \o Escape(v)
  BY <1>5 DEF Encoded
<1>7. CASE Has(e, Eq)
  <2> DEFINE w == q \o Escape(v) \o q
  <2>1. Written(mod, e) = Escape(u) \o <<Eq>> \o q \o Escape(v) \o q
    BY <1>7 DEF Written
  <2>2. Written({}, e) = Escape(u) \o <<Eq>> \o <<>> \o Escape(v) \o <<>>
    BY <1>7 DEF Written, Quoting
  <2> HIDE DEF u, v, q
  <2>3. <<Eq>> \in Seq(Bare) /\ <<Eq>> \in Seq(Chars)
    BY <1>2
  <2>4. Written(mod, e) \in Seq(Bare)
    <3>1. Escape(u) \o <<Eq>> \in Seq(Bare)
      BY <1>3, <2>3
    <3>2. (Escape(u) \o <<Eq>>) \o q \in Seq(Bare)
      BY <1>4, <3>1
    <3>3. ((Escape(u) \o <<Eq>>) \o q) \o Escape(v) \in Seq(Bare)
      BY <1>3, <3>2
    <3>4. (((Escape(u) \o <<Eq>>) \o q) \o Escape(v)) \o q \in Seq(Bare)
      BY <1>4, <3>3
    <3>5. QED
      BY <2>1, <3>4
  <2>5. Written(mod, e) = Escape(u) \o <<Eq>> \o w
    <3> DEFINE x == Escape(u) \o <<Eq>>
    <3> DEFINE ev == Escape(v)
    <3>1. x \in Seq(Chars) /\ q \in Seq(Chars) /\ ev \in Seq(Chars) /\ q \o ev \in Seq(Chars)
      BY <1>2, <1>3, <1>4, <2>3
    <3>2. Written(mod, e) = ((x \o q) \o ev) \o q
      BY <2>1
    <3>3. w = (q \o ev) \o q
      OBVIOUS
    <3> HIDE DEF x, ev, w
    <3>4. (x \o q) \o ev = x \o (q \o ev)
      BY <3>1, Associative
    <3>5. (x \o (q \o ev)) \o q = x \o ((q \o ev) \o q)
      BY <3>1, Associative
    <3>6. Written(mod, e) = x \o w
      BY <3>2, <3>3, <3>4, <3>5
    <3>7. QED
      BY <3>6 DEF x
  <2>6. w \in Seq(Chars) /\ Unquoted(w) = Escape(v)
    BY <1>4
  <2> HIDE DEF w
  <2>7. /\ Until(Escape(u) \o <<Eq>> \o w, Eq) = Escape(u)
        /\ After(Escape(u) \o <<Eq>> \o w, Eq) = w
        /\ Has(Escape(u) \o <<Eq>> \o w, Eq)
    BY <1>2, <1>3, <2>6, CutAt
  <2>8. ReadAs(Written(mod, e)) = ParamOf(e)
    BY <1>3, <1>5, <2>5, <2>6, <2>7 DEF ReadAs
  <2>9. Written(mod, e) # <<>>
    <3>1. Has(Written(mod, e), Eq)
      BY <2>5, <2>7
    <3>2. ~ Has(<<>>, Eq)
      BY DEF Has
    <3>3. QED
      BY <3>1, <3>2
  <2>10. Written({}, e) = Encoded(ParamOf(e))
    <3> DEFINE x == Escape(u) \o <<Eq>>
    <3> DEFINE ev == Escape(v)
    <3>1. x \in Seq(Chars) /\ ev \in Seq(Chars)
      BY <1>3, <2>3
    <3>2. Written({}, e) = ((x \o <<>>) \o ev) \o <<>> /\ Encoded(ParamOf(e)) = x \o ev
      BY <1>6, <2>2
    <3> HIDE DEF x, ev
    <3>3. x \o <<>> = x
      BY <3>1
    <3>4. (x \o ev) \o <<>> = x \o ev
      BY <3>1
    <3>5. QED
      BY <3>2, <3>3, <3>4
  <2>11. Written(mod, e) \in Seq(Chars)
    BY <1>2, <2>4
  <2>12. QED
    BY <1>5, <2>4, <2>8, <2>9, <2>10, <2>11
<1>8. CASE ~ Has(e, Eq)
  <2>1. u = e /\ v = <<>> /\ Escape(e) = e
    BY <1>1, <1>8 DEF Writable
  <2>2. \A m : Written(m, e) = Append(e, Eq)
    BY <1>8 DEF Written
  <2> HIDE DEF u, v
  <2>3. e \in Seq(Bare) /\ Escape(<<>>) = <<>> /\ Decode(e) = e
    BY <1>3, <2>1 DEF Escape
  <2>4. Append(e, Eq) = e \o <<Eq>> \o <<>> /\ Append(e, Eq) \in Seq(Bare) /\ Append(e, Eq) # <<>>
        /\ Append(e, Eq) \in Seq(Chars)
    BY <1>1, <1>2, <2>3
  <2>5. <<>> \in Seq(Chars)
    OBVIOUS
  <2>6. Until(e \o <<Eq>> \o <<>>, Eq) = e /\ After(e \o <<Eq>> \o <<>>, Eq) = <<>>
    BY <1>1, <1>2, <1>8, <2>5, CutAt
  <2>7. Unquoted(<<>>) = <<>> /\ Decode(<<>>) = <<>>
    BY DEF Unquoted, Decode
  <2>8. ReadAs(Append(e, Eq)) = [name |-> e, value |-> <<>>]
    BY <2>3, <2>4, <2>6, <2>7 DEF ReadAs
  <2>9. Encoded(ParamOf(e)) = Append(e, Eq)
    BY <1>6, <2>1, <2>3, <2>4
  <2>10. QED
    BY <1>5, <2>1, <2>2, <2>4, <2>8, <2>9
<1>9. QED
  BY <1>7, <1>8

(* What snprintf makes of a key and a value.                               *)
Word(key, value) == Snprintf(<<key, Eq>> \o value)

(* It has the key as its name, and of the value what oarg has room for.    *)
LEMMA WordIs ==
  ASSUME NEW key \in Chars \ {Eq}, NEW value \in Seq(Chars)
  PROVE  /\ Word(key, value) \in Seq(Chars) /\ Has(Word(key, value), Eq)
         /\ Until(Word(key, value), Eq) = <<key>>
         /\ After(Word(key, value), Eq) = Carried(value)
         /\ Len(Word(key, value)) > 1 /\ Word(key, value)[1] = key
<1> DEFINE s == <<key, Eq>> \o value
<1> DEFINE k1 == <<key>>
<1>1. ArgMax \in Nat /\ ArgMax > 3 /\ Len(value) \in Nat /\ Eq \in Chars /\ key \in Chars /\ key # Eq
  BY ArgMaxAssumption DEF Eq, Chars
<1>2. k1 \in Seq(Chars) /\ Len(k1) = 1 /\ k1[1] = key
  BY <1>1
<1>3. ~ Has(k1, Eq)
  BY <1>1, <1>2 DEF Has
<1>4. s = k1 \o <<Eq>> \o value
  <2>1. <<key, Eq>> = <<key>> \o <<Eq>>
    OBVIOUS
  <2>2. QED
    BY <2>1
<1>5. s \in Seq(Chars) /\ Len(s) = 2 + Len(value) /\ s[1] = key /\ s[2] = Eq
  BY <1>1
<1> HIDE DEF k1
<1>6. CASE Len(value) + 2 < ArgMax
  <2>1. Word(key, value) = s
    <3>1. Word(key, value) = SubSeq(s, 1, IF Len(s) < ArgMax THEN Len(s) ELSE ArgMax - 1)
      BY DEF Word, Snprintf
    <3> HIDE DEF s
    <3>2. Word(key, value) = SubSeq(s, 1, Len(s))
      BY <1>1, <1>5, <1>6, <3>1
    <3>3. QED
      BY <1>5, <3>2
  <2>2. Has(s, Eq) /\ Until(s, Eq) = k1 /\ After(s, Eq) = value
    <3> DEFINE z == k1 \o <<Eq>> \o value
    <3>1. Has(z, Eq) /\ Until(z, Eq) = k1 /\ After(z, Eq) = value
      BY <1>1, <1>2, <1>3, CutAt
    <3>2. s = z
      BY <1>4
    <3> HIDE DEF s, z
    <3>3. QED
      BY <3>1, <3>2
  <2>3. Len(s) > 1
    BY <1>1, <1>5
  <2>4. Carried(value) = value
    BY <1>1, <1>6 DEF Carried
  <2>5. QED
    BY <1>5, <2>1, <2>2, <2>3, <2>4 DEF k1
<1>7. CASE ~ (Len(value) + 2 < ArgMax)
  <2> DEFINE w == SubSeq(value, 1, ArgMax - 3)
  <2>1. w \in Seq(Chars) /\ Len(w) = ArgMax - 3 /\ \A k \in 1..(ArgMax - 3) : w[k] = value[k]
    BY <1>1, <1>7
  <2>0. Carried(value) = w
    BY <1>1, <1>7 DEF Carried
  <2> HIDE DEF w
  <2> DEFINE z == k1 \o <<Eq>> \o w
  <2>2. Around(z, k1, Eq, w) /\ Has(z, Eq) /\ Until(z, Eq) = k1 /\ After(z, Eq) = w
    BY <1>1, <1>2, <1>3, <2>1, CutAt, JoinedAround
  <2> HIDE DEF z
  <2>3. Around(s, k1, Eq, value)
    BY <1>1, <1>2, <1>4, JoinedAround
  <2> DEFINE y == SubSeq(s, 1, ArgMax - 1)
  <2>4. Word(key, value) = y
    <3>1. Word(key, value) = SubSeq(s, 1, IF Len(s) < ArgMax THEN Len(s) ELSE ArgMax - 1)
      BY DEF Word, Snprintf
    <3> HIDE DEF s
    <3>2. QED
      BY <1>1, <1>5, <1>7, <3>1
  <2> HIDE DEF s
  <2>5. y \in Seq(Chars) /\ Len(y) = ArgMax - 1 /\ \A k \in 1..(ArgMax - 1) : y[k] = s[k]
    BY <1>1, <1>5, <1>7
  <2> HIDE DEF y
  <2>6. z \in Seq(Chars) /\ Len(z) = ArgMax - 1 /\ z[1] = key /\ z[2] = Eq
        /\ \A k \in 1..(ArgMax - 3) : z[2 + k] = value[k]
    <3>1. 1 \in 1..1
      OBVIOUS
    <3>2. QED
      BY <1>1, <1>2, <2>1, <2>2, <3>1 DEF Around
  <2>7. \A k \in 1..(ArgMax - 3) : s[2 + k] = value[k]
    <3>1. \A k \in 1..(ArgMax - 3) : k \in 1..Len(value)
      BY <1>1, <1>7
    <3>2. QED
      BY <1>1, <1>2, <2>3, <3>1 DEF Around
  <2>8. ASSUME NEW k \in 1..(ArgMax - 1) PROVE y[k] = z[k]
    <3>1. CASE k > 2
      <4>1. PICK l \in 1..(ArgMax - 3) : k = 2 + l
        <5>1. k - 2 \in 1..(ArgMax - 3) /\ k = 2 + (k - 2)
          BY <1>1, <3>1
        <5>2. QED
          BY <5>1
      <4>2. QED
        BY <2>5, <2>6, <2>7, <4>1
    <3>2. CASE ~ (k > 2)
      <4>1. k = 1 \/ k = 2
        BY <3>2
      <4>2. QED
        BY <1>5, <2>5, <2>6, <4>1
    <3>3. QED
      BY <3>1, <3>2
  <2>9. y = z
    BY <2>5, <2>6, <2>8
  <2>10. Len(z) > 1
    BY <1>1, <2>6
  <2>11. QED
    BY <2>2, <2>4, <2>6, <2>9, <2>10, <2>0 DEF k1
<1>8. QED
  BY <1>6, <1>7

(* What FlattenSeq computes, for a function f that puts the strings of s   *)
(* together one after another.                                             *)
Gathers(f, s, n) == f[0] = <<>> /\ \A k \in 1..n : f[k] = f[k - 1] \o s[k]

(* That is FlattenSeq, by induction over the strings.                      *)
LEMMA Flattened ==
  ASSUME NEW n \in Nat, NEW s \in [1..n -> Seq(Chars)], NEW f \in [0..n -> Seq(Chars)],
         Gathers(f, s, n)
  PROVE  FlattenSeq(s) = f[n]
<1>1. Len(s) = n
  OBVIOUS
<1>2. CASE n = 0
  <2>1. s = <<>>
    BY <1>2
  <2>2. QED
    BY <1>2, <2>1 DEF FlattenSeq, Gathers
<1>3. n # 0 => 1 \in 1..n /\ f[1] = s[1]
  <2> SUFFICES ASSUME n # 0 PROVE 1 \in 1..n /\ f[1] = s[1]
    OBVIOUS
  <2>1. 1 \in 1..n /\ 1 - 1 = 0
    OBVIOUS
  <2>2. f[1] = <<>> \o s[1] /\ s[1] \in Seq(Chars)
    BY <2>1 DEF Gathers
  <2>3. QED
    BY <2>1, <2>2
<1>4. CASE n # 0
  <2> DEFINE Step(g, l) == IF l = 1 THEN s[l] ELSE g[l - 1] \o s[l]
  <2> DEFINE flatten == CHOOSE g : g = [l \in 1..n |-> Step(g, l)]
  <2>1. FlattenSeq(s) = flatten[n]
    BY <1>1, <1>4 DEF FlattenSeq
  <2> DEFINE h == [l \in 1..n |-> f[l]]
  <2>2. h = [l \in 1..n |-> Step(h, l)]
    <3>1. ASSUME NEW l \in 1..n PROVE h[l] = Step(h, l)
      <4>1. CASE l = 1
        <5>1. h[l] = s[l]
          BY <1>3, <1>4, <4>1
        <5> HIDE DEF h
        <5>2. QED
          BY <4>1, <5>1
      <4>2. CASE l # 1
        <5>1. l - 1 \in 1..n
          BY <4>2
        <5>2. h[l] = f[l] /\ f[l] = f[l - 1] \o s[l]
          BY DEF Gathers
        <5>3. h[l - 1] = f[l - 1]
          BY <5>1
        <5> HIDE DEF h
        <5>4. QED
          BY <4>2, <5>2, <5>3
      <4>3. QED
        BY <4>1, <4>2
    <3> DEFINE r == [l \in 1..n |-> Step(h, l)]
    <3>2. \A l \in 1..n : h[l] = r[l]
      BY <3>1
    <3>3. QED
      BY <3>2
  <2>3. flatten = [l \in 1..n |-> Step(flatten, l)]
    BY <2>2
  <2>4. \A l \in 1..n : flatten[l] = IF l = 1 THEN s[l] ELSE flatten[l - 1] \o s[l]
    <3> HIDE DEF flatten
    <3>1. QED
      BY <2>3
  <2> HIDE DEF flatten
  <2> DEFINE Bad == {l \in 1..n : flatten[l] # f[l]}
  <2>5. Bad = {}
    <3> SUFFICES ASSUME Bad # {} PROVE FALSE
      OBVIOUS
    <3>1. Bad \subseteq Nat
      OBVIOUS
    <3>2. PICK m \in Bad : \A k \in Bad : m <= k
      BY <3>1, Least
    <3>3. m \in 1..n /\ flatten[m] # f[m]
      OBVIOUS
    <3>4. m # 1
      BY <1>3, <1>4, <2>4, <3>3
    <3>5. m - 1 \in 1..n /\ ~ (m <= m - 1)
      BY <3>3, <3>4
    <3>6. flatten[m - 1] = f[m - 1]
      BY <3>2, <3>5
    <3>7. f[m] = f[m - 1] \o s[m]
      BY <3>3 DEF Gathers
    <3>8. QED
      BY <2>4, <3>7, <3>3, <3>4, <3>6
  <2>6. n \in 1..n
    BY <1>4
  <2>7. flatten[n] = f[n]
    BY <2>5, <2>6
  <2>8. QED
    BY <2>1, <2>7
<1>5. QED
  BY <1>2, <1>4

(* What grows at every step grows from any number to a later one.          *)
LEMMA GrowingLengths ==
  ASSUME NEW n \in Nat, NEW L \in [0..n -> Nat], \A k \in 1..n : L[k - 1] <= L[k]
  PROVE  \A j \in 0..n : \A k \in j..n : L[j] <= L[k]
<1> SUFFICES ASSUME NEW j \in 0..n PROVE \A k \in j..n : L[j] <= L[k]
  OBVIOUS
<1> DEFINE Bad == {m \in j..n : ~ (L[j] <= L[m])}
<1>1. Bad = {}
  <2> SUFFICES ASSUME Bad # {} PROVE FALSE
    OBVIOUS
  <2>1. Bad \subseteq Nat
    OBVIOUS
  <2>2. PICK m \in Bad : \A l \in Bad : m <= l
    BY <2>1, Least
  <2>3. m \in j..n /\ ~ (L[j] <= L[m]) /\ L[j] \in Nat
    OBVIOUS
  <2>4. m # j
    BY <2>3
  <2>5. m - 1 \in j..n /\ m \in 1..n /\ ~ (m <= m - 1) /\ m \in 0..n /\ m - 1 \in 0..n
    BY <2>3, <2>4
  <2>6. L[j] <= L[m - 1]
    BY <2>2, <2>5
  <2>7. L[m - 1] <= L[m] /\ L[m - 1] \in Nat /\ L[m] \in Nat
    BY <2>5
  <2>8. QED
    BY <2>3, <2>6, <2>7
<1>2. QED
  BY <1>1

(* Where a part ends.                                                      *)
LEMMA PartEndIs ==
  ASSUME NEW s \in Seq(Chars), NEW marks, NEW k \in 1..Len(s), NEW e \in k..Len(s),
         \A j \in k..e : s[j] \notin marks,
         e < Len(s) => s[e + 1] \in marks
  PROVE  PartEnd(s, marks, k) = e
<1> DEFINE Ends(x) == (\A j \in k..x : s[j] \notin marks) /\ (x < Len(s) => s[x + 1] \in marks)
<1>1. PartEnd(s, marks, k) = CHOOSE x \in k..Len(s) : Ends(x)
  BY DEF PartEnd
<1>2. ASSUME NEW x \in k..Len(s), Ends(x) PROVE x = e
  <2>1. Len(s) \in Nat
    OBVIOUS
  <2>2. ~ (x < e)
    <3> SUFFICES ASSUME x < e PROVE FALSE
      OBVIOUS
    <3>1. x + 1 \in k..e /\ x < Len(s)
      BY <2>1
    <3>2. QED
      BY <1>2, <3>1
  <2>3. ~ (e < x)
    <3> SUFFICES ASSUME e < x PROVE FALSE
      OBVIOUS
    <3>1. e + 1 \in k..x /\ e < Len(s)
      BY <2>1
    <3>2. QED
      BY <1>2, <3>1
  <2>4. QED
    BY <2>1, <2>2, <2>3
<1>3. Ends(e)
  OBVIOUS
<1> HIDE DEF Ends
<1>4. QED
  BY <1>1, <1>2, <1>3

(* A part of a text is the word that stands there.                         *)
LEMMA CutOut ==
  ASSUME NEW s \in Seq(Chars), NEW w \in Seq(Chars), NEW a \in Nat, NEW e \in Nat,
         e = a + Len(w), a < e, e <= Len(s), \A p \in 1..Len(w) : s[a + p] = w[p]
  PROVE  SubSeq(s, a + 1, e) = w
<1> DEFINE t == SubSeq(s, a + 1, e)
<1>1. Len(s) \in Nat /\ Len(w) \in Nat /\ a + 1 \in 1..Len(s)
  OBVIOUS
<1>2. t \in Seq(Chars) /\ Len(t) = Len(w) /\ \A p \in 1..Len(w) : t[p] = s[a + p]
  BY <1>1
<1> HIDE DEF t
<1>3. t = w
  BY <1>1, <1>2
<1>4. QED
  BY <1>3 DEF t

(* Where words stand in a text: that of k in K after place o[k], to L[k],  *)
(* with a mark before it but at the beginning.                             *)
Stand(s, marks, n, K, w, o, L) ==
  /\ L \in [0..n -> Nat] /\ o \in [K -> Nat] /\ K \subseteq 1..n
  /\ L[0] = 0 /\ L[n] = Len(s)
  /\ \A k \in (1..n) \ K : L[k] = L[k - 1]
  /\ \A k \in K :
       /\ w[k] \in Seq(Chars)
       /\ L[k] = o[k] + Len(w[k]) /\ o[k] < L[k]
       /\ \/ o[k] = 0 /\ L[k - 1] = 0
          \/ o[k] = L[k - 1] + 1 /\ s[o[k]] \in marks
       /\ \A p \in 1..Len(w[k]) : s[o[k] + p] = w[k][p] /\ w[k][p] \notin marks

(* The parts of a text are the words that stand in it.                     *)
LEMMA PiecesAreWords ==
  ASSUME NEW s \in Seq(Chars), NEW marks, NEW n \in Nat, NEW K, NEW w, NEW o, NEW L,
         Stand(s, marks, n, K, w, o, L), NEW P, P = Pieces(s, marks)
  PROVE  \E b \in [1..Len(P) -> K] :
           /\ \A j \in 1..Len(P) : P[j] = w[b[j]]
           /\ \A j, l \in 1..Len(P) : b[j] = b[l] => j = l
           /\ \A k \in K : \E j \in 1..Len(P) : b[j] = k
<1> DEFINE size == Len(s)
<1> DEFINE W == [k \in K |-> Len(w[k])]
<1>1. /\ L \in [0..n -> Nat] /\ o \in [K -> Nat] /\ K \subseteq 1..n
      /\ L[0] = 0 /\ L[n] = size /\ size \in Nat
      /\ \A k \in (1..n) \ K : L[k] = L[k - 1]
  BY DEF Stand
<1>2. ASSUME NEW k \in K
      PROVE  /\ k \in 1..n /\ k \in 0..n /\ k - 1 \in 0..n
             /\ L[k] \in Nat /\ L[k - 1] \in Nat /\ o[k] \in Nat /\ W[k] \in Nat
             /\ L[k] = o[k] + W[k] /\ o[k] < L[k]
             /\ (o[k] = 0 /\ L[k - 1] = 0) \/ o[k] = L[k - 1] + 1
  <2>1. k \in 1..n /\ k \in 0..n /\ k - 1 \in 0..n
    BY <1>1
  <2>2. L[k] \in Nat /\ L[k - 1] \in Nat /\ o[k] \in Nat
    BY <1>1, <2>1
  <2>3. w[k] \in Seq(Chars) /\ L[k] = o[k] + Len(w[k]) /\ o[k] < L[k]
        /\ ((o[k] = 0 /\ L[k - 1] = 0) \/ o[k] = L[k - 1] + 1)
    BY DEF Stand
  <2>4. Len(w[k]) \in Nat /\ W[k] = Len(w[k])
    BY <2>3
  <2>5. QED
    BY <2>1, <2>2, <2>3, <2>4
<1>3. ASSUME NEW k \in K
      PROVE  /\ o[k] # 0 => s[o[k]] \in marks
             /\ \A p \in 1..W[k] : s[o[k] + p] = w[k][p] /\ s[o[k] + p] \notin marks
             /\ w[k] \in Seq(Chars) /\ Len(w[k]) = W[k]
  BY DEF Stand
<1> HIDE DEF W, size
<1>4. \A j \in 0..n : \A k \in j..n : L[j] <= L[k]
  <2>1. ASSUME NEW k \in 1..n PROVE L[k - 1] <= L[k]
    <3>1. CASE k \in K
      BY <1>2, <3>1
    <3>2. CASE k \notin K
      <4>1. L[k] = L[k - 1] /\ k - 1 \in 0..n
        BY <1>1, <3>2
      <4>2. L[k - 1] \in Nat
        BY <1>1, <4>1
      <4>3. QED
        BY <4>1, <4>2
    <3>3. QED
      BY <3>1, <3>2
  <2>2. QED
    BY <1>1, <2>1, GrowingLengths
<1>5. \A k \in 0..n : L[k] \in Nat /\ L[k] <= size
  <2>1. \A k \in 0..n : n \in k..n
    OBVIOUS
  <2>2. QED
    BY <1>1, <1>4, <2>1
<1> DEFINE starts == {k \in 1..Len(s) : s[k] \notin marks /\ (k > 1 => s[k - 1] \in marks)}
<1>6. ASSUME NEW k \in K PROVE o[k] + 1 \in starts
  <2>1. 1 \in 1..W[k] /\ o[k] + 1 \in 1..size /\ (o[k] + 1) - 1 = o[k] /\ (o[k] + 1 > 1 => o[k] # 0)
    BY <1>1, <1>2, <1>5
  <2>2. s[o[k] + 1] \notin marks /\ (o[k] + 1 > 1 => s[o[k]] \in marks)
    BY <1>3, <2>1
  <2>3. QED
    BY <2>1, <2>2 DEF size
<1>7. ASSUME NEW p \in starts PROVE \E k \in K : p = o[k] + 1
  <2> DEFINE T == {k \in 0..n : p <= L[k]}
  <2>1. p \in 1..size /\ s[p] \notin marks /\ (p > 1 => s[p - 1] \in marks)
    BY DEF size
  <2> HIDE DEF starts
  <2>2. T \subseteq Nat /\ n \in T
    BY <1>1, <2>1
  <2>3. PICK k \in T : \A l \in T : k <= l
    BY <2>2, Least
  <2>4. k \in 0..n /\ p <= L[k]
    OBVIOUS
  <2>5. k # 0
    BY <1>1, <2>1, <2>4
  <2>6. k \in 1..n /\ k - 1 \in 0..n /\ ~ (k <= k - 1)
    BY <2>4, <2>5
  <2>7. L[k - 1] < p
    <3>1. k - 1 \notin T
      BY <2>3, <2>6
    <3>2. L[k - 1] \in Nat
      BY <1>5, <2>6
    <3>3. QED
      BY <2>1, <2>6, <3>1, <3>2
  <2> HIDE DEF T
  <2>8. k \in K
    <3> SUFFICES ASSUME k \notin K PROVE FALSE
      OBVIOUS
    <3>1. L[k] = L[k - 1] /\ L[k] \in Nat
      BY <1>1, <1>5, <2>4, <2>6
    <3>2. QED
      BY <2>1, <2>4, <2>7, <3>1
  <2>9. /\ L[k] \in Nat /\ L[k - 1] \in Nat /\ o[k] \in Nat /\ W[k] \in Nat
        /\ L[k] = o[k] + W[k] /\ o[k] < L[k]
        /\ (o[k] = 0 /\ L[k - 1] = 0) \/ o[k] = L[k - 1] + 1
    BY <1>2, <2>8
  <2>10. p # o[k]
    BY <1>3, <2>1, <2>8
  <2>11. ~ (p > o[k] + 1)
    <3> SUFFICES ASSUME p > o[k] + 1 PROVE FALSE
      OBVIOUS
    <3>1. PICK q \in 1..W[k] : o[k] + q = p - 1
      <4>1. p \in Nat
        BY <2>1
      <4>2. p - 1 - o[k] \in 1..W[k] /\ o[k] + (p - 1 - o[k]) = p - 1
        <5>1. \A x, y, z \in Nat : z = x + y /\ p <= z /\ p > x + 1 =>
                p - 1 - x \in 1..y /\ x + (p - 1 - x) = p - 1
          BY <4>1
        <5>2. QED
          BY <2>4, <2>9, <5>1
      <4>3. QED
        BY <4>2
    <3>2. p > 1
      BY <2>1, <2>9
    <3>3. s[p - 1] \notin marks
      BY <1>3, <2>8, <3>1
    <3>4. QED
      BY <2>1, <3>2, <3>3
  <2>12. p = o[k] + 1
    <3>1. \A x, y, z \in Nat : x # 0 /\ z < x /\ x # y /\ ~ (x > y + 1)
                             /\ ((y = 0 /\ z = 0) \/ y = z + 1) => x = y + 1
      OBVIOUS
    <3>2. p \in Nat /\ p # 0
      BY <1>1, <2>1
    <3>3. QED
      BY <2>7, <2>9, <2>10, <2>11, <3>1, <3>2
  <2>13. QED
    BY <2>8, <2>12
<1>8. ASSUME NEW k \in K, NEW l \in K, o[k] = o[l] PROVE k = l
  <2>1. ASSUME NEW x \in K, NEW y \in K, x < y PROVE o[x] < o[y]
    <3>1. y - 1 \in x..n /\ x \in 0..n
      BY <1>2, <2>1
    <3>2. L[x] <= L[y - 1]
      BY <1>4, <3>1
    <3>3. L[x] \in Nat /\ L[y - 1] \in Nat /\ o[x] \in Nat /\ o[y] \in Nat /\ o[x] < L[x]
          /\ ((o[y] = 0 /\ L[y - 1] = 0) \/ o[y] = L[y - 1] + 1)
      BY <1>2
    <3>4. QED
      BY <3>2, <3>3
  <2>2. o[k] \in Nat /\ k \in Nat /\ l \in Nat
    BY <1>2
  <2>3. ~ (k < l) /\ ~ (l < k)
    <3>1. ~ (o[k] < o[l]) /\ ~ (o[l] < o[k])
      BY <1>8, <2>2
    <3>2. QED
      BY <2>1, <3>1
  <2>4. QED
    BY <2>2, <2>3
<1>9. ASSUME NEW k \in K PROVE PartEnd(s, marks, o[k] + 1) = L[k]
  <2>1. /\ k \in 1..n /\ k \in 0..n /\ L[k] \in Nat /\ o[k] \in Nat /\ W[k] \in Nat /\ size \in Nat
        /\ L[k] = o[k] + W[k] /\ o[k] < L[k] /\ L[k] <= size
    BY <1>1, <1>2, <1>5
  <2>2. ASSUME NEW j \in (o[k] + 1)..L[k] PROVE s[j] \notin marks
    <3>1. PICK q \in 1..W[k] : o[k] + q = j
      <4>1. j - o[k] \in 1..W[k] /\ o[k] + (j - o[k]) = j
        BY <2>1
      <4>2. QED
        BY <4>1
    <3>2. QED
      BY <1>3, <3>1
  <2>3. ASSUME L[k] < size PROVE s[L[k] + 1] \in marks
    <3> DEFINE T == {m \in 0..n : L[k] < L[m]}
    <3>1. T \subseteq Nat /\ n \in T
      BY <1>1, <2>3
    <3>2. PICK m \in T : \A l \in T : m <= l
      BY <3>1, Least
    <3>3. m \in 0..n /\ L[k] < L[m] /\ L[m] \in Nat
      BY <1>1
    <3>4. m > k
      <4> SUFFICES ASSUME m <= k PROVE FALSE
        BY <2>1, <3>3
      <4>1. k \in m..n
        BY <2>1, <3>3
      <4>2. L[m] <= L[k]
        BY <1>4, <3>3, <4>1
      <4>3. QED
        BY <2>1, <3>3, <4>2
    <3>5. m \in 1..n /\ m - 1 \in 0..n /\ m - 1 \in k..n /\ ~ (m <= m - 1)
      BY <2>1, <3>3, <3>4
    <3>6. L[m - 1] = L[k]
      <4>1. m - 1 \notin T
        BY <3>2, <3>5
      <4>2. L[m - 1] \in Nat /\ L[k] <= L[m - 1]
        BY <1>4, <1>5, <2>1, <3>5
      <4>3. QED
        BY <2>1, <3>5, <4>1, <4>2
    <3> HIDE DEF T
    <3>7. m \in K
      <4> SUFFICES ASSUME m \notin K PROVE FALSE
        OBVIOUS
      <4>1. L[m] = L[m - 1]
        BY <1>1, <3>5
      <4>2. QED
        BY <2>1, <3>3, <3>6, <4>1
    <3>8. o[m] = L[k] + 1 /\ o[m] # 0
      BY <1>2, <2>1, <3>6, <3>7
    <3>9. QED
      BY <1>3, <3>7, <3>8
  <2>4. o[k] + 1 \in 1..Len(s) /\ L[k] \in (o[k] + 1)..Len(s)
    BY <2>1 DEF size
  <2>5. s[o[k] + 1] \notin marks
    <3>1. o[k] + 1 \in (o[k] + 1)..L[k]
      BY <2>1
    <3>2. QED
      BY <2>2, <3>1
  <2>6. L[k] < Len(s) => s[L[k] + 1] \in marks
    BY <2>3 DEF size
  <2>7. QED
    BY <2>2, <2>4, <2>6, PartEndIs
<1>10. ASSUME NEW k \in K PROVE SubSeq(s, o[k] + 1, L[k]) = w[k]
  <2>1. /\ L[k] \in Nat /\ o[k] \in Nat /\ W[k] \in Nat /\ size \in Nat
        /\ L[k] = o[k] + W[k] /\ o[k] < L[k] /\ L[k] <= size
    BY <1>1, <1>2, <1>5
  <2>2. w[k] \in Seq(Chars) /\ Len(w[k]) = W[k] /\ \A p \in 1..W[k] : s[o[k] + p] = w[k][p]
    BY <1>3
  <2>3. \A p \in 1..Len(w[k]) : s[o[k] + p] = w[k][p]
    BY <2>2
  <2>4. L[k] = o[k] + Len(w[k]) /\ L[k] <= Len(s)
    BY <2>1, <2>2 DEF size
  <2>5. QED
    BY <2>1, <2>2, <2>3, <2>4, CutOut
<1> DEFINE at == Ascending(starts)
<1> DEFINE c == Cardinality(starts)
<1>11. /\ c \in Nat /\ at \in [1..c -> starts]
       /\ \A x \in starts : \E m \in 1..c : at[m] = x
       /\ \A l, m \in 1..c : at[l] = at[m] => l = m
  <2>1. starts \in SUBSET (1..Len(s)) /\ Len(s) \in Nat
    OBVIOUS
  <2> HIDE DEF starts
  <2>2. QED
    BY <2>1, AscendingIsABijection
<1>12. P = [j \in 1..c |-> SubSeq(s, at[j], PartEnd(s, marks, at[j]))]
  BY DEF Pieces
<1> HIDE DEF starts, at, c
<1>13. Len(P) = c
  BY <1>11, <1>12
<1> DEFINE b == [j \in 1..c |-> CHOOSE k \in K : at[j] = o[k] + 1]
<1>14. \A j \in 1..c : b[j] \in K /\ at[j] = o[b[j]] + 1
  <2>1. \A j \in 1..c : \E k \in K : at[j] = o[k] + 1
    BY <1>7, <1>11
  <2>2. QED
    BY <2>1
<1>15. b \in [1..c -> K]
  BY <1>14
<1> HIDE DEF b
<1>16. \A j \in 1..c : P[j] = w[b[j]]
  <2> SUFFICES ASSUME NEW j \in 1..c PROVE P[j] = w[b[j]]
    OBVIOUS
  <2>1. b[j] \in K /\ at[j] = o[b[j]] + 1
    BY <1>14
  <2>2. P[j] = SubSeq(s, at[j], PartEnd(s, marks, at[j]))
    BY <1>12
  <2>3. P[j] = SubSeq(s, o[b[j]] + 1, L[b[j]])
    BY <1>9, <2>1, <2>2
  <2>4. QED
    BY <1>10, <2>1, <2>3
<1>17. \A j, l \in 1..c : b[j] = b[l] => j = l
  BY <1>11, <1>14
<1>18. \A k \in K : \E j \in 1..c : b[j] = k
  <2> SUFFICES ASSUME NEW k \in K PROVE \E j \in 1..c : b[j] = k
    OBVIOUS
  <2>1. PICK j \in 1..c : at[j] = o[k] + 1
    BY <1>6, <1>11
  <2>2. b[j] \in K /\ o[b[j]] + 1 = o[k] + 1
    BY <1>14, <2>1
  <2>3. o[b[j]] \in Nat /\ o[k] \in Nat
    BY <1>2, <2>2
  <2>4. o[b[j]] = o[k]
    BY <2>2, <2>3
  <2>5. QED
    BY <1>8, <2>2, <2>4
<1>19. QED
  BY <1>13, <1>15, <1>16, <1>17, <1>18

-----------------------------------------------------------------------------
(* What oauth_serialize_url_sep makes of an array for the arguments jb:    *)
(* after the URL, if it starts with that, f[n] for the n next elements.    *)
Keeps(mod, e) == (1 \in mod => ~ IsOAuth(e)) /\ (2 \in mod => IsOAuth(e))

Apart(jb, k, s) == IF k = 1 \/ (jb.start = 0 /\ s = <<>>) THEN <<>> ELSE <<jb.sep>>

Grows(f, jb, a, n) ==
  /\ f \in [0..n -> Seq(Chars)]
  /\ f[0] = <<>>
  /\ \A k \in 1..n :
       f[k] = IF Keeps(jb.mod, a[k + 1])
                THEN f[k - 1] \o (Apart(jb, k, f[k - 1]) \o Written(jb.mod, a[k + 1]))
                ELSE f[k - 1]

Opening(jb, a) == IF jb.start = 0 THEN Append(a[1], Mark) ELSE <<>>

Laid(s, jb, a, n) == \E f : Grows(f, jb, a, n) /\ s = Opening(jb, a) \o f[n]

(* Nothing is made of no elements.                                         *)
LEMMA GrowsNot ==
  ASSUME NEW jb, NEW a
  PROVE  Grows([k \in 0..0 |-> <<>>], jb, a, 0)
<1>1. <<>> \in Seq(Chars) /\ 0 \in 0..0 /\ 1..0 = {}
  OBVIOUS
<1>2. QED
  BY <1>1 DEF Grows

(* s is what the element after the first n makes of f[n].                  *)
Follows(s, f, jb, a, n) ==
  s = IF Keeps(jb.mod, a[n + 2])
        THEN f[n] \o (Apart(jb, n + 1, f[n]) \o Written(jb.mod, a[n + 2]))
        ELSE f[n]

(* One more element: it is put behind the others, or left out.             *)
LEMMA GrowsMore ==
  ASSUME NEW f, NEW jb, NEW a, NEW n \in Nat, Grows(f, jb, a, n),
         NEW s \in Seq(Chars), Follows(s, f, jb, a, n)
  PROVE  \E g : Grows(g, jb, a, n + 1) /\ g[n + 1] = s
<1> DEFINE g == [k \in 0..(n + 1) |-> IF k = n + 1 THEN s ELSE f[k]]
<1> DEFINE Next1(h, k) ==
      IF Keeps(jb.mod, a[k + 1])
        THEN h[k - 1] \o (Apart(jb, k, h[k - 1]) \o Written(jb.mod, a[k + 1]))
        ELSE h[k - 1]
<1>1. f \in [0..n -> Seq(Chars)] /\ f[0] = <<>> /\ \A k \in 1..n : f[k] = Next1(f, k)
  BY DEF Grows
<1>2. \A k \in 0..(n + 1) : k = n + 1 \/ k \in 0..n
  OBVIOUS
<1>3. g \in [0..(n + 1) -> Seq(Chars)] /\ g[n + 1] = s /\ \A k \in 0..n : g[k] = f[k]
  BY <1>1, <1>2
<1> HIDE DEF g
<1>4. g[0] = <<>>
  <2>1. 0 \in 0..n
    OBVIOUS
  <2>2. QED
    BY <1>1, <1>3, <2>1
<1>5. ASSUME NEW k \in 1..(n + 1) PROVE g[k] = Next1(g, k)
  <2>1. k - 1 \in 0..n
    OBVIOUS
  <2>2. g[k - 1] = f[k - 1]
    BY <1>3, <2>1
  <2>3. Next1(g, k) = Next1(f, k)
    BY <2>2
  <2>4. CASE k \in 1..n
    <3>1. k \in 0..n
      BY <2>4
    <3> HIDE DEF Next1
    <3>2. QED
      BY <1>1, <1>3, <2>3, <2>4, <3>1
  <2>5. CASE k \notin 1..n
    <3>1. k = n + 1 /\ k - 1 = n /\ k + 1 = n + 2
      BY <2>5
    <3>2. s = Next1(f, k)
      BY <3>1 DEF Follows
    <3> HIDE DEF Next1
    <3>3. QED
      BY <1>3, <2>3, <3>1, <3>2
  <2>6. QED
    BY <2>4, <2>5
<1>6. Grows(g, jb, a, n + 1)
  BY <1>3, <1>4, <1>5 DEF Grows
<1>7. QED
  BY <1>3, <1>6

(* Only the elements taken so far matter, and not the URL.                 *)
LEMMA GrowsSame ==
  ASSUME NEW f, NEW jb, NEW a, NEW b, NEW n \in Nat, Grows(f, jb, a, n),
         \A k \in 2..(n + 1) : a[k] = b[k]
  PROVE  Grows(f, jb, b, n)
<1>1. ASSUME NEW k \in 1..n PROVE a[k + 1] = b[k + 1]
  <2>1. k + 1 \in 2..(n + 1)
    OBVIOUS
  <2>2. QED
    BY <2>1
<1>2. /\ f \in [0..n -> Seq(Chars)] /\ f[0] = <<>>
      /\ \A k \in 1..n :
           f[k] = IF Keeps(jb.mod, a[k + 1])
                    THEN f[k - 1] \o (Apart(jb, k, f[k - 1]) \o Written(jb.mod, a[k + 1]))
                    ELSE f[k - 1]
  BY DEF Grows
<1>3. ASSUME NEW k \in 1..n
      PROVE  f[k] = IF Keeps(jb.mod, b[k + 1])
                      THEN f[k - 1] \o (Apart(jb, k, f[k - 1]) \o Written(jb.mod, b[k + 1]))
                      ELSE f[k - 1]
  <2>1. a[k + 1] = b[k + 1]
    BY <1>1
  <2>2. f[k] = IF Keeps(jb.mod, a[k + 1])
                 THEN f[k - 1] \o (Apart(jb, k, f[k - 1]) \o Written(jb.mod, a[k + 1]))
                 ELSE f[k - 1]
    BY <1>2, Zenon
  <2>3. QED
    BY <2>1, <2>2, Zenon
<1>4. QED
  BY <1>2, <1>3, Zenon DEF Grows

-----------------------------------------------------------------------------
(* The array and what has been made of it, under way.                      *)
ResultJob(form, k) ==
  IF form = "get" THEN Job(0, Amp, {})
  ELSE IF form = "post" THEN Job(1, Amp, {})
  ELSE IF k = 1 THEN Job(1, Comma, {2, 4})
  ELSE Job(0, Amp, {1})

(* The elements of the array that are signed, the URL among them.          *)
SignedCount == IF pc \in {"result", "returned"} THEN argc - 1 ELSE argc

(* The array stays as qsort has left it, up to the signature.              *)
InPlaceOK ==
  pc \in {"query", "result", "returned"} =>
    \A k, m \in 2..SignedCount : k < m => ~ Precedes(argv[m], argv[k])

(* The keys are in the array from oauth_add_protocol on, the signature     *)
(* is its last element once it is there, and no other element is named     *)
(* so.                                                                     *)
WordsOK ==
  /\ pc # "call" =>
       /\ \E k \in 2..SignedCount : argv[k] = Word(ConsumerKey, call.c_key)
       /\ call.t_key # NULL => \E k \in 2..SignedCount : argv[k] = Word(Token, call.t_key)
  /\ pc \in {"result", "returned"} => argc > 1 /\ argv[argc] = Word(Signature, sign)
  /\ Plain(given) => \A k \in 2..SignedCount : Until(argv[k], Eq) # <<Signature>>

(* The loop of oauth_serialize_url_sep has laid the elements before i.     *)
LayingOK ==
  Plain(given) /\ pc \in {"query", "result"} /\ i > 0 =>
    \E f : /\ Grows(f, job, argv, i - 1)
           /\ query = Opening(job, argv) \o f[i - 1]
           /\ first <=> job.start = 0 /\ f[i - 1] = <<>>

(* What was signed is laid from the array without the signature, and       *)
(* each string that is sent from the whole array.                          *)
LaidOK ==
  Plain(given) /\ pc \in {"result", "returned"} =>
    /\ base.url = argv[1] /\ Laid(base.query, Job(1, Amp, {}), argv, argc - 2)
    /\ \A k \in 1..Len(sent) : Laid(sent[k], ResultJob(call.form, k), argv, argc - 1)

WholeInv == IInv /\ InPlaceOK /\ WordsOK /\ LayingOK /\ LaidOK

(* WholeInv holds when oauth_sign_array2 is called first.                  *)
LEMMA InitIsWholeInv == Init => WholeInv
<1> SUFFICES ASSUME Init PROVE WholeInv
  OBVIOUS
<1>1. IInv
  BY InitIsIInv
<1>2. pc = "call" /\ given = argv /\ SignedCount = argc
  BY DEF Init, SignedCount
<1>3. QED
  BY <1>1, <1>2 DEF WholeInv, InPlaceOK, WordsOK, LayingOK, LaidOK, Plain, argc

-----------------------------------------------------------------------------
(* The words oauth_add_protocol adds.                                      *)
Grown(a, b) ==
  /\ a \in Seq(Seq(Chars)) /\ b \in Seq(Seq(Chars))
  /\ Len(a) <= Len(b)
  /\ \A k \in 1..Len(a) : b[k] = a[k]
  /\ \A k \in 1..Len(b) : k > Len(a) => Until(b[k], Eq) # <<Signature>>

(* An array grows by one word after another.                               *)
LEMMA GrownFurther ==
  ASSUME NEW a, NEW b, NEW c, Grown(a, b), Grown(b, c)
  PROVE  Grown(a, c)
<1>1. Len(a) \in Nat /\ Len(b) \in Nat /\ Len(c) \in Nat /\ Len(a) <= Len(b) /\ Len(b) <= Len(c)
  BY DEF Grown
<1>2. \A k \in 1..Len(a) : k \in 1..Len(b)
  BY <1>1
<1>3. \A k \in 1..Len(c) : k > Len(a) => k > Len(b) \/ k \in 1..Len(b)
  BY <1>1
<1>4. ASSUME NEW k \in 1..Len(c), k > Len(a) PROVE Until(c[k], Eq) # <<Signature>>
  <2>1. CASE k > Len(b)
    BY <2>1 DEF Grown
  <2>2. CASE k \in 1..Len(b)
    <3>1. c[k] = b[k] /\ Until(b[k], Eq) # <<Signature>>
      BY <1>4, <2>2 DEF Grown
    <3>2. QED
      BY <3>1
  <2>3. QED
    BY <1>3, <1>4, <2>1, <2>2
<1>5. \A k \in 1..Len(a) : c[k] = a[k]
  BY <1>2 DEF Grown
<1>6. a \in Seq(Seq(Chars)) /\ c \in Seq(Seq(Chars)) /\ Len(a) <= Len(c)
  <2>1. \A x, y, z \in Nat : x <= y /\ y <= z => x <= z
    OBVIOUS
  <2>2. QED
    BY <1>1, <2>1 DEF Grown
<1>7. QED
  BY <1>4, <1>5, <1>6 DEF Grown

(* A word put behind an array.                                             *)
LEMMA WordAdded ==
  ASSUME NEW a \in Seq(Seq(Chars)), NEW key \in OAuthWords \ {Signature}, NEW value \in Seq(Chars)
  PROVE  /\ Grown(a, AddParam(a, key, value)) /\ Grown(a, AddMissing(a, key, value))
         /\ Len(AddParam(a, key, value)) = Len(a) + 1
         /\ AddParam(a, key, value)[Len(a) + 1] = Word(key, value)
<1> DEFINE e == Word(key, value)
<1>1. key \in Chars \ {Eq} /\ key # Signature
  BY DEF OAuthWords, ConsumerKey, Version, Chars, Eq
<1>2. e \in Seq(Chars) /\ Until(e, Eq) = <<key>>
  BY <1>1, WordIs
<1>3. Until(e, Eq) # <<Signature>>
  <2>1. <<key>>[1] # <<Signature>>[1]
    BY <1>1
  <2>2. QED
    BY <1>2, <2>1
<1>4. AddParam(a, key, value) = Append(a, e)
  BY DEF AddParam, Word
<1> HIDE DEF e
<1>5. /\ Append(a, e) \in Seq(Seq(Chars)) /\ Len(Append(a, e)) = Len(a) + 1 /\ Len(a) \in Nat
      /\ \A k \in 1..Len(a) : Append(a, e)[k] = a[k]
      /\ Append(a, e)[Len(a) + 1] = e
  BY <1>2
<1>6. Grown(a, Append(a, e)) /\ Grown(a, a)
  <2>1. \A k \in 1..(Len(a) + 1) : k > Len(a) => k = Len(a) + 1
    BY <1>5
  <2>2. \A k \in 1..Len(a) : ~ (k > Len(a))
    BY <1>5
  <2>3. QED
    BY <1>3, <1>5, <2>1, <2>2 DEF Grown
<1>7. QED
  BY <1>4, <1>5, <1>6 DEF AddMissing, e

(* The keys are among the words oauth_add_protocol puts behind an array.   *)
LEMMA WordsAdded ==
  ASSUME TypeOK, AddProtocol
  PROVE  /\ Grown(argv, argv')
         /\ \E k \in 2..Len(argv') : argv'[k] = Word(ConsumerKey, call.c_key)
         /\ call.t_key # NULL => \E k \in 2..Len(argv') : argv'[k] = Word(Token, call.t_key)
<1> DEFINE a1 == AddMissing(argv, Nonce, <<Random>>)
<1> DEFINE a2 == AddMissing(a1, Timestamp, <<Now>>)
<1> DEFINE a3 == IF call.t_key = NULL THEN a2 ELSE AddParam(a2, Token, call.t_key)
<1> DEFINE a4 == AddParam(a3, ConsumerKey, call.c_key)
<1> DEFINE a5 == AddParam(a4, SignatureMethod, <<Named>>)
<1> DEFINE a6 == AddMissing(a5, Version, <<OneDotZero>>)
<1>1. argv' = a6
  BY DEF AddProtocol
<1>2. /\ argv \in Seq(Seq(Chars)) /\ Len(argv) \in Nat \ {0}
      /\ call.c_key \in Seq(Chars) /\ (call.t_key # NULL => call.t_key \in Seq(Chars))
  BY StringsAssumption DEF TypeOK, Calls
<1>3. {Nonce, Timestamp, Token, ConsumerKey, SignatureMethod, Version} \subseteq OAuthWords \ {Signature}
      /\ <<Random>> \in Seq(Chars) /\ <<Now>> \in Seq(Chars) /\ <<Named>> \in Seq(Chars)
      /\ <<OneDotZero>> \in Seq(Chars)
  BY DEF Nonce, Timestamp, Token, ConsumerKey, SignatureMethod, Version, OAuthWords, Signature,
         Random, Now, Named, OneDotZero, Chars
<1>4. Grown(argv, a1)
  BY <1>2, <1>3, WordAdded
<1> HIDE DEF a1
<1>5. a1 \in Seq(Seq(Chars))
  BY <1>4 DEF Grown
<1>6. Grown(a1, a2)
  BY <1>3, <1>5, WordAdded
<1> HIDE DEF a2
<1>7. a2 \in Seq(Seq(Chars))
  BY <1>6 DEF Grown
<1>8. /\ Grown(a2, a3)
      /\ call.t_key # NULL => Len(a3) = Len(a2) + 1 /\ a3[Len(a2) + 1] = Word(Token, call.t_key)
  <2>1. CASE call.t_key = NULL
    <3>1. a3 = a2
      BY <2>1
    <3>2. Grown(a2, a2)
      <4>1. Len(a2) \in Nat
        BY <1>7
      <4>2. \A k \in 1..Len(a2) : ~ (k > Len(a2))
        BY <4>1
      <4>3. QED
        BY <1>7, <4>1, <4>2 DEF Grown
    <3>3. QED
      BY <2>1, <3>1, <3>2
  <2>2. CASE call.t_key # NULL
    <3>1. a3 = AddParam(a2, Token, call.t_key)
      BY <2>2
    <3>2. QED
      BY <1>2, <1>3, <1>7, <2>2, <3>1, WordAdded
  <2>3. QED
    BY <2>1, <2>2
<1> HIDE DEF a3
<1>9. a3 \in Seq(Seq(Chars))
  BY <1>8 DEF Grown
<1>10. Grown(a3, a4) /\ Len(a4) = Len(a3) + 1 /\ a4[Len(a3) + 1] = Word(ConsumerKey, call.c_key)
  BY <1>2, <1>3, <1>9, WordAdded
<1> HIDE DEF a4
<1>11. a4 \in Seq(Seq(Chars))
  BY <1>10 DEF Grown
<1>12. Grown(a4, a5)
  BY <1>3, <1>11, WordAdded
<1> HIDE DEF a5
<1>13. a5 \in Seq(Seq(Chars))
  BY <1>12 DEF Grown
<1>14. Grown(a5, a6)
  BY <1>3, <1>13, WordAdded
<1> HIDE DEF a6
<1>15. Grown(argv, a2) /\ Grown(a4, a6)
  BY <1>4, <1>6, <1>12, <1>14, GrownFurther
<1>16. Grown(argv, a3) /\ Grown(a3, a6)
  BY <1>8, <1>10, <1>15, GrownFurther
<1>17. Grown(argv, a6)
  BY <1>16, GrownFurther
<1>18. /\ Len(argv) <= Len(a2) /\ Len(a2) <= Len(a3) /\ Len(a3) <= Len(a4) /\ Len(a4) <= Len(a6)
       /\ Len(a2) \in Nat /\ Len(a3) \in Nat /\ Len(a4) \in Nat /\ Len(a6) \in Nat
  BY <1>8, <1>10, <1>15 DEF Grown
<1>19. \E k \in 2..Len(a6) : a6[k] = Word(ConsumerKey, call.c_key)
  <2>1. Len(a4) \in 2..Len(a6) /\ Len(a4) \in 1..Len(a4) /\ Len(a4) = Len(a3) + 1
    BY <1>2, <1>10, <1>18
  <2>2. a6[Len(a4)] = a4[Len(a4)]
    BY <1>15, <2>1 DEF Grown
  <2>3. QED
    BY <1>10, <2>1, <2>2
<1>20. ASSUME call.t_key # NULL PROVE \E k \in 2..Len(a6) : a6[k] = Word(Token, call.t_key)
  <2>1. Len(a3) \in 2..Len(a6) /\ Len(a3) \in 1..Len(a3) /\ Len(a3) = Len(a2) + 1
    BY <1>2, <1>8, <1>18, <1>20
  <2>2. a6[Len(a3)] = a3[Len(a3)]
    BY <1>16, <2>1 DEF Grown
  <2>3. QED
    BY <1>8, <1>20, <2>1, <2>2
<1>21. QED
  BY <1>1, <1>17, <1>19, <1>20

(* oauth_add_protocol keeps WholeInv.                                      *)
LEMMA AddProtocolWhole == WholeInv /\ AddProtocol => WholeInv'
<1> SUFFICES ASSUME WholeInv, AddProtocol PROVE WholeInv'
  OBVIOUS
<1>1. IInv' /\ IInv /\ TypeOK
  BY AddProtocolStep DEF WholeInv, IInv
<1>2. pc = "call" /\ pc' = "sort" /\ UNCHANGED <<given, call, sign>>
  BY DEF AddProtocol
<1>3. /\ Grown(argv, argv')
      /\ \E k \in 2..Len(argv') : argv'[k] = Word(ConsumerKey, call.c_key)
      /\ call.t_key # NULL => \E k \in 2..Len(argv') : argv'[k] = Word(Token, call.t_key)
  BY <1>1, WordsAdded
<1>4. SignedCount = Len(argv) /\ SignedCount' = Len(argv')
  BY <1>2 DEF SignedCount, argc
<1>5. ASSUME Plain(given), NEW k \in 2..Len(argv') PROVE Until(argv'[k], Eq) # <<Signature>>
  <2>1. Len(argv) \in Nat /\ Len(argv') \in Nat /\ k \in 1..Len(argv')
    BY <1>3 DEF Grown
  <2>2. CASE k > Len(argv)
    BY <1>3, <2>1, <2>2 DEF Grown
  <2>3. CASE ~ (k > Len(argv))
    <3>1. k \in 2..Len(argv) /\ k \in 1..Len(argv)
      BY <2>1, <2>3
    <3>2. Until(argv[k], Eq) # <<Signature>>
      BY <1>4, <1>5, <3>1 DEF WholeInv, WordsOK
    <3>3. QED
      BY <1>3, <3>1, <3>2 DEF Grown
  <2>4. QED
    BY <2>2, <2>3
<1>6. WordsOK'
  BY <1>2, <1>3, <1>4, <1>5 DEF WordsOK
<1>7. InPlaceOK' /\ LayingOK' /\ LaidOK'
  BY <1>2 DEF InPlaceOK, LayingOK, LaidOK
<1>8. QED
  BY <1>1, <1>6, <1>7 DEF WholeInv

(* Sorting leaves the parameters what they are.                            *)
LEMMA SortedElements ==
  ASSUME NEW a \in Arguments
  PROVE  /\ \A k \in 2..Len(a) : \E m \in 2..Len(a) : Sorted(a)[k] = a[m]
         /\ \A k \in 2..Len(a) : \E m \in 2..Len(a) : Sorted(a)[m] = a[k]
<1>1. PICK at \in [1..Len(a) -> 1..Len(a)] :
        /\ at[1] = 1
        /\ \A k \in 1..Len(a) : Sorted(a)[k] = a[at[k]]
        /\ \A k, m \in 1..Len(a) : at[k] = at[m] => k = m
        /\ \A k \in 1..Len(a) : \E m \in 1..Len(a) : at[m] = k
  BY SortedIsAPermutation
<1>2. Len(a) \in Nat \ {0}
  BY DEF Arguments
<1>3. ASSUME NEW k \in 2..Len(a) PROVE \E m \in 2..Len(a) : Sorted(a)[k] = a[m]
  <2>1. k \in 1..Len(a) /\ 1 \in 1..Len(a) /\ k # 1
    BY <1>2
  <2>2. at[k] \in 1..Len(a) /\ at[k] # 1 /\ Sorted(a)[k] = a[at[k]]
    BY <1>1, <2>1
  <2>3. at[k] \in 2..Len(a)
    BY <1>2, <2>2
  <2>4. QED
    BY <2>2, <2>3
<1>4. ASSUME NEW k \in 2..Len(a) PROVE \E m \in 2..Len(a) : Sorted(a)[m] = a[k]
  <2>1. k \in 1..Len(a) /\ k # 1
    BY <1>2
  <2>2. PICK m \in 1..Len(a) : at[m] = k
    BY <1>1, <2>1
  <2>3. m # 1 /\ Sorted(a)[m] = a[k]
    BY <1>1, <2>1, <2>2
  <2>4. m \in 2..Len(a)
    BY <1>2, <2>3
  <2>5. QED
    BY <2>3, <2>4
<1>5. QED
  BY <1>3, <1>4

(* qsort puts the elements into the order of the comparison.               *)
LEMMA SortWhole == WholeInv /\ Sort => WholeInv'
<1> SUFFICES ASSUME WholeInv, Sort PROVE WholeInv'
  OBVIOUS
<1>1. IInv' /\ IInv /\ TypeOK
  BY SortStep DEF WholeInv, IInv
<1>2. /\ pc = "sort" /\ pc' = "query" /\ argv' = Sorted(argv)
      /\ job' = Job(1, Amp, {}) /\ i' = 1 /\ first' = FALSE /\ query' = <<>>
      /\ UNCHANGED <<given, call, base, sign, sent>>
  BY DEF Sort, Serialize, Job
<1>3. argv \in Arguments /\ Len(argv) \in Nat \ {0}
  BY <1>1 DEF TypeOK, Arguments
<1>4. /\ Len(argv') = Len(argv) /\ argv'[1] = argv[1]
      /\ \A k, m \in 2..Len(argv) : k < m => ~ Precedes(argv'[m], argv'[k])
  BY <1>2, <1>3, SortedIsAPermutation
<1>6. SignedCount = Len(argv) /\ SignedCount' = Len(argv')
  BY <1>2 DEF SignedCount, argc
<1>7. \A k \in 2..Len(argv) : \E m \in 2..Len(argv) : argv'[k] = argv[m]
  BY <1>2, <1>3, SortedElements
<1>8. \A k \in 2..Len(argv) : \E m \in 2..Len(argv) : argv'[m] = argv[k]
  BY <1>2, <1>3, SortedElements
<1>9. InPlaceOK'
  BY <1>2, <1>4, <1>6 DEF InPlaceOK
<1>10. WordsOK'
  <2>1. /\ \E k \in 2..Len(argv) : argv[k] = Word(ConsumerKey, call.c_key)
        /\ call.t_key # NULL => \E k \in 2..Len(argv) : argv[k] = Word(Token, call.t_key)
        /\ Plain(given) => \A k \in 2..Len(argv) : Until(argv[k], Eq) # <<Signature>>
    BY <1>2, <1>6 DEF WholeInv, WordsOK
  <2>2. \E k \in 2..Len(argv') : argv'[k] = Word(ConsumerKey, call.c_key)
    BY <1>4, <1>8, <2>1
  <2>3. call.t_key # NULL => \E k \in 2..Len(argv') : argv'[k] = Word(Token, call.t_key)
    BY <1>4, <1>8, <2>1
  <2>4. Plain(given) => \A k \in 2..Len(argv') : Until(argv'[k], Eq) # <<Signature>>
    BY <1>4, <1>7, <2>1
  <2>5. QED
    BY <1>2, <1>6, <2>2, <2>3, <2>4 DEF WordsOK
<1>11. LayingOK'
  <2>1. i' - 1 = 0
    BY <1>2
  <2> DEFINE f == [k \in 0..0 |-> <<>>]
  <2>2. Grows(f, job', argv', 0) /\ f[0] = <<>>
    BY GrowsNot
  <2> HIDE DEF f
  <2>3. Opening(job', argv') = <<>> /\ job'.start = 1
    BY <1>2 DEF Opening, Job
  <2>4. query' = Opening(job', argv') \o f[0] /\ (first' <=> job'.start = 0 /\ f[0] = <<>>)
    BY <1>2, <2>2, <2>3
  <2>5. \E g : /\ Grows(g, job', argv', i' - 1)
               /\ query' = Opening(job', argv') \o g[i' - 1]
               /\ first' <=> job'.start = 0 /\ g[i' - 1] = <<>>
    BY <2>1, <2>2, <2>4
  <2>6. QED
    BY <2>5 DEF LayingOK
<1>12. LaidOK'
  BY <1>2 DEF LaidOK
<1>13. QED
  BY <1>1, <1>9, <1>10, <1>11, <1>12 DEF WholeInv

-----------------------------------------------------------------------------
(* An element is passed by, or added.                                      *)
LEMMA LoopUnchanged ==
  ASSUME WholeInv, UNCHANGED <<argv, given, call, pc, base, sign, sent>>
  PROVE  InPlaceOK' /\ WordsOK' /\ LaidOK'
BY DEF WholeInv, InPlaceOK, WordsOK, LaidOK, SignedCount, argc

(* From the second element on none is taken for a URL.                     *)
LEMMA ElementAfterUrl ==
  ASSUME i > 0, NEW e, e = argv[i + 1]
  PROVE  /\ Kept <=> Keeps(job.mod, e)
         /\ ~ IsUrl(e) /\ Text(e) = Written(job.mod, e)
<1>1. i # 0
  OBVIOUS
<1>2. Kept <=> Keeps(job.mod, e)
  BY <1>1 DEF Kept, Keeps
<1>3. ~ IsUrl(e)
  BY <1>1 DEF IsUrl
<1>4. Text(e) = Written(job.mod, e)
  BY <1>3 DEF Text, Written, Quoting
<1>5. QED
  BY <1>2, <1>3, <1>4

(* An element that mod leaves out adds nothing.                            *)
LEMMA SkipElementWhole == WholeInv /\ SkipElement => WholeInv'
<1> SUFFICES ASSUME WholeInv, SkipElement PROVE WholeInv'
  OBVIOUS
<1>1. IInv' /\ IInv /\ TypeOK /\ JobOK /\ LoopOK /\ ArrayOK
  BY SkipElementStep DEF WholeInv, IInv
<1>2. /\ pc \in {"query", "result"} /\ ~ Kept /\ i' = i + 1
      /\ UNCHANGED <<argv, given, call, pc, job, first, query, room, base, sign, sent, signings>>
  BY DEF SkipElement
<1>3. InPlaceOK' /\ WordsOK' /\ LaidOK'
  BY <1>2, LoopUnchanged
<1>4. LayingOK'
  <2> SUFFICES ASSUME Plain(given)
               PROVE  \E f : /\ Grows(f, job, argv, i' - 1)
                             /\ query = Opening(job, argv) \o f[i' - 1]
                             /\ first <=> job.start = 0 /\ f[i' - 1] = <<>>
    BY <1>2 DEF LayingOK
  <2>1. i \in Nat /\ job.start \in {0, 1} /\ i >= job.start /\ argv[1] = given[1]
    BY <1>1, <1>2 DEF TypeOK, LoopOK, ArrayOK
  <2>2. i # 0
    <3> SUFFICES ASSUME i = 0 PROVE Kept
      BY <1>2
    <3>1. job = Job(0, Amp, {}) \/ job = Job(0, Amp, {1})
      BY <1>1, <1>2, <2>1 DEF JobOK, Job
    <3>2. QED
      BY <2>1, <3>1, KeptByJob DEF Job
  <2>3. i > 0
    BY <2>1, <2>2
  <2>4. PICK f : /\ Grows(f, job, argv, i - 1)
                 /\ query = Opening(job, argv) \o f[i - 1]
                 /\ first <=> job.start = 0 /\ f[i - 1] = <<>>
    BY <1>2, <2>3 DEF WholeInv, LayingOK
  <2>5. ~ Keeps(job.mod, argv[i + 1])
    BY <1>2, <2>3, ElementAfterUrl
  <2>6. PICK n \in Nat : n = i - 1
    BY <2>1, <2>2
  <2>7. n + 2 = i + 1 /\ n + 1 = i /\ i' - 1 = n + 1
    BY <1>2, <2>1, <2>6
  <2>8. f[n] \in Seq(Chars)
    <3>1. n \in 0..n /\ f \in [0..n -> Seq(Chars)]
      BY <2>4, <2>6 DEF Grows
    <3>2. QED
      BY <3>1
  <2>9. Follows(f[n], f, job, argv, n)
    BY <2>5, <2>7, Zenon DEF Follows
  <2>10. Grows(f, job, argv, n)
    BY <2>4, <2>6
  <2>11. PICK g : Grows(g, job, argv, n + 1) /\ g[n + 1] = f[n]
    BY <2>8, <2>9, <2>10, GrowsMore
  <2>12. /\ Grows(g, job, argv, i' - 1)
         /\ query = Opening(job, argv) \o g[i' - 1]
         /\ first <=> job.start = 0 /\ g[i' - 1] = <<>>
    BY <2>4, <2>6, <2>7, <2>11, Zenon
  <2>13. QED
    BY <2>12, Zenon
<1>5. QED
  BY <1>1, <1>3, <1>4 DEF WholeInv

(* The URL is laid as it is, with a '?'.                                   *)
LEMMA UrlAdded ==
  ASSUME TypeOK, JobOK, LoopOK, ArrayOK, AddElement, Plain(given), i = 0
  PROVE  /\ query' = Append(argv[1], Mark) /\ first' = TRUE /\ job.start = 0
<1>1. argv[1] = given[1] /\ argv \in Seq(Seq(Chars)) /\ 1 \in 1..Len(argv)
  BY DEF ArrayOK, TypeOK
<1>2. argv[1] # <<>> /\ argv[1][1] = Host /\ ~ Has(argv[1], Space) /\ argv[1] \in Seq(Chars)
  BY <1>1 DEF Plain
<1>3. job.start = 0 /\ query = <<>>
  <2>1. job.start \in {0, 1} /\ i >= job.start
    BY DEF TypeOK, LoopOK, AddElement
  <2>2. job.start = 0
    BY <2>1
  <2>3. QED
    BY <2>2 DEF LoopOK, AddElement
<1>4. Has(argv[1], Host)
  <2>1. 1 \in 1..Len(argv[1])
    BY <1>2
  <2>2. QED
    BY <1>2, <2>1 DEF Has
<1>5. IsUrl(argv[1])
  BY <1>3, <1>4 DEF IsUrl
<1>6. Text(argv[1]) = argv[1]
  <2> DEFINE e == argv[1]
  <2> DEFINE t == Text(e)
  <2>1. t \in Seq(Chars) /\ Len(t) = Len(e) /\ \A k \in 1..Len(e) : e[k] # Space => t[k] = e[k]
    BY <1>2, <1>5, UrlText
  <2>2. \A k \in 1..Len(e) : e[k] # Space
    BY <1>2 DEF Has
  <2>3. e \in Seq(Chars)
    BY <1>2
  <2> HIDE DEF t, e
  <2>4. t = e
    BY <2>1, <2>2, <2>3
  <2>5. QED
    BY <2>4 DEF t, e
<1>7. /\ query' = query \o Separator \o Text(argv[1]) \o <<Mark>>
      /\ first' = TRUE
  <2>1. argv[i + 1] = argv[1]
    OBVIOUS
  <2>2. QED
    BY <1>5, <2>1 DEF AddElement
<1>8. Separator = <<>>
  BY <1>3 DEF Separator
<1>9. <<>> \o <<>> \o argv[1] \o <<Mark>> = Append(argv[1], Mark)
  BY <1>2
<1>10. QED
  BY <1>3, <1>6, <1>7, <1>8, <1>9

(* An element that is added comes behind what has been laid.               *)
LEMMA AddElementWhole == WholeInv /\ AddElement => WholeInv'
<1> SUFFICES ASSUME WholeInv, AddElement PROVE WholeInv'
  OBVIOUS
<1>1. IInv' /\ IInv /\ TypeOK /\ JobOK /\ LoopOK /\ ArrayOK
  BY AddElementStep DEF WholeInv, IInv
<1>2. /\ pc \in {"query", "result"} /\ Kept /\ i' = i + 1 /\ i < argc
      /\ UNCHANGED <<argv, given, call, pc, job, base, sign, sent, signings>>
  BY DEF AddElement
<1>3. InPlaceOK' /\ WordsOK' /\ LaidOK'
  BY <1>2, LoopUnchanged
<1>4. LayingOK'
  <2> SUFFICES ASSUME Plain(given)
               PROVE  \E f : /\ Grows(f, job, argv, i' - 1)
                             /\ query' = Opening(job, argv) \o f[i' - 1]
                             /\ first' <=> job.start = 0 /\ f[i' - 1] = <<>>
    BY <1>2 DEF LayingOK
  <2>1. /\ i \in Nat /\ argc \in Nat /\ job.start \in {0, 1} /\ i >= job.start
        /\ argv \in Seq(Seq(Chars)) /\ argv # <<>> /\ query \in Seq(Chars)
        /\ job.sep \in Chars /\ argv[1] \in Seq(Chars)
    <3>1. 1 \in 1..Len(argv) /\ argv \in Seq(Seq(Chars))
      BY <1>1 DEF TypeOK
    <3>2. argv[1] \in Seq(Chars)
      BY <3>1
    <3>3. QED
      BY <1>1, <1>2, <3>2 DEF TypeOK, LoopOK, argc, Amp, Comma, Chars
  <2>2. CASE i = 0
    <3>1. query' = Append(argv[1], Mark) /\ first' = TRUE /\ job.start = 0
      BY <1>1, <2>2, UrlAdded
    <3> DEFINE f == [k \in 0..0 |-> <<>>]
    <3>2. Grows(f, job, argv, 0) /\ f[0] = <<>>
      BY GrowsNot
    <3> HIDE DEF f
    <3>3. Opening(job, argv) = Append(argv[1], Mark)
      BY <3>1 DEF Opening
    <3>4. Append(argv[1], Mark) \o <<>> = Append(argv[1], Mark)
      <4>1. Append(argv[1], Mark) \in Seq(Chars)
        BY <2>1 DEF Mark, Chars
      <4>2. QED
        BY <4>1
    <3>5. i' - 1 = 0
      BY <1>2, <2>2
    <3>6. /\ Grows(f, job, argv, i' - 1)
          /\ query' = Opening(job, argv) \o f[i' - 1]
          /\ first' <=> job.start = 0 /\ f[i' - 1] = <<>>
      BY <3>1, <3>2, <3>3, <3>4, <3>5
    <3>7. QED
      BY <3>6
  <2>3. CASE i # 0
    <3>1. i > 0
      BY <2>1, <2>3
    <3>2. PICK f : /\ Grows(f, job, argv, i - 1)
                   /\ query = Opening(job, argv) \o f[i - 1]
                   /\ first <=> job.start = 0 /\ f[i - 1] = <<>>
      BY <1>2, <3>1 DEF WholeInv, LayingOK
    <3>3. PICK n \in Nat : n = i - 1
      BY <2>1, <2>3
    <3>4. n + 2 = i + 1 /\ n + 1 = i /\ i' - 1 = n + 1
      BY <1>2, <2>1, <3>3
    <3> DEFINE e == argv[i + 1]
    <3> DEFINE w == Written(job.mod, e)
    <3> DEFINE o == Apart(job, n + 1, f[n])
    <3>5. Keeps(job.mod, e) /\ ~ IsUrl(e) /\ Text(e) = w
      BY <1>2, <3>1, ElementAfterUrl
    <3>6. e \in Seq(Chars) /\ w \in Seq(Chars) /\ w # <<>>
      BY <1>1, <3>5, ElementText
    <3>7. f[n] \in Seq(Chars)
      <4>1. n \in 0..n /\ f \in [0..n -> Seq(Chars)] /\ Grows(f, job, argv, n)
        BY <3>2, <3>3 DEF Grows
      <4>2. QED
        BY <4>1
    <3>8. o \in Seq(Chars)
      BY <2>1 DEF Apart
    <3>9. Separator = o
      <4>1. job.start = 1 => ~ first
        BY <3>2
      <4>2. n + 1 = 1 => f[n] = <<>>
        <5>1. n + 1 = 1 => n = 0
          OBVIOUS
        <5>2. QED
          BY <3>2, <3>3, <5>1 DEF Grows
      <4>3. CASE job.start = 1
        <5>1. i = job.start <=> n + 1 = 1
          BY <3>4, <4>3
        <5>2. job.start # 0
          BY <4>3
        <5>3. QED
          BY <4>1, <4>3, <5>1, <5>2 DEF Separator, Apart
      <4>4. CASE job.start = 0
        <5>1. first <=> f[n] = <<>>
          BY <3>2, <3>3, <4>4
        <5>2. i # job.start
          BY <2>3, <4>4
        <5>3. QED
          BY <4>2, <4>4, <5>1, <5>2 DEF Separator, Apart
      <4>5. QED
        BY <2>1, <4>3, <4>4
    <3> DEFINE s == f[n] \o (o \o w)
    <3>10. s \in Seq(Chars) /\ s # <<>>
      <4> HIDE DEF o, w
      <4>1. o \o w \in Seq(Chars) /\ Len(o \o w) = Len(o) + Len(w) /\ Len(w) # 0
            /\ Len(o) \in Nat /\ Len(w) \in Nat
        BY <3>6, <3>8
      <4> DEFINE ow == o \o w
      <4>2. ow \in Seq(Chars) /\ Len(ow) # 0
        BY <4>1
      <4> HIDE DEF ow
      <4>3. f[n] \o ow \in Seq(Chars) /\ f[n] \o ow # <<>>
        BY <3>7, <4>2
      <4>4. QED
        BY <4>3 DEF ow
    <3>11. query' = Opening(job, argv) \o s
      <4> DEFINE p == Opening(job, argv)
      <4>1. query' = query \o Separator \o Text(e) \o <<>>
        BY <3>5 DEF AddElement
      <4>2. query = p \o f[n]
        BY <3>2, <3>3
      <4>3. p \in Seq(Chars)
        BY <2>1 DEF Opening, Mark, Chars
      <4>4. query' = (((p \o f[n]) \o o) \o w) \o <<>>
        BY <3>5, <3>9, <4>1, <4>2
      <4> HIDE DEF p, o, w
      <4>5. (((p \o f[n]) \o o) \o w) \o <<>> = ((p \o f[n]) \o o) \o w
        <5>1. (p \o f[n]) \o o \in Seq(Chars)
          BY <3>7, <3>8, <4>3
        <5>2. QED
          BY <3>6, <5>1
      <4>6. ((p \o f[n]) \o o) \o w = (p \o f[n]) \o (o \o w)
        <5> DEFINE x == p \o f[n]
        <5>1. x \in Seq(Chars)
          BY <3>7, <4>3
        <5> HIDE DEF x
        <5>2. (x \o o) \o w = x \o (o \o w)
          BY <3>6, <3>8, <5>1, Associative
        <5>3. QED
          BY <5>2 DEF x
      <4>7. (p \o f[n]) \o (o \o w) = p \o (f[n] \o (o \o w))
        <5>1. o \o w \in Seq(Chars)
          BY <3>6, <3>8
        <5>2. QED
          BY <3>7, <4>3, <5>1, Associative
      <4>8. QED
        BY <4>4, <4>5, <4>6, <4>7 DEF p, o, w
    <3>12. ~ first'
      BY <3>5 DEF AddElement
    <3>13. Follows(s, f, job, argv, n)
      BY <3>4, <3>5, Zenon DEF Follows
    <3>14. Grows(f, job, argv, n)
      BY <3>2, <3>3
    <3> HIDE DEF s
    <3>15. PICK g : Grows(g, job, argv, n + 1) /\ g[n + 1] = s
      BY <3>10, <3>13, <3>14, GrowsMore
    <3>16. /\ Grows(g, job, argv, i' - 1)
           /\ query' = Opening(job, argv) \o g[i' - 1]
           /\ first' <=> job.start = 0 /\ g[i' - 1] = <<>>
      BY <3>4, <3>10, <3>11, <3>12, <3>15, Zenon
    <3>17. QED
      BY <3>16, Zenon
  <2>4. QED
    BY <2>2, <2>3
<1>5. QED
  BY <1>1, <1>3, <1>4 DEF WholeInv

(* The loop has been set up: nothing is laid yet, behind the URL if there  *)
(* is one to come.                                                         *)
LEMMA NothingLaid ==
  ASSUME NEW jb, NEW a, jb.start = 1
  PROVE  \E f : Grows(f, jb, a, 0) /\ <<>> = Opening(jb, a) \o f[0] /\ ~ (jb.start = 0 /\ f[0] = <<>>)
<1> DEFINE f == [k \in 0..0 |-> <<>>]
<1>1. Grows(f, jb, a, 0) /\ f[0] = <<>>
  BY GrowsNot
<1> HIDE DEF f
<1>2. Opening(jb, a) = <<>> /\ jb.start # 0
  BY DEF Opening
<1>3. <<>> = <<>> \o <<>>
  OBVIOUS
<1>4. <<>> = Opening(jb, a) \o f[0]
  BY <1>1, <1>2, <1>3
<1>5. QED
  BY <1>1, <1>2, <1>4

(* What is signed has been laid from the whole array, to which only the    *)
(* signature is added.                                                     *)
LEMMA SignWhole == WholeInv /\ Sign => WholeInv'
<1> SUFFICES ASSUME WholeInv, Sign PROVE WholeInv'
  OBVIOUS
<1>1. IInv' /\ IInv /\ TypeOK /\ JobOK
  BY SignStep DEF WholeInv, IInv
<1>2. /\ pc = "query" /\ i = argc /\ pc' = "result"
      /\ base' = [url |-> argv[1], query |-> query]
      /\ sign' = Signed(call.method) /\ argv' = AddParam(argv, Signature, sign')
      /\ SerializeResult(1)
      /\ UNCHANGED <<given, call, sent, signings>>
  BY DEF Sign
<1>3. /\ argv \in Seq(Seq(Chars)) /\ Len(argv) \in Nat \ {0} /\ sign' \in Seq(Chars)
      /\ call.form \in {"get", "post", "header"} /\ sent = <<>> /\ job = Job(1, Amp, {})
  <2>1. call.method \in Methods
    BY <1>1 DEF TypeOK, Calls
  <2>2. sign' \in Seq(Chars)
    BY <1>2, <2>1, SignedIsText
  <2>3. argv \in Seq(Seq(Chars)) /\ argv # <<>> /\ call.form \in Forms
    BY <1>1 DEF TypeOK, Calls
  <2>4. sent = <<>> /\ job = Job(1, Amp, {})
    BY <1>1, <1>2 DEF JobOK
  <2>5. call.form \in {"get", "post", "header"}
    BY <2>3, FormsAssumption
  <2>6. Len(argv) \in Nat \ {0}
    BY <2>3
  <2>7. QED
    BY <2>2, <2>3, <2>4, <2>5, <2>6
<1>4. /\ \/ job' = Job(0, Amp, {})
         \/ job' = Job(1, Amp, {})
         \/ job' = Job(1, Comma, {2, 4})
      /\ i' = job'.start /\ first' = FALSE /\ query' = <<>>
  <2>1. CASE call.form = "get"
    BY <1>2, <2>1 DEF SerializeResult, Serialize, Job
  <2>2. CASE call.form = "post"
    BY <1>2, <2>2 DEF SerializeResult, Serialize, Job
  <2>3. CASE call.form = "header"
    BY <1>2, <2>3 DEF SerializeResult, Serialize, Job
  <2>4. QED
    BY <1>3, <2>1, <2>2, <2>3
<1> DEFINE e == Word(Signature, sign')
<1>5. e \in Seq(Chars)
  BY <1>3, WordIs DEF Signature, Eq, Chars
<1>6. argv' = Append(argv, e)
  BY <1>2 DEF AddParam, Word
<1> HIDE DEF e
<1>7. /\ Len(argv') = Len(argv) + 1 /\ argv'[Len(argv) + 1] = e
      /\ \A k \in 1..Len(argv) : argv'[k] = argv[k]
  BY <1>3, <1>5, <1>6
<1>8. SignedCount = Len(argv) /\ SignedCount' = Len(argv)
  BY <1>2, <1>3, <1>7 DEF SignedCount, argc
<1>9. \A k \in 2..Len(argv) : argv'[k] = argv[k]
  <2>1. \A k \in 2..Len(argv) : k \in 1..Len(argv)
    OBVIOUS
  <2>2. QED
    BY <1>7, <2>1
<1>10. InPlaceOK'
  <2>1. \A k, m \in 2..Len(argv) : k < m => ~ Precedes(argv[m], argv[k])
    BY <1>2, <1>8 DEF WholeInv, InPlaceOK
  <2>2. QED
    BY <1>8, <1>9, <2>1 DEF InPlaceOK
<1>11. WordsOK'
  <2>1. /\ \E k \in 2..Len(argv) : argv[k] = Word(ConsumerKey, call.c_key)
        /\ call.t_key # NULL => \E k \in 2..Len(argv) : argv[k] = Word(Token, call.t_key)
        /\ Plain(given) => \A k \in 2..Len(argv) : Until(argv[k], Eq) # <<Signature>>
    BY <1>2, <1>8 DEF WholeInv, WordsOK
  <2>2. \E k \in 2..Len(argv) : argv'[k] = Word(ConsumerKey, call.c_key)
    BY <1>9, <2>1
  <2>3. call.t_key # NULL => \E k \in 2..Len(argv) : argv'[k] = Word(Token, call.t_key)
    BY <1>9, <2>1
  <2>4. Plain(given) => \A k \in 2..Len(argv) : Until(argv'[k], Eq) # <<Signature>>
    BY <1>9, <2>1
  <2>5. Len(argv') > 1 /\ argv'[Len(argv')] = Word(Signature, sign')
    BY <1>3, <1>7 DEF e
  <2>6. QED
    BY <1>2, <1>8, <2>2, <2>3, <2>4, <2>5 DEF WordsOK, argc
<1>12. LayingOK'
  <2>1. CASE job'.start = 0
    <3>1. ~ (i' > 0)
      BY <1>4, <2>1
    <3>2. QED
      BY <3>1 DEF LayingOK
  <2>2. CASE job'.start = 1
    <3>1. i' - 1 = 0
      BY <1>4, <2>2
    <3>2. \E f : /\ Grows(f, job', argv', i' - 1)
                 /\ query' = Opening(job', argv') \o f[i' - 1]
                 /\ first' <=> job'.start = 0 /\ f[i' - 1] = <<>>
      BY <1>4, <2>2, <3>1, NothingLaid
    <3>3. QED
      BY <3>2 DEF LayingOK
  <2>3. QED
    BY <1>4, <2>1, <2>2 DEF Job
<1>13. LaidOK'
  <2> SUFFICES ASSUME Plain(given)
               PROVE  base'.url = argv'[1] /\ Laid(base'.query, Job(1, Amp, {}), argv', Len(argv') - 2)
    <3>1. sent' = <<>>
      BY <1>2, <1>3
    <3>2. 1..Len(sent') = {}
      BY <3>1
    <3>3. QED
      BY <1>2, <3>2 DEF LaidOK, argc
  <2>1. base'.url = argv[1] /\ base'.query = query /\ argv'[1] = argv[1]
    <3>1. 1 \in 1..Len(argv)
      BY <1>3
    <3>2. argv'[1] = argv[1]
      BY <1>7, <3>1
    <3>3. base' = [url |-> argv[1], query |-> query]
      BY <1>2
    <3>4. base'.url = argv[1] /\ base'.query = query
      BY <3>3
    <3>5. QED
      BY <3>2, <3>4
  <2>2. PICK n \in Nat : n = Len(argv) - 1
    <3>1. Len(argv) - 1 \in Nat
      BY <1>3
    <3>2. QED
      BY <3>1
  <2>3. Len(argv') - 2 = n /\ n + 1 = Len(argv) /\ i - 1 = n /\ i > 0
    BY <1>2, <1>3, <1>7, <2>2 DEF argc
  <2>4. PICK f : Grows(f, job, argv, n) /\ query = Opening(job, argv) \o f[n]
    BY <1>2, <2>3 DEF WholeInv, LayingOK
  <2>5. \A k \in 2..(n + 1) : argv[k] = argv'[k]
    BY <1>9, <2>3
  <2>6. Grows(f, job, argv', n)
    BY <2>4, <2>5, GrowsSame
  <2>7. Opening(job, argv) = Opening(job, argv')
    BY <1>3 DEF Opening, Job
  <2>8. Laid(query, Job(1, Amp, {}), argv', n)
    BY <1>3, <2>4, <2>6, <2>7 DEF Laid
  <2>9. QED
    BY <2>1, <2>3, <2>8
<1>14. QED
  BY <1>1, <1>10, <1>11, <1>12, <1>13 DEF WholeInv

(* What is sent has been laid from the whole array, the signature          *)
(* included.                                                               *)
LEMMA ReturnWhole == WholeInv /\ Return => WholeInv'
<1> SUFFICES ASSUME WholeInv, Return PROVE WholeInv'
  OBVIOUS
<1>1. IInv' /\ IInv /\ TypeOK /\ JobOK
  BY ReturnStep DEF WholeInv, IInv
<1>2. /\ pc = "result" /\ i = argc /\ sent' = Append(sent, query)
      /\ UNCHANGED <<argv, given, call, base, sign, signings>>
  BY DEF Return
<1>3. pc' \in {"result", "returned"}
  BY <1>2 DEF Return
<1>4. InPlaceOK' /\ WordsOK'
  <2>1. SignedCount' = SignedCount
    BY <1>2, <1>3 DEF SignedCount, argc
  <2>2. InPlaceOK'
    BY <1>2, <2>1 DEF WholeInv, InPlaceOK
  <2>3. WordsOK'
    BY <1>2, <2>1 DEF WholeInv, WordsOK, argc
  <2>4. QED
    BY <2>2, <2>3
<1>5. LayingOK'
  <2>1. CASE call.form = "header" /\ sent = <<>>
    <3>1. i' = 0
      BY <2>1 DEF Return, SerializeResult, Serialize
    <3>2. QED
      BY <3>1 DEF LayingOK
  <2>2. CASE ~ (call.form = "header" /\ sent = <<>>)
    <3>1. pc' = "returned"
      BY <2>2 DEF Return
    <3>2. QED
      BY <3>1 DEF LayingOK
  <2>3. QED
    BY <2>1, <2>2
<1>6. LaidOK'
  <2> SUFFICES ASSUME Plain(given)
               PROVE  /\ base.url = argv[1] /\ Laid(base.query, Job(1, Amp, {}), argv, argc - 2)
                      /\ \A k \in 1..Len(sent') : Laid(sent'[k], ResultJob(call.form, k), argv, argc - 1)
    BY <1>2 DEF LaidOK, argc
  <2>1. /\ base.url = argv[1] /\ Laid(base.query, Job(1, Amp, {}), argv, argc - 2)
        /\ \A k \in 1..Len(sent) : Laid(sent[k], ResultJob(call.form, k), argv, argc - 1)
    BY <1>2 DEF WholeInv, LaidOK
  <2>2. /\ sent \in Seq(Seq(Chars)) /\ query \in Seq(Chars) /\ argc \in Nat \ {0}
    BY <1>1 DEF TypeOK, argc
  <2>3. /\ Len(sent') = Len(sent) + 1 /\ sent'[Len(sent) + 1] = query /\ Len(sent) \in Nat
        /\ \A k \in 1..Len(sent) : sent'[k] = sent[k]
    BY <1>2, <2>2
  <2>4. job = ResultJob(call.form, Len(sent) + 1)
    <3>1. \/ call.form = "get" /\ sent = <<>> /\ job = Job(0, Amp, {})
          \/ call.form = "post" /\ sent = <<>> /\ job = Job(1, Amp, {})
          \/ call.form = "header" /\ sent = <<>> /\ job = Job(1, Comma, {2, 4})
          \/ call.form = "header" /\ Len(sent) = 1 /\ job = Job(0, Amp, {1})
      BY <1>1, <1>2 DEF JobOK
    <3>2. sent = <<>> => Len(sent) + 1 = 1
      OBVIOUS
    <3>3. Len(sent) = 1 => Len(sent) + 1 # 1
      OBVIOUS
    <3>4. QED
      BY <3>1, <3>2, <3>3 DEF ResultJob
  <2>5. Laid(query, job, argv, argc - 1)
    <3>1. i > 0
      BY <1>2, <2>2
    <3>2. PICK f : Grows(f, job, argv, i - 1) /\ query = Opening(job, argv) \o f[i - 1]
      BY <1>2, <3>1 DEF WholeInv, LayingOK
    <3>3. QED
      BY <1>2, <3>2 DEF Laid
  <2>6. ASSUME NEW k \in 1..Len(sent') PROVE Laid(sent'[k], ResultJob(call.form, k), argv, argc - 1)
    <3>1. CASE k \in 1..Len(sent)
      BY <2>1, <2>3, <3>1
    <3>2. CASE k = Len(sent) + 1
      BY <2>3, <2>4, <2>5, <3>2
    <3>3. QED
      BY <2>3, <3>1, <3>2
  <2>7. QED
    BY <2>1, <2>6
<1>7. QED
  BY <1>1, <1>4, <1>5, <1>6 DEF WholeInv

(* A call starts afresh, with an array or with a URL that is split.        *)
LEMMA SignAgainWhole ==
  ASSUME WholeInv, NEW form \in Forms, SignAgain(form)
  PROVE  WholeInv'
<1>1. IInv'
  BY SignAgainStep DEF WholeInv
<1>2. pc' = "call" /\ given' = argv'
  BY DEF SignAgain
<1>3. SignedCount' = Len(argv')
  BY <1>2 DEF SignedCount, argc
<1>4. WordsOK'
  BY <1>2, <1>3 DEF WordsOK, Plain
<1>5. InPlaceOK' /\ LayingOK' /\ LaidOK'
  BY <1>2 DEF InPlaceOK, LayingOK, LaidOK
<1>6. QED
  BY <1>1, <1>4, <1>5 DEF WholeInv

(* A step that changes nothing.                                            *)
LEMMA StutterWhole == WholeInv /\ UNCHANGED vars => WholeInv'
<1> SUFFICES ASSUME WholeInv, UNCHANGED vars PROVE WholeInv'
  OBVIOUS
<1>1. IInv'
  BY StutterStep DEF WholeInv
<1>2. UNCHANGED <<argv, given, call, pc, job, i, first, query, base, sign, sent>>
  BY DEF vars, loop
<1>3. InPlaceOK' /\ WordsOK' /\ LaidOK'
  BY <1>2, LoopUnchanged
<1>4. LayingOK'
  BY <1>2 DEF WholeInv, LayingOK
<1>5. QED
  BY <1>1, <1>3, <1>4 DEF WholeInv

(* Every step keeps WholeInv.                                              *)
LEMMA NextIsWholeInv == WholeInv /\ [Next]_vars => WholeInv'
BY AddProtocolWhole, SortWhole, SkipElementWhole, AddElementWhole, SignWhole, ReturnWhole,
   SignAgainWhole, StutterWhole, Zenon DEF Next

(* WholeInv is an invariant of signing.                                    *)
LEMMA SpecWholeInv == Spec => []WholeInv
BY InitIsWholeInv, NextIsWholeInv, PTL DEF Spec

-----------------------------------------------------------------------------
(* What has been put together stays at its place.                          *)
Adds(t, s, u, w) ==
  /\ t \in Seq(Chars) /\ s \in Seq(Chars) /\ u \in Seq(Chars) /\ w \in Seq(Chars)
  /\ Len(t) = Len(s) + Len(u) + Len(w)
  /\ \A p \in 1..Len(s) : t[p] = s[p]
  /\ \A p \in 1..Len(u) : t[Len(s) + p] = u[p]
  /\ \A p \in 1..Len(w) : t[Len(s) + Len(u) + p] = w[p]

(* Concatenation puts the three strings one behind the other.              *)
LEMMA JoinedAdds ==
  ASSUME NEW s \in Seq(Chars), NEW u \in Seq(Chars), NEW w \in Seq(Chars)
  PROVE  Adds(s \o (u \o w), s, u, w)
<1> DEFINE t == s \o (u \o w)
<1>1. t = s \o u \o w \o <<>> /\ <<>> \in Seq(Chars)
  <2>1. (s \o u) \o w = s \o (u \o w)
    BY Associative
  <2>2. s \o u \in Seq(Chars)
    OBVIOUS
  <2> DEFINE v == s \o u
  <2>3. (v \o w) \o <<>> = v \o w
    <3>1. v \o w \in Seq(Chars)
      BY <2>2
    <3>2. QED
      BY <3>1
  <2>4. QED
    BY <2>1, <2>3
<1> HIDE DEF t
<1>2. Joins(s \o u \o w \o <<>>, s, u, w, <<>>)
  BY <1>1, Appended
<1>3. Joins(t, s, u, w, <<>>) /\ Len(<<>>) = 0
  BY <1>1, <1>2
<1>4. Len(s) \in Nat /\ Len(u) \in Nat /\ Len(w) \in Nat
  OBVIOUS
<1>5. Adds(t, s, u, w)
  BY <1>3, <1>4 DEF Joins, Adds
<1>6. QED
  BY <1>5 DEF t

(* An element kept adds what parts it from the others, and its text.       *)
LEMMA GrowsStep ==
  ASSUME NEW f, NEW jb, jb.sep \in Chars, NEW a, NEW n \in Nat, Grows(f, jb, a, n),
         \A k \in 1..n : Writable(a[k + 1]), NEW k \in 1..n
  PROVE  /\ f[k] \in Seq(Chars) /\ f[k - 1] \in Seq(Chars)
         /\ Keeps(jb.mod, a[k + 1]) =>
              Adds(f[k], f[k - 1], Apart(jb, k, f[k - 1]), Written(jb.mod, a[k + 1]))
         /\ ~ Keeps(jb.mod, a[k + 1]) => f[k] = f[k - 1]
<1>1. k \in 0..n /\ k - 1 \in 0..n
  OBVIOUS
<1>2. f[k] \in Seq(Chars) /\ f[k - 1] \in Seq(Chars)
  BY <1>1 DEF Grows
<1>3. f[k] = IF Keeps(jb.mod, a[k + 1])
               THEN f[k - 1] \o (Apart(jb, k, f[k - 1]) \o Written(jb.mod, a[k + 1]))
               ELSE f[k - 1]
  BY Zenon DEF Grows
<1>4. Apart(jb, k, f[k - 1]) \in Seq(Chars)
  BY DEF Apart
<1>5. Written(jb.mod, a[k + 1]) \in Seq(Chars)
  BY ReadBack
<1>6. ASSUME Keeps(jb.mod, a[k + 1])
      PROVE  Adds(f[k], f[k - 1], Apart(jb, k, f[k - 1]), Written(jb.mod, a[k + 1]))
  <2>1. f[k] = f[k - 1] \o (Apart(jb, k, f[k - 1]) \o Written(jb.mod, a[k + 1]))
    BY <1>3, <1>6, Zenon
  <2>2. QED
    BY <1>2, <1>4, <1>5, <2>1, JoinedAdds, Zenon
<1>7. QED
  BY <1>2, <1>3, <1>6

(* What has been laid after j elements is the beginning of the whole.      *)
LEMMA GrowsOn ==
  ASSUME NEW f, NEW jb, jb.sep \in Chars, NEW a, NEW n \in Nat, Grows(f, jb, a, n),
         \A k \in 1..n : Writable(a[k + 1]), NEW j \in 0..n
  PROVE  f[j] \in Seq(Chars) /\ f[n] \in Seq(Chars) /\ Len(f[j]) <= Len(f[n])
         /\ \A p \in 1..Len(f[j]) : f[n][p] = f[j][p]
<1> DEFINE Stays(k) == Len(f[j]) <= Len(f[k]) /\ \A p \in 1..Len(f[j]) : f[k][p] = f[j][p]
<1> DEFINE Bad == {k \in j..n : ~ Stays(k)}
<1>1. \A k \in 0..n : f[k] \in Seq(Chars)
  BY DEF Grows
<1>2. Bad = {}
  <2> SUFFICES ASSUME Bad # {} PROVE FALSE
    OBVIOUS
  <2>1. Bad \subseteq Nat
    OBVIOUS
  <2>2. PICK k \in Bad : \A l \in Bad : k <= l
    BY <2>1, Least
  <2>3. k \in j..n /\ ~ Stays(k)
    OBVIOUS
  <2>4. Stays(j)
    BY <1>1
  <2>5. k # j
    BY <2>3, <2>4
  <2>6. k - 1 \in j..n /\ k \in 1..n /\ ~ (k <= k - 1) /\ k - 1 \in 0..n
    BY <2>3, <2>5
  <2>7. Stays(k - 1)
    BY <2>2, <2>6
  <2>8. f[k] \in Seq(Chars) /\ f[k - 1] \in Seq(Chars) /\ f[j] \in Seq(Chars)
    BY <1>1, <2>6
  <2>9. Len(f[k - 1]) <= Len(f[k]) /\ \A p \in 1..Len(f[k - 1]) : f[k][p] = f[k - 1][p]
    <3>1. CASE Keeps(jb.mod, a[k + 1])
      <4>1. Adds(f[k], f[k - 1], Apart(jb, k, f[k - 1]), Written(jb.mod, a[k + 1]))
        BY <2>6, <3>1, GrowsStep
      <4> DEFINE u == Apart(jb, k, f[k - 1])
      <4> DEFINE w == Written(jb.mod, a[k + 1])
      <4>2. Adds(f[k], f[k - 1], u, w)
        BY <4>1
      <4> HIDE DEF u, w
      <4>3. Len(f[k]) = Len(f[k - 1]) + Len(u) + Len(w) /\ u \in Seq(Chars) /\ w \in Seq(Chars)
        BY <4>2 DEF Adds
      <4>4. Len(f[k - 1]) \in Nat /\ Len(u) \in Nat /\ Len(w) \in Nat
        BY <2>8, <4>3
      <4>5. Len(f[k - 1]) <= Len(f[k])
        BY <4>3, <4>4
      <4>6. QED
        BY <4>2, <4>5 DEF Adds
    <3>2. CASE ~ Keeps(jb.mod, a[k + 1])
      <4>1. f[k] = f[k - 1]
        BY <2>6, <3>2, GrowsStep
      <4>2. Len(f[k - 1]) \in Nat
        BY <2>8
      <4>3. QED
        BY <4>1, <4>2
    <3>3. QED
      BY <3>1, <3>2
  <2>10. \A p \in 1..Len(f[j]) : p \in 1..Len(f[k - 1])
    BY <2>7, <2>8
  <2>11. Len(f[j]) <= Len(f[k])
    BY <2>7, <2>8, <2>9
  <2>12. Stays(k)
    BY <2>7, <2>9, <2>10, <2>11
  <2>13. QED
    BY <2>3, <2>12
<1>3. n \in j..n /\ n \in 0..n
  OBVIOUS
<1>4. Stays(n)
  BY <1>2, <1>3
<1>5. QED
  BY <1>1, <1>3, <1>4

(* The elements with numbers in K are those kept, each written as in w.    *)
Writes(jb, a, n, K, w) ==
  /\ \A k \in 1..n : Writable(a[k + 1])
  /\ K \subseteq 1..n
  /\ \A k \in 1..n : k \in K <=> Keeps(jb.mod, a[k + 1])
  /\ \A k \in K : w[k] = Written(jb.mod, a[k + 1])

(* They stand in the text, with what parts them.                           *)
Stands(s, n, K, w) == \E o, L : Stand(s, {Amp, Comma}, n, K, w, o, L)

(* So they do, by what each of them adds.                                  *)
LEMMA GrowsStands ==
  ASSUME NEW f, NEW jb, jb.sep \in {Amp, Comma}, NEW a, NEW n \in Nat, Grows(f, jb, a, n),
         NEW K, NEW w, Writes(jb, a, n, K, w)
  PROVE  Stands(f[n], n, K, w)
<1> DEFINE u == [k \in 1..n |-> Apart(jb, k, f[k - 1])]
<1> DEFINE L == [k \in 0..n |-> Len(f[k])]
<1> DEFINE o == [k \in K |-> L[k - 1] + Len(u[k])]
<1>1. jb.sep \in Chars /\ Amp \in Chars /\ Comma \in Chars
  BY DEF Amp, Comma, Chars
<1>2. \A k \in 0..n : f[k] \in Seq(Chars) /\ L[k] = Len(f[k]) /\ L[k] \in Nat
  <2>1. \A k \in 0..n : f[k] \in Seq(Chars)
    BY DEF Grows
  <2>2. QED
    BY <2>1
<1>3. K \subseteq 1..n
  BY DEF Writes
<1>0. \A k \in 1..n : Writable(a[k + 1])
  BY DEF Writes
<1>4. \A k \in 1..n : k \in 0..n /\ k - 1 \in 0..n
  OBVIOUS
<1>5. ASSUME NEW k \in K
      PROVE  /\ Adds(f[k], f[k - 1], u[k], w[k])
             /\ w[k] \in Seq(Bare) /\ w[k] # <<>>
             /\ (u[k] = <<>> /\ f[k - 1] = <<>>) \/ u[k] = <<jb.sep>>
  <2>1. k \in 1..n /\ Keeps(jb.mod, a[k + 1]) /\ u[k] = Apart(jb, k, f[k - 1])
        /\ w[k] = Written(jb.mod, a[k + 1]) /\ Writable(a[k + 1])
    BY DEF Writes
  <2> HIDE DEF u
  <2>2. Adds(f[k], f[k - 1], Apart(jb, k, f[k - 1]), Written(jb.mod, a[k + 1]))
    BY <1>0, <1>1, <2>1, GrowsStep
  <2>3. Written(jb.mod, a[k + 1]) \in Seq(Bare) /\ Written(jb.mod, a[k + 1]) # <<>>
    BY <2>1, ReadBack
  <2>4. (u[k] = <<>> /\ f[k - 1] = <<>>) \/ u[k] = <<jb.sep>>
    <3>1. k = 1 => f[k - 1] = <<>>
      BY DEF Grows
    <3>2. QED
      BY <2>1, <3>1 DEF Apart
  <2>5. QED
    BY <2>1, <2>2, <2>3, <2>4
<1>6. \A k \in (1..n) \ K : f[k] = f[k - 1]
  <2>1. \A k \in (1..n) \ K : ~ Keeps(jb.mod, a[k + 1])
    BY DEF Writes
  <2>2. QED
    BY <1>0, <1>1, <2>1, GrowsStep
<1>7. f[0] = <<>>
  BY DEF Grows
<1>8. \A k \in 0..n : L[k] <= L[n] /\ \A p \in 1..L[k] : f[n][p] = f[k][p]
  <2>1. n \in 0..n
    OBVIOUS
  <2>2. ASSUME NEW k \in 0..n PROVE L[k] <= L[n] /\ \A p \in 1..L[k] : f[n][p] = f[k][p]
    <3>1. Len(f[k]) <= Len(f[n]) /\ \A p \in 1..Len(f[k]) : f[n][p] = f[k][p]
      BY <1>0, <1>1, GrowsOn
    <3>2. QED
      BY <1>2, <2>1, <3>1
  <2>3. QED
    BY <2>2
<1>9. L \in [0..n -> Nat] /\ \A k \in K : o[k] = L[k - 1] + Len(u[k])
  BY <1>2
<1> HIDE DEF u, L, o
<1>10. ASSUME NEW k \in K
       PROVE  /\ w[k] \in Seq(Chars)
              /\ o[k] \in Nat /\ L[k] = o[k] + Len(w[k]) /\ o[k] < L[k]
              /\ \/ o[k] = 0 /\ L[k - 1] = 0
                 \/ o[k] = L[k - 1] + 1 /\ f[n][o[k]] \in {Amp, Comma}
              /\ \A p \in 1..Len(w[k]) : f[n][o[k] + p] = w[k][p] /\ w[k][p] \notin {Amp, Comma}
  <2>1. k \in 0..n /\ k - 1 \in 0..n
    BY <1>3, <1>4
  <2>2. /\ f[k] \in Seq(Chars) /\ f[k - 1] \in Seq(Chars) /\ u[k] \in Seq(Chars) /\ w[k] \in Seq(Chars)
        /\ Len(f[k]) = Len(f[k - 1]) + Len(u[k]) + Len(w[k])
        /\ \A p \in 1..Len(u[k]) : f[k][Len(f[k - 1]) + p] = u[k][p]
        /\ \A p \in 1..Len(w[k]) : f[k][Len(f[k - 1]) + Len(u[k]) + p] = w[k][p]
    BY <1>5 DEF Adds
  <2>3. PICK x \in Nat : x = Len(u[k])
    <3>1. Len(u[k]) \in Nat
      BY <2>2
    <3>2. QED
      BY <3>1
  <2>4. PICK y \in Nat : y = Len(w[k])
    <3>1. Len(w[k]) \in Nat
      BY <2>2
    <3>2. QED
      BY <3>1
  <2>5. L[k] \in Nat /\ L[k - 1] \in Nat /\ L[k] = L[k - 1] + x + y /\ o[k] = L[k - 1] + x
        /\ Len(f[k - 1]) = L[k - 1]
    BY <1>2, <1>9, <2>1, <2>2, <2>3, <2>4
  <2>6. y # 0
    <3>1. w[k] # <<>>
      BY <1>5
    <3>2. QED
      BY <2>2, <2>4, <3>1
  <2>7. o[k] \in Nat /\ L[k] = o[k] + y /\ o[k] < L[k]
    BY <2>5, <2>6
  <2>8. \A p \in 1..L[k] : f[n][p] = f[k][p]
    BY <1>8, <2>1
  <2>9. (o[k] = 0 /\ L[k - 1] = 0) \/ (o[k] = L[k - 1] + 1 /\ f[n][o[k]] \in {Amp, Comma})
    <3>1. CASE u[k] = <<>> /\ f[k - 1] = <<>>
      <4>1. x = 0 /\ L[k - 1] = 0
        BY <2>3, <2>5, <3>1
      <4>2. QED
        BY <2>5, <4>1
    <3>2. CASE u[k] = <<jb.sep>>
      <4>1. x = 1 /\ u[k][1] = jb.sep /\ 1 \in 1..1
        BY <2>3, <3>2
      <4>2. f[k][L[k - 1] + 1] = jb.sep
        BY <2>2, <2>3, <2>5, <4>1
      <4>3. o[k] = L[k - 1] + 1 /\ o[k] \in 1..L[k]
        BY <2>5, <2>7, <4>1
      <4>4. f[n][o[k]] = jb.sep
        BY <2>8, <4>2, <4>3
      <4>5. QED
        BY <4>3, <4>4
    <3>3. QED
      BY <1>5, <3>1, <3>2
  <2>10. ASSUME NEW p \in 1..y PROVE f[n][o[k] + p] = w[k][p] /\ w[k][p] \notin {Amp, Comma}
    <3>1. f[k][o[k] + p] = w[k][p]
      BY <2>2, <2>3, <2>4, <2>5
    <3>2. o[k] + p \in 1..L[k]
      BY <2>7
    <3>3. f[n][o[k] + p] = w[k][p]
      BY <2>8, <3>1, <3>2
    <3>4. w[k][p] \in Bare
      BY <1>5, <2>4
    <3>5. QED
      BY <3>3, <3>4 DEF Bare
  <2>11. QED
    BY <2>2, <2>4, <2>7, <2>9, <2>10
<1>11. \A k \in (1..n) \ K : L[k] = L[k - 1]
  <2>1. \A k \in (1..n) \ K : k \in 0..n /\ k - 1 \in 0..n
    BY <1>4
  <2>2. QED
    BY <1>2, <1>6, <2>1
<1>12. L[0] = 0 /\ L[n] = Len(f[n])
  <2>1. 0 \in 0..n /\ n \in 0..n
    OBVIOUS
  <2>2. QED
    BY <1>2, <1>7, <2>1
<1>13. o \in [K -> Nat]
  <2>1. \A k \in K : L[k - 1] + Len(u[k]) \in Nat
    BY <1>9, <1>10
  <2>2. QED
    BY <2>1 DEF o
<1>14. Stand(f[n], {Amp, Comma}, n, K, w, o, L)
  <2>1. \A k \in K :
          /\ w[k] \in Seq(Chars)
          /\ L[k] = o[k] + Len(w[k]) /\ o[k] < L[k]
          /\ \/ o[k] = 0 /\ L[k - 1] = 0
             \/ o[k] = L[k - 1] + 1 /\ f[n][o[k]] \in {Amp, Comma}
          /\ \A p \in 1..Len(w[k]) : f[n][o[k] + p] = w[k][p] /\ w[k][p] \notin {Amp, Comma}
    BY <1>10, Zenon
  <2>2. L \in [0..n -> Nat]
    BY <1>9, Zenon
  <2>3. QED
    BY <1>3, <1>11, <1>12, <1>13, <2>1, <2>2, Zenon DEF Stand
<1>15. QED
  BY <1>14 DEF Stands

-----------------------------------------------------------------------------
(* Q has the parameters of the elements a[k + 1], k in K, each once.       *)
Lists(Q, a, K) ==
  /\ Q \in Seq(Params)
  /\ \E b \in [1..Len(Q) -> K] :
       /\ \A j \in 1..Len(Q) : Q[j] = ParamOf(a[b[j] + 1])
       /\ \A j, l \in 1..Len(Q) : b[j] = b[l] => j = l
       /\ \A k \in K : \E j \in 1..Len(Q) : b[j] = k

(* A text is read as the parameters that were written into it.             *)
LEMMA ReadAsWritten ==
  ASSUME NEW s, NEW jb, jb.sep \in {Amp, Comma}, NEW a, NEW n \in Nat, NEW f, Grows(f, jb, a, n),
         \A k \in 1..n : Writable(a[k + 1]), s = f[n]
  PROVE  Lists(Parameters(s), a, {k \in 1..n : Keeps(jb.mod, a[k + 1])})
<1> DEFINE K == {k \in 1..n : Keeps(jb.mod, a[k + 1])}
<1> DEFINE w == [k \in 1..n |-> Written(jb.mod, a[k + 1])]
<1> DEFINE P == Pieces(s, {Amp, Comma})
<1> DEFINE Q == Parameters(s)
<1>1. s \in Seq(Chars)
  <2>1. n \in 0..n
    OBVIOUS
  <2>2. QED
    BY <2>1 DEF Grows
<1>2. PICK o, L : Stand(s, {Amp, Comma}, n, K, w, o, L)
  <2>1. Stands(f[n], n, K, w)
    <3>1. Writes(jb, a, n, K, w)
      BY DEF Writes
    <3> HIDE DEF K, w
    <3>2. QED
      BY <3>1, GrowsStands
  <2>2. QED
    BY <2>1 DEF Stands
<1>3. \A k \in K : ReadAs(w[k]) = ParamOf(a[k + 1]) /\ ParamOf(a[k + 1]) \in Params
  <2> SUFFICES ASSUME NEW k \in K PROVE ReadAs(w[k]) = ParamOf(a[k + 1]) /\ ParamOf(a[k + 1]) \in Params
    OBVIOUS
  <2>1. k \in 1..n /\ Writable(a[k + 1]) /\ w[k] = Written(jb.mod, a[k + 1])
    OBVIOUS
  <2> HIDE DEF K, w
  <2>2. ReadAs(Written(jb.mod, a[k + 1])) = ParamOf(a[k + 1]) /\ ParamOf(a[k + 1]) \in Params
    BY <2>1, ReadBack
  <2>3. QED
    BY <2>1, <2>2
<1> HIDE DEF K, w
<1>4. PICK b \in [1..Len(P) -> K] :
        /\ \A j \in 1..Len(P) : P[j] = w[b[j]]
        /\ \A j, l \in 1..Len(P) : b[j] = b[l] => j = l
        /\ \A k \in K : \E j \in 1..Len(P) : b[j] = k
  <2>1. P = Pieces(s, {Amp, Comma})
    OBVIOUS
  <2>2. PICK m : m = {Amp, Comma}
    OBVIOUS
  <2> HIDE DEF P
  <2>3. Stand(s, m, n, K, w, o, L) /\ P = Pieces(s, m)
    BY <1>2, <2>1, <2>2
  <2>4. QED
    BY <1>1, <2>3, PiecesAreWords
<1>5. Len(P) \in Nat
  <2>1. P \in Seq(Seq(Chars))
    BY <1>1, PiecesOf
  <2>2. QED
    BY <2>1
<1>6. Q = [k \in 1..Len(P) |-> ReadAs(P[k])]
  BY DEF Parameters, ReadAs
<1> HIDE DEF P, Q
<1>7. \A j \in 1..Len(P) : Q[j] = ParamOf(a[b[j] + 1]) /\ Q[j] \in Params
  <2> SUFFICES ASSUME NEW j \in 1..Len(P)
               PROVE  Q[j] = ParamOf(a[b[j] + 1]) /\ Q[j] \in Params
    OBVIOUS
  <2>1. b[j] \in K /\ P[j] = w[b[j]]
    BY <1>4
  <2>2. Q[j] = ReadAs(P[j])
    BY <1>6
  <2>3. QED
    BY <1>3, <2>1, <2>2
<1>8. Q \in Seq(Params) /\ Len(Q) = Len(P)
  <2>1. Q \in [1..Len(P) -> Params]
    BY <1>6, <1>7
  <2>2. QED
    BY <1>5, <2>1
<1>9. Lists(Q, a, K)
  BY <1>4, <1>7, <1>8 DEF Lists
<1>10. QED
  BY <1>9 DEF Q, K

(* Two lists of different elements, one after the other.                   *)
LEMMA ListsBoth ==
  ASSUME NEW Q, NEW R, NEW a, NEW J, NEW K, Lists(Q, a, J), Lists(R, a, K), J \cap K = {}
  PROVE  Lists(Q \o R, a, J \cup K)
<1>1. Q \in Seq(Params) /\ R \in Seq(Params) /\ Len(Q) \in Nat /\ Len(R) \in Nat
  BY DEF Lists
<1>2. PICK b \in [1..Len(Q) -> J] :
        /\ \A j \in 1..Len(Q) : Q[j] = ParamOf(a[b[j] + 1])
        /\ \A j, l \in 1..Len(Q) : b[j] = b[l] => j = l
        /\ \A k \in J : \E j \in 1..Len(Q) : b[j] = k
  BY DEF Lists
<1>3. PICK c \in [1..Len(R) -> K] :
        /\ \A j \in 1..Len(R) : R[j] = ParamOf(a[c[j] + 1])
        /\ \A j, l \in 1..Len(R) : c[j] = c[l] => j = l
        /\ \A k \in K : \E j \in 1..Len(R) : c[j] = k
  BY DEF Lists
<1> DEFINE S == Q \o R
<1>4. /\ S \in Seq(Params) /\ Len(S) = Len(Q) + Len(R)
      /\ \A j \in 1..Len(Q) : S[j] = Q[j]
      /\ \A j \in 1..Len(R) : S[Len(Q) + j] = R[j]
  BY <1>1
<1> HIDE DEF S
<1> DEFINE d == [j \in 1..Len(S) |-> IF j <= Len(Q) THEN b[j] ELSE c[j - Len(Q)]]
<1>5. ASSUME NEW j \in 1..Len(S)
      PROVE  \/ j \in 1..Len(Q) /\ d[j] = b[j] /\ d[j] \in J
             \/ \E l \in 1..Len(R) : j = Len(Q) + l /\ d[j] = c[l] /\ d[j] \in K
  <2>1. CASE j <= Len(Q)
    <3>1. j \in 1..Len(Q) /\ d[j] = b[j]
      BY <1>1, <2>1
    <3>2. QED
      BY <1>2, <3>1
  <2>2. CASE ~ (j <= Len(Q))
    <3>1. d[j] = c[j - Len(Q)]
      BY <2>2
    <3> HIDE DEF d
    <3>2. PICK l \in 1..Len(R) : l = j - Len(Q) /\ j = Len(Q) + l
      <4>1. j - Len(Q) \in 1..Len(R) /\ j = Len(Q) + (j - Len(Q))
        BY <1>1, <1>4, <2>2
      <4>2. QED
        BY <4>1
    <3>3. d[j] = c[l] /\ c[l] \in K
      BY <1>3, <3>1, <3>2
    <3>4. QED
      BY <3>2, <3>3
  <2>3. QED
    BY <2>1, <2>2
<1>6. \A j \in 1..Len(Q) : j \in 1..Len(S) /\ d[j] = b[j]
  BY <1>1, <1>4
<1>7. \A l \in 1..Len(R) : Len(Q) + l \in 1..Len(S) /\ d[Len(Q) + l] = c[l]
  <2> SUFFICES ASSUME NEW l \in 1..Len(R)
               PROVE  Len(Q) + l \in 1..Len(S) /\ d[Len(Q) + l] = c[l]
    OBVIOUS
  <2>1. Len(Q) + l \in 1..Len(S) /\ ~ (Len(Q) + l <= Len(Q)) /\ (Len(Q) + l) - Len(Q) = l
    BY <1>1, <1>4
  <2>2. d[Len(Q) + l] = c[(Len(Q) + l) - Len(Q)]
    BY <2>1
  <2>3. QED
    BY <2>1, <2>2
<1>8. d \in [1..Len(S) -> J \cup K]
  <2>1. \A j \in 1..Len(S) : d[j] \in J \cup K
    BY <1>5
  <2>2. QED
    BY <2>1
<1> HIDE DEF d
<1>9. \A j \in 1..Len(S) : S[j] = ParamOf(a[d[j] + 1])
  <2> SUFFICES ASSUME NEW j \in 1..Len(S) PROVE S[j] = ParamOf(a[d[j] + 1])
    OBVIOUS
  <2>1. CASE j \in 1..Len(Q)
    <3>1. S[j] = Q[j] /\ d[j] = b[j] /\ Q[j] = ParamOf(a[b[j] + 1])
      BY <1>2, <1>4, <1>6, <2>1
    <3>2. QED
      BY <3>1
  <2>2. CASE \E l \in 1..Len(R) : j = Len(Q) + l
    <3>1. PICK l \in 1..Len(R) : j = Len(Q) + l
      BY <2>2
    <3>2. S[j] = R[l] /\ d[j] = c[l] /\ R[l] = ParamOf(a[c[l] + 1])
      BY <1>3, <1>4, <1>7, <3>1
    <3>3. QED
      BY <3>2
  <2>3. QED
    BY <1>5, <2>1, <2>2
<1>10. ASSUME NEW j \in 1..Len(S), NEW l \in 1..Len(S), d[j] = d[l] PROVE j = l
  <2>1. CASE d[j] \in J
    <3>1. d[j] \notin K /\ d[l] \notin K
      BY <1>10, <2>1
    <3>2. j \in 1..Len(Q) /\ d[j] = b[j] /\ l \in 1..Len(Q) /\ d[l] = b[l]
      BY <1>5, <3>1
    <3>3. QED
      BY <1>2, <1>10, <3>2
  <2>2. CASE d[j] \in K
    <3>1. d[j] \notin J /\ d[l] \notin J
      BY <1>10, <2>2
    <3>2. PICK x \in 1..Len(R) : j = Len(Q) + x /\ d[j] = c[x]
      BY <1>5, <3>1
    <3>3. PICK y \in 1..Len(R) : l = Len(Q) + y /\ d[l] = c[y]
      BY <1>5, <3>1
    <3>4. x = y
      BY <1>3, <1>10, <3>2, <3>3
    <3>5. QED
      BY <3>2, <3>3, <3>4
  <2>3. QED
    BY <1>8, <2>1, <2>2
<1>11. ASSUME NEW k \in J \cup K PROVE \E j \in 1..Len(S) : d[j] = k
  <2>1. CASE k \in J
    BY <1>2, <1>6, <2>1
  <2>2. CASE k \in K
    BY <1>3, <1>7, <2>2
  <2>3. QED
    BY <2>1, <2>2
<1>12. Lists(S, a, J \cup K)
  BY <1>4, <1>8, <1>9, <1>10, <1>11 DEF Lists
<1>13. QED
  BY <1>12 DEF S

(* A text that follows a URL is found behind the '?', and the URL before.  *)
Readable(a, n) ==
  a[1] \in Seq(Chars) /\ ~ Has(a[1], Mark) /\ \A k \in 1..n : Writable(a[k + 1])

(* The elements that are sent.                                             *)
KeptOf(jb, a, n) == {k \in 1..n : Keeps(jb.mod, a[k + 1])}

(* So the server gets the parameters of the elements that were kept.       *)
LEMMA LaidIsRead ==
  ASSUME NEW s, NEW jb, jb.sep \in {Amp, Comma}, jb.start \in {0, 1}, NEW a, NEW n \in Nat,
         Laid(s, jb, a, n), Readable(a, n)
  PROVE  /\ jb.start = 1 => Lists(Parameters(s), a, KeptOf(jb, a, n))
         /\ jb.start = 0 => /\ Lists(Parameters(After(s, Mark)), a, KeptOf(jb, a, n))
                            /\ Until(s, Mark) = a[1]
<1>0. a[1] \in Seq(Chars) /\ ~ Has(a[1], Mark) /\ \A k \in 1..n : Writable(a[k + 1])
  BY DEF Readable
<1> DEFINE K == {k \in 1..n : Keeps(jb.mod, a[k + 1])}
<1>1. PICK f : Grows(f, jb, a, n) /\ s = Opening(jb, a) \o f[n]
  BY DEF Laid
<1>2. f[n] \in Seq(Chars)
  <2>1. n \in 0..n
    OBVIOUS
  <2>2. QED
    BY <1>1, <2>1 DEF Grows
<1>3. Lists(Parameters(f[n]), a, K)
  BY <1>0, <1>1, ReadAsWritten
<1> HIDE DEF K
<1>4. CASE jb.start = 1
  <2>1. Opening(jb, a) = <<>>
    BY <1>4 DEF Opening
  <2>2. s = f[n]
    BY <1>1, <1>2, <2>1
  <2>3. QED
    BY <1>3, <1>4, <2>2 DEF K, KeptOf
<1>5. CASE jb.start = 0
  <2>1. Opening(jb, a) = Append(a[1], Mark)
    BY <1>5 DEF Opening
  <2>2. Mark \in Chars
    BY DEF Mark, Chars
  <2>3. Append(a[1], Mark) = a[1] \o <<Mark>>
    OBVIOUS
  <2>4. s = a[1] \o <<Mark>> \o f[n]
    BY <1>1, <2>1, <2>3
  <2>5. /\ Until(a[1] \o <<Mark>> \o f[n], Mark) = a[1]
        /\ After(a[1] \o <<Mark>> \o f[n], Mark) = f[n]
    BY <1>0, <1>2, <2>2, CutAt
  <2>6. Until(s, Mark) = a[1] /\ After(s, Mark) = f[n]
    BY <2>4, <2>5, Zenon
  <2>7. QED
    BY <1>3, <1>5, <2>6 DEF K, KeptOf
<1>6. QED
  BY <1>4, <1>5

(* The elements of the array that is sent can be written, and the URL      *)
(* has no '?' of its own.                                                  *)
LEMMA ResultIsWritable ==
  ASSUME WholeInv, pc = "returned", Plain(given)
  PROVE  /\ argc \in Nat /\ argc > 1 /\ argv \in Seq(Seq(Chars))
         /\ \A k \in 1..(argc - 1) : Writable(argv[k + 1])
         /\ argv[1] \in Seq(Chars) /\ ~ Has(argv[1], Mark)
<1>1. TypeOK /\ ArrayOK /\ WordsOK
  BY DEF WholeInv, IInv
<1>2. argv \in Seq(Seq(Chars)) /\ argc \in Nat /\ argc > 1
  <2>1. argv \in Seq(Seq(Chars)) /\ argc > 1
    BY <1>1 DEF TypeOK, WordsOK
  <2>2. QED
    BY <2>1 DEF argc
<1>3. argv[1] = given[1] /\ ~ Has(given[1], Mark)
  BY <1>1 DEF ArrayOK, Plain
<1>4. \A k \in 1..argc : argv[k] \in Seq(Chars)
  BY <1>2 DEF argc
<1>5. ASSUME NEW k \in 1..(argc - 1) PROVE Writable(argv[k + 1])
  <2>1. k + 1 \in 2..argc /\ k + 1 \in 1..argc
    BY <1>2
  <2>2. Has(argv[k + 1], Eq) \/ Escape(argv[k + 1]) = argv[k + 1]
    BY <1>1, <2>1 DEF ArrayOK
  <2>3. QED
    BY <1>4, <2>1, <2>2 DEF Writable
<1>6. 1 \in 1..argc
  BY <1>2
<1>7. QED
  BY <1>2, <1>3, <1>4, <1>5, <1>6

(* A string that was laid, read.                                           *)
LEMMA ReadFromSent ==
  ASSUME WholeInv, pc = "returned", Plain(given), NEW s, NEW mod, NEW sep \in {Amp, Comma},
         NEW start \in {0, 1}, Laid(s, Job(start, sep, mod), argv, argc - 1),
         NEW K, K = {k \in 1..(argc - 1) : Keeps(mod, argv[k + 1])}
  PROVE  /\ start = 1 => Lists(Parameters(s), argv, K)
         /\ start = 0 => Lists(Parameters(After(s, Mark)), argv, K) /\ Until(s, Mark) = argv[1]
<1> DEFINE jb == Job(start, sep, mod)
<1>1. jb.start = start /\ jb.sep = sep /\ jb.mod = mod
  BY DEF Job
<1> DEFINE n == argc - 1
<1>2. n \in Nat /\ (\A k \in 1..n : Writable(argv[k + 1])) /\ argv[1] \in Seq(Chars) /\ ~ Has(argv[1], Mark)
  BY ResultIsWritable
<1>3. Laid(s, jb, argv, n) /\ K = {k \in 1..n : Keeps(jb.mod, argv[k + 1])}
  BY <1>1
<1> HIDE DEF jb, n
<1>4. jb.sep \in {Amp, Comma} /\ jb.start \in {0, 1}
  BY <1>1
<1>5. K = KeptOf(jb, argv, n) /\ Readable(argv, n)
  BY <1>2, <1>3 DEF KeptOf, Readable
<1>6. /\ jb.start = 1 => Lists(Parameters(s), argv, KeptOf(jb, argv, n))
      /\ jb.start = 0 => /\ Lists(Parameters(After(s, Mark)), argv, KeptOf(jb, argv, n))
                         /\ Until(s, Mark) = argv[1]
  <2>1. n \in Nat /\ Laid(s, jb, argv, n) /\ Readable(argv, n)
    BY <1>2, <1>3, <1>5
  <2>2. QED
    BY <1>4, <2>1, LaidIsRead
<1>7. QED
  BY <1>1, <1>5, <1>6

(* A server reads every element of the array, once, and the URL.           *)
LEMMA EachIsSent ==
  ASSUME WholeInv, pc = "returned", Plain(given)
  PROVE  Lists(ParametersSent, argv, 1..(argc - 1)) /\ UrlSent = argv[1]
<1>1. call.form \in {"get", "post", "header"} /\ Amp \in {Amp, Comma} /\ Comma \in {Amp, Comma}
  <2>1. call.form \in Forms
    BY DEF WholeInv, IInv, TypeOK, Calls
  <2>2. QED
    BY <2>1, FormsAssumption
<1>2. Len(sent) = IF call.form = "header" THEN 2 ELSE 1
  BY DEF WholeInv, IInv, JobOK
<1>3. \A k \in 1..Len(sent) : Laid(sent[k], ResultJob(call.form, k), argv, argc - 1)
  BY DEF WholeInv, LaidOK
<1>4. sent \in Seq(Seq(Chars))
  BY DEF WholeInv, IInv, TypeOK
<1>5. {k \in 1..(argc - 1) : Keeps({}, argv[k + 1])} = 1..(argc - 1)
  BY DEF Keeps
<1>6. CASE call.form = "get"
  <2>1. Laid(sent[1], Job(0, Amp, {}), argv, argc - 1) /\ Last(sent) = sent[1]
    BY <1>2, <1>3, <1>4, <1>6 DEF ResultJob, Last
  <2>2. Lists(Parameters(After(sent[1], Mark)), argv, 1..(argc - 1)) /\ Until(sent[1], Mark) = argv[1]
    BY <1>1, <1>5, <2>1, ReadFromSent
  <2>3. ParametersSent = Parameters(After(sent[1], Mark)) /\ UrlSent = Until(sent[1], Mark)
    BY <1>6, <2>1 DEF ParametersSent, UrlSent
  <2>4. QED
    BY <2>2, <2>3
<1>7. CASE call.form = "post"
  <2>1. Laid(sent[1], Job(1, Amp, {}), argv, argc - 1)
    BY <1>2, <1>3, <1>7 DEF ResultJob
  <2>2. Lists(Parameters(sent[1]), argv, 1..(argc - 1))
    BY <1>1, <1>5, <2>1, ReadFromSent
  <2>3. ParametersSent = Parameters(sent[1]) /\ UrlSent = argv[1]
    BY <1>7 DEF ParametersSent, UrlSent
  <2>4. QED
    BY <2>2, <2>3
<1>8. CASE call.form = "header"
  <2>1. /\ Laid(sent[1], Job(1, Comma, {2, 4}), argv, argc - 1)
        /\ Laid(sent[2], Job(0, Amp, {1}), argv, argc - 1) /\ Last(sent) = sent[2]
    BY <1>2, <1>3, <1>4, <1>8 DEF ResultJob, Last
  <2> DEFINE J == {k \in 1..(argc - 1) : Keeps({2, 4}, argv[k + 1])}
  <2> DEFINE K == {k \in 1..(argc - 1) : Keeps({1}, argv[k + 1])}
  <2>2. J \cap K = {} /\ J \cup K = 1..(argc - 1)
    <3>1. \A e : Keeps({2, 4}, e) <=> ~ Keeps({1}, e)
      BY DEF Keeps
    <3>2. QED
      BY <3>1
  <2>3. Lists(Parameters(sent[1]), argv, J)
    BY <1>1, <2>1, ReadFromSent
  <2>4. Lists(Parameters(After(sent[2], Mark)), argv, K) /\ Until(sent[2], Mark) = argv[1]
    BY <1>1, <2>1, ReadFromSent
  <2> HIDE DEF J, K
  <2>5. Lists(Parameters(sent[1]) \o Parameters(After(sent[2], Mark)), argv, J \cup K)
    BY <2>2, <2>3, <2>4, ListsBoth
  <2>6. /\ ParametersSent = Parameters(sent[1]) \o Parameters(After(sent[2], Mark))
        /\ UrlSent = Until(sent[2], Mark)
    BY <1>8, <2>1 DEF ParametersSent, UrlSent
  <2>7. QED
    BY <2>2, <2>4, <2>5, <2>6
<1>9. QED
  BY <1>1, <1>6, <1>7, <1>8

(* A word among the elements is a parameter the server finds.              *)
LEMMA WordIsFound ==
  ASSUME WholeInv, pc = "returned", Plain(given), NEW m \in 2..argc,
         NEW key \in Chars \ {Eq}, NEW value \in Seq(Chars), argv[m] = Word(key, value)
  PROVE  Carried(value) \in ValuesOf(key)
<1>1. Lists(ParametersSent, argv, 1..(argc - 1)) /\ argc \in Nat
  BY EachIsSent, ResultIsWritable
<1> DEFINE Q == ParametersSent
<1> HIDE DEF Q
<1>2. PICK b \in [1..Len(Q) -> 1..(argc - 1)] :
        /\ \A j \in 1..Len(Q) : Q[j] = ParamOf(argv[b[j] + 1])
        /\ \A k \in 1..(argc - 1) : \E j \in 1..Len(Q) : b[j] = k
  BY <1>1 DEF Lists, Q
<1>3. m - 1 \in 1..(argc - 1) /\ (m - 1) + 1 = m
  BY <1>1
<1>4. PICK j \in 1..Len(Q) : b[j] = m - 1
  BY <1>2, <1>3
<1>5. Q[j] = ParamOf(Word(key, value))
  BY <1>2, <1>3, <1>4
<1>6. Q[j].name = <<key>> /\ Q[j].value = Carried(value)
  BY <1>5, WordIs DEF ParamOf
<1>7. QED
  BY <1>6 DEF ValuesOf, Q

(* The keys are words of the array, so the server finds them.              *)
LEMMA WholeInvKeys == WholeInv /\ pc = "returned" /\ Plain(given) => KeysArrive
<1> SUFFICES ASSUME WholeInv, pc = "returned", Plain(given)
             PROVE  /\ Carried(call.c_key) \in ValuesOf(ConsumerKey)
                    /\ call.t_key # NULL => Carried(call.t_key) \in ValuesOf(Token)
  BY DEF KeysArrive
<1>1. SignedCount = argc - 1 /\ argc \in Nat
  BY ResultIsWritable DEF SignedCount
<1>2. \A k \in 2..SignedCount : k \in 2..argc
  BY <1>1
<1>3. call.c_key \in Keys /\ call.t_key \in Tokens
  BY DEF WholeInv, IInv, TypeOK, Calls
<1>4. call.c_key \in Seq(Chars) /\ (call.t_key # NULL => call.t_key \in Seq(Chars))
  BY <1>3, StringsAssumption
<1>5. ConsumerKey \in Chars \ {Eq} /\ Token \in Chars \ {Eq}
  BY DEF ConsumerKey, Token, Chars, Eq
<1>6. Carried(call.c_key) \in ValuesOf(ConsumerKey)
  <2>1. PICK k \in 2..SignedCount : argv[k] = Word(ConsumerKey, call.c_key)
    BY DEF WholeInv, WordsOK
  <2>2. QED
    BY <1>2, <1>4, <1>5, <2>1, WordIsFound
<1>7. ASSUME call.t_key # NULL PROVE Carried(call.t_key) \in ValuesOf(Token)
  <2>1. PICK k \in 2..SignedCount : argv[k] = Word(Token, call.t_key)
    BY <1>7 DEF WholeInv, WordsOK
  <2>2. QED
    BY <1>2, <1>4, <1>5, <1>7, <2>1, WordIsFound
<1>8. QED
  BY <1>6, <1>7

-----------------------------------------------------------------------------
(* Two lists in the same order with the same members are the same list.    *)
InOrderOf(P, before, n) == \A k, m \in 1..n : k < m => <<P[m], P[k]>> \notin before

(* g gives the places 1..n other numbers, all different.                   *)
Renumbers(g, n) ==
  /\ g \in [1..n -> 1..n]
  /\ \A k, m \in 1..n : g[k] = g[m] => k = m

(* Each number is given.                                                   *)
Covers(g, n) == \A k \in 1..n : \E m \in 1..n : g[m] = k

(* R is P in another order.                                                *)
Relists(R, P, g, n) == \A k \in 1..n : R[k] = P[g[k]]

(* No member of one list comes behind its like in the other: those up to   *)
(* it would have too few places.                                           *)
LEMMA NotBehind ==
  ASSUME NEW n \in Nat, NEW S, NEW before, Orders(before, S),
         NEW P \in [1..n -> S], NEW R \in [1..n -> S],
         InOrderOf(P, before, n), InOrderOf(R, before, n),
         NEW g, Renumbers(g, n), Relists(R, P, g, n), NEW m \in 1..n
  PROVE  <<R[m], P[m]>> \notin before
<1> SUFFICES ASSUME <<R[m], P[m]>> \in before PROVE FALSE
  OBVIOUS
<1>1. ASSUME NEW k \in 1..m PROVE g[k] \in 1..(m - 1)
  <2>1. k \in 1..n /\ g[k] \in 1..n
    BY DEF Renumbers
  <2>2. R[k] = P[g[k]] /\ P[g[k]] \in S /\ R[m] \in S /\ P[m] \in S
    BY <2>1 DEF Relists
  <2>3. k = m \/ <<R[m], R[k]>> \notin before
    BY <2>1 DEF InOrderOf
  <2>4. ~ (g[k] < m)  => g[k] = m \/ <<P[g[k]], P[m]>> \notin before
    BY <2>1 DEF InOrderOf
  <2>5. /\ \A x \in S : <<x, x>> \notin before
        /\ \A x, y, z \in S : <<x, y>> \in before /\ <<y, z>> \in before => <<x, z>> \in before
        /\ \A x, y \in S : x = y \/ <<x, y>> \in before \/ <<y, x>> \in before
    BY Zenon DEF Orders
  <2>6. R[k] = R[m] \/ <<R[k], R[m]>> \in before
    BY <2>2, <2>3, <2>5, Zenon
  <2>7. <<P[g[k]], P[m]>> \in before
    BY <2>2, <2>5, <2>6, Zenon
  <2>8. g[k] # m
    BY <2>2, <2>5, <2>7, Zenon
  <2>9. g[k] < m
    BY <2>4, <2>7, <2>8
  <2>10. QED
    BY <2>1, <2>9
<1> DEFINE h == [k \in 1..m |-> g[k]]
<1>2. h \in [1..m -> 1..(m - 1)]
  BY <1>1
<1>3. IsFiniteSet(1..m) /\ IsFiniteSet(1..(m - 1)) /\ Cardinality(1..(m - 1)) < Cardinality(1..m)
  <2>1. 1 \in Int /\ m \in Int /\ m - 1 \in Int
    OBVIOUS
  <2>2. /\ IsFiniteSet(1..m) /\ Cardinality(1..m) = IF 1 > m THEN 0 ELSE m - 1 + 1
        /\ IsFiniteSet(1..(m - 1))
        /\ Cardinality(1..(m - 1)) = IF 1 > m - 1 THEN 0 ELSE (m - 1) - 1 + 1
    BY <2>1, FS_Interval
  <2>3. (IF 1 > m - 1 THEN 0 ELSE (m - 1) - 1 + 1) < (IF 1 > m THEN 0 ELSE m - 1 + 1)
    OBVIOUS
  <2>4. QED
    BY <2>2, <2>3
<1>4. PICK x \in 1..m, y \in 1..m : x # y /\ h[x] = h[y]
  <2> DEFINE T == 1..m
  <2> DEFINE U == 1..(m - 1)
  <2>1. h \in [T -> U] /\ IsFiniteSet(T) /\ IsFiniteSet(U) /\ Cardinality(U) < Cardinality(T)
    BY <1>2, <1>3
  <2> HIDE DEF h, T, U
  <2>2. \E x, y \in T : x # y /\ h[x] = h[y]
    BY <2>1, FS_PigeonHole
  <2>3. QED
    BY <2>2 DEF T
<1>5. x \in 1..n /\ y \in 1..n /\ g[x] = g[y]
  BY <1>4
<1>6. QED
  BY <1>4, <1>5 DEF Renumbers

(* So, both ways round, they have the same member at every place.          *)
LEMMA SameInOrder ==
  ASSUME NEW n \in Nat, NEW S, NEW before, Orders(before, S),
         NEW P \in [1..n -> S], NEW R \in [1..n -> S],
         InOrderOf(P, before, n), InOrderOf(R, before, n),
         NEW g, Renumbers(g, n), Covers(g, n), Relists(R, P, g, n)
  PROVE  \A m \in 1..n : R[m] = P[m]
<1> DEFINE h == [k \in 1..n |-> CHOOSE m \in 1..n : g[m] = k]
<1>1. \A k \in 1..n : h[k] \in 1..n /\ g[h[k]] = k
  BY DEF Covers
<1>2. h \in [1..n -> 1..n]
  BY <1>1
<1> HIDE DEF h
<1>3. Renumbers(h, n)
  <2>1. \A k, m \in 1..n : h[k] = h[m] => k = m
    BY <1>1
  <2>2. QED
    BY <1>2, <2>1 DEF Renumbers
<1>4. Relists(P, R, h, n)
  BY <1>1 DEF Relists
<1>5. ASSUME NEW m \in 1..n PROVE R[m] = P[m]
  <2>1. <<R[m], P[m]>> \notin before
    BY NotBehind
  <2>2. <<P[m], R[m]>> \notin before
    BY <1>3, <1>4, NotBehind
  <2>3. QED
    BY <2>1, <2>2, Zenon DEF Orders
<1>6. QED
  BY <1>5

(* Lists that renumber one another are of one length.                      *)
LEMMA SameSize ==
  ASSUME NEW m \in Nat, NEW n \in Nat, NEW g \in [1..m -> 1..n],
         \A k, l \in 1..m : g[k] = g[l] => k = l,
         \A k \in 1..n : \E l \in 1..m : g[l] = k
  PROVE  m = n
<1>1. /\ IsFiniteSet(1..m) /\ Cardinality(1..m) = IF 1 > m THEN 0 ELSE m - 1 + 1
      /\ Cardinality(1..n) = IF 1 > n THEN 0 ELSE n - 1 + 1
  <2>1. 1 \in Int /\ m \in Int /\ n \in Int
    OBVIOUS
  <2>2. QED
    BY <2>1, FS_Interval
<1>2. g \in Bijection(1..m, 1..n)
  BY DEF Bijection, Injection, Surjection, IsInjective
<1>3. Cardinality(1..n) = Cardinality(1..m)
  BY <1>1, <1>2, FS_Bijection DEF ExistsBijection
<1>4. QED
  BY <1>1, <1>3

(* The normalized parameters are those of the elements but the signature,  *)
(* the last of them, if these are in the server's order.                   *)
ParametersLess == {p \in Params \X Params : ParameterLess(p[1], p[2])}

(* The server's order, as a set of pairs.                                  *)
LEMMA ParametersOrdered ==
  /\ Orders(ParametersLess, Params)
  /\ \A p, q \in Params : <<p, q>> \in ParametersLess <=> ParameterLess(p, q)
<1>1. \A p, q \in Params : <<p, q>> \in ParametersLess <=> ParameterLess(p, q)
  BY DEF ParametersLess
<1>2. Orders(ParametersLess, Params)
  BY <1>1, ParameterOrder DEF Orders
<1>3. QED
  BY <1>1, <1>2

(* The n elements after the URL, in the server's order, and the            *)
(* signature.                                                              *)
ServerTakes(a, n) ==
  /\ \A k \in 1..n : Until(a[k + 1], Eq) # <<Signature>> /\ ParamOf(a[k + 1]) \in Params
  /\ Until(a[n + 2], Eq) = <<Signature>>
  /\ \A k, m \in 1..n : k < m => ~ ParameterLess(ParamOf(a[m + 1]), ParamOf(a[k + 1]))

(* Sorting the parameters puts back the order of the array, whatever       *)
(* order they were sent in.                                                *)
LEMMA NormalizedIs ==
  ASSUME NEW Q, NEW a, NEW n \in Nat, Lists(Q, a, 1..(n + 1)), ServerTakes(a, n)
  PROVE  Normalized(Q) =
           FlattenSeq([k \in 1..n |-> (IF k = 1 THEN <<>> ELSE <<Amp>>) \o Encoded(ParamOf(a[k + 1]))])
<1> DEFINE U == {k \in 1..Len(Q) : Q[k].name # <<Signature>>}
<1> DEFINE before == {p \in U \X U :
                        \/ ParameterLess(Q[p[1]], Q[p[2]])
                        \/ Q[p[1]] = Q[p[2]] /\ p[1] < p[2]}
<1> DEFINE at == InOrder(U, before)
<1> DEFINE c == Cardinality(U)
<1>1. Q \in Seq(Params) /\ Len(Q) \in Nat /\ \A k \in 1..Len(Q) : Q[k] \in Params
  BY DEF Lists
<1>2. PICK b \in [1..Len(Q) -> 1..(n + 1)] :
        /\ \A j \in 1..Len(Q) : Q[j] = ParamOf(a[b[j] + 1])
        /\ \A j, l \in 1..Len(Q) : b[j] = b[l] => j = l
        /\ \A k \in 1..(n + 1) : \E j \in 1..Len(Q) : b[j] = k
  BY DEF Lists
<1>3. Normalized(Q) = FlattenSeq([k \in 1..c |-> (IF k = 1 THEN <<>> ELSE <<Amp>>) \o Encoded(Q[at[k]])])
  BY DEF Normalized
<1>4. ASSUME NEW k \in 1..Len(Q) PROVE k \in U <=> b[k] \in 1..n
  <2>0. Q[k] = ParamOf(a[b[k] + 1])
    BY <1>2
  <2>1. Q[k].name = Until(a[b[k] + 1], Eq)
    BY <2>0 DEF ParamOf
  <2>2. b[k] \in 1..n => Until(a[b[k] + 1], Eq) # <<Signature>>
    BY DEF ServerTakes
  <2>3. b[k] \notin 1..n => b[k] + 1 = n + 2
    <3>1. b[k] \in 1..(n + 1)
      BY <1>2
    <3>2. QED
      BY <3>1
  <2>4. b[k] \notin 1..n => Until(a[b[k] + 1], Eq) = <<Signature>>
    BY <2>3 DEF ServerTakes
  <2>5. QED
    BY <2>1, <2>2, <2>4
<1>5. U \subseteq 1..Len(Q) /\ \A j, k \in U :
        <<j, k>> \in before <=> ParameterLess(Q[j], Q[k]) \/ (Q[j] = Q[k] /\ j < k)
  OBVIOUS
<1>6. IsFiniteSet(U)
  <2>1. IsFiniteSet(1..Len(Q))
    BY <1>1, FS_Interval
  <2> HIDE DEF U
  <2>2. QED
    BY <1>5, <2>1, FS_Subset
<1> HIDE DEF U, before, at, c
<1>7. Orders(before, U)
  <2>0. \A k \in U : k \in Nat /\ Q[k] \in Params
    BY <1>1, <1>5
  <2>1. ASSUME NEW x \in U PROVE <<x, x>> \notin before
    BY <1>5, <2>0, ParameterOrder
  <2>2. ASSUME NEW x \in U, NEW y \in U, NEW z \in U, <<x, y>> \in before, <<y, z>> \in before
        PROVE  <<x, z>> \in before
    <3>1. x \in Nat /\ y \in Nat /\ z \in Nat /\ Q[x] \in Params /\ Q[y] \in Params /\ Q[z] \in Params
      BY <2>0
    <3>2. x < y /\ y < z => x < z
      BY <3>1
    <3>3. /\ ParameterLess(Q[x], Q[y]) \/ (Q[x] = Q[y] /\ x < y)
          /\ ParameterLess(Q[y], Q[z]) \/ (Q[y] = Q[z] /\ y < z)
      BY <1>5, <2>2, Zenon
    <3>4. ParameterLess(Q[x], Q[z]) \/ (Q[x] = Q[z] /\ x < z)
      BY <3>1, <3>2, <3>3, ParameterOrder, Zenon
    <3>5. QED
      BY <1>5, <3>4, Zenon
  <2>3. ASSUME NEW x \in U, NEW y \in U PROVE x = y \/ <<x, y>> \in before \/ <<y, x>> \in before
    <3>1. x \in Nat /\ y \in Nat /\ Q[x] \in Params /\ Q[y] \in Params
      BY <2>0
    <3>2. x = y \/ x < y \/ y < x
      BY <3>1
    <3>3. Q[x] = Q[y] \/ ParameterLess(Q[x], Q[y]) \/ ParameterLess(Q[y], Q[x])
      BY <3>1, ParameterOrder, Zenon
    <3>4. QED
      BY <1>5, <3>2, <3>3, Zenon
  <2>4. QED
    BY <2>1, <2>2, <2>3 DEF Orders
<1>8. /\ c \in Nat /\ at \in [1..c -> U]
      /\ \A x \in U : \E k \in 1..c : at[k] = x
      /\ \A k, m \in 1..c : k < m => <<at[k], at[m]>> \in before
      /\ \A k, m \in 1..c : at[k] = at[m] => k = m
  BY <1>6, <1>7, InOrderIsABijection DEF at, c
<1> DEFINE g == [k \in 1..c |-> b[at[k]]]
<1>9. /\ g \in [1..c -> 1..n]
      /\ \A k, m \in 1..c : g[k] = g[m] => k = m
      /\ \A k \in 1..n : \E m \in 1..c : g[m] = k
  <2>1. \A k \in 1..c : at[k] \in U /\ at[k] \in 1..Len(Q) /\ b[at[k]] \in 1..n
    BY <1>4, <1>5, <1>8
  <2>2. \A k, m \in 1..c : g[k] = g[m] => k = m
    <3> SUFFICES ASSUME NEW k \in 1..c, NEW m \in 1..c, g[k] = g[m] PROVE k = m
      OBVIOUS
    <3>1. b[at[k]] = b[at[m]]
      OBVIOUS
    <3>2. at[k] = at[m]
      BY <1>2, <2>1, <3>1
    <3>3. QED
      BY <1>8, <3>2
  <2>3. ASSUME NEW k \in 1..n PROVE \E m \in 1..c : g[m] = k
    <3>1. k \in 1..(n + 1)
      OBVIOUS
    <3>2. PICK j \in 1..Len(Q) : b[j] = k
      BY <1>2, <3>1
    <3>3. j \in U
      BY <1>4, <3>2
    <3>4. PICK m \in 1..c : at[m] = j
      BY <1>8, <3>3
    <3>5. g[m] = k
      BY <3>2, <3>4
    <3>6. QED
      BY <3>5
  <2>4. g \in [1..c -> 1..n]
    BY <2>1
  <2>5. QED
    BY <2>2, <2>3, <2>4
<1>10. c = n
  <2> HIDE DEF g
  <2>1. QED
    BY <1>8, <1>9, SameSize
<1> DEFINE R == [k \in 1..n |-> Q[at[k]]]
<1> DEFINE P == [k \in 1..n |-> ParamOf(a[k + 1])]
<1>11. ASSUME NEW k \in 1..n
       PROVE  at[k] \in 1..Len(Q) /\ Q[at[k]] \in Params /\ R[k] = Q[at[k]] /\ R[k] = P[g[k]]
  <2>1. at[k] \in 1..Len(Q) /\ g[k] \in 1..n /\ g[k] = b[at[k]]
    BY <1>5, <1>8, <1>9, <1>10
  <2>2. Q[at[k]] = ParamOf(a[b[at[k]] + 1]) /\ Q[at[k]] \in Params
    BY <1>1, <1>2, <2>1
  <2>3. P[g[k]] = ParamOf(a[g[k] + 1])
    BY <2>1
  <2>4. QED
    BY <2>1, <2>2, <2>3
<1>12. P \in [1..n -> Params] /\ \A k \in 1..n : P[k] = ParamOf(a[k + 1])
  BY DEF ServerTakes
<1>13. R \in [1..n -> Params]
  BY <1>11
<1> HIDE DEF g, R, P
<1>14. Renumbers(g, n)
  BY <1>9, <1>10 DEF Renumbers
<1>15. InOrderOf(P, ParametersLess, n)
  <2>1. ASSUME NEW k \in 1..n, NEW m \in 1..n, k < m PROVE <<P[m], P[k]>> \notin ParametersLess
    <3>1. ~ ParameterLess(P[m], P[k]) /\ P[m] \in Params /\ P[k] \in Params
      BY <1>12, <2>1 DEF ServerTakes
    <3>2. QED
      BY <3>1, ParametersOrdered
  <2>2. QED
    BY <2>1 DEF InOrderOf
<1>16. InOrderOf(R, ParametersLess, n)
  <2>1. ASSUME NEW k \in 1..n, NEW m \in 1..n, k < m PROVE <<R[m], R[k]>> \notin ParametersLess
    <3>1. <<at[k], at[m]>> \in before /\ at[k] \in U /\ at[m] \in U
      BY <1>8, <1>10, <2>1
    <3>2. R[k] = Q[at[k]] /\ R[m] = Q[at[m]] /\ R[k] \in Params /\ R[m] \in Params
      BY <1>11
    <3>3. ParameterLess(R[k], R[m]) \/ R[k] = R[m]
      BY <1>5, <3>1, <3>2
    <3>4. ~ ParameterLess(R[m], R[k])
      BY <3>2, <3>3, ParameterOrder, Zenon
    <3>5. QED
      BY <3>2, <3>4, ParametersOrdered
  <2>2. QED
    BY <2>1 DEF InOrderOf
<1>17. \A k \in 1..n : R[k] = P[k]
  <2>1. Covers(g, n) /\ Relists(R, P, g, n)
    BY <1>9, <1>10, <1>11 DEF Covers, Relists
  <2>2. Orders(ParametersLess, Params)
    BY ParametersOrdered
  <2>3. QED
    BY <1>12, <1>13, <1>14, <1>15, <1>16, <2>1, <2>2, SameInOrder
<1>18. \A k \in 1..n : Q[at[k]] = ParamOf(a[k + 1])
  BY <1>11, <1>12, <1>17
<1>19. [k \in 1..n |-> (IF k = 1 THEN <<>> ELSE <<Amp>>) \o Encoded(Q[at[k]])] =
       [k \in 1..n |-> (IF k = 1 THEN <<>> ELSE <<Amp>>) \o Encoded(ParamOf(a[k + 1]))]
  BY <1>18
<1>20. QED
  BY <1>3, <1>10, <1>19

(* What is laid from an array without a URL is its elements, encoded.      *)
LEMMA LaidIsEncoded ==
  ASSUME NEW s, NEW a, NEW n \in Nat, Laid(s, Job(1, Amp, {}), a, n),
         \A k \in 1..n : Writable(a[k + 1])
  PROVE  s = FlattenSeq([k \in 1..n |-> (IF k = 1 THEN <<>> ELSE <<Amp>>) \o Encoded(ParamOf(a[k + 1]))])
<1> DEFINE jb == Job(1, Amp, {})
<1> DEFINE w == [k \in 1..n |-> (IF k = 1 THEN <<>> ELSE <<Amp>>) \o Encoded(ParamOf(a[k + 1]))]
<1>1. jb.start = 1 /\ jb.sep = Amp /\ jb.mod = {}
  BY DEF Job
<1>2. PICK f : Grows(f, jb, a, n) /\ s = Opening(jb, a) \o f[n]
  BY DEF Laid
<1> HIDE DEF jb
<1>3. /\ f \in [0..n -> Seq(Chars)] /\ f[0] = <<>>
      /\ \A k \in 1..n :
           f[k] = IF Keeps(jb.mod, a[k + 1])
                    THEN f[k - 1] \o (Apart(jb, k, f[k - 1]) \o Written(jb.mod, a[k + 1]))
                    ELSE f[k - 1]
  BY <1>2, Zenon DEF Grows
<1>4. ASSUME NEW k \in 1..n
      PROVE  /\ w[k] = Apart(jb, k, f[k - 1]) \o Written({}, a[k + 1])
             /\ w[k] \in Seq(Chars)
  <2>1. Written({}, a[k + 1]) \in Seq(Chars) /\ Written({}, a[k + 1]) = Encoded(ParamOf(a[k + 1]))
    BY ReadBack
  <2>2. Apart(jb, k, f[k - 1]) = IF k = 1 THEN <<>> ELSE <<Amp>>
    BY <1>1 DEF Apart
  <2>3. (IF k = 1 THEN <<>> ELSE <<Amp>>) \in Seq(Chars)
    BY DEF Amp, Chars
  <2>4. w[k] = (IF k = 1 THEN <<>> ELSE <<Amp>>) \o Encoded(ParamOf(a[k + 1]))
    OBVIOUS
  <2> HIDE DEF w
  <2>5. w[k] = Apart(jb, k, f[k - 1]) \o Written({}, a[k + 1])
    BY <2>1, <2>2, <2>4
  <2>6. Apart(jb, k, f[k - 1]) \in Seq(Chars)
    BY <2>2, <2>3
  <2>7. QED
    BY <2>1, <2>5, <2>6
<1>5. w \in [1..n -> Seq(Chars)]
  BY <1>4
<1> HIDE DEF w
<1>6. Gathers(f, w, n)
  <2>1. ASSUME NEW k \in 1..n PROVE f[k] = f[k - 1] \o w[k]
    <3>1. Keeps(jb.mod, a[k + 1])
      BY <1>1 DEF Keeps
    <3>2. f[k] = f[k - 1] \o (Apart(jb, k, f[k - 1]) \o Written(jb.mod, a[k + 1]))
      BY <1>3, <3>1, Zenon
    <3>3. QED
      BY <1>1, <1>4, <3>2
  <2>2. QED
    BY <1>3, <2>1 DEF Gathers
<1>7. FlattenSeq(w) = f[n]
  BY <1>3, <1>5, <1>6, Flattened
<1>8. s = f[n]
  <2>1. Opening(jb, a) = <<>>
    BY <1>1 DEF Opening
  <2>2. n \in 0..n
    OBVIOUS
  <2>3. f[n] \in Seq(Chars)
    BY <1>3, <2>2
  <2>4. QED
    BY <1>2, <2>1, <2>3
<1>9. QED
  BY <1>7, <1>8 DEF w

(* What the server puts together is what was signed, and it finds the      *)
(* signature.                                                              *)
LEMMA WholeInvVerified == WholeInv => ServerVerifies
<1> SUFFICES ASSUME WholeInv, pc = "returned", Plain(given)
             PROVE  /\ UrlSent = base.url
                    /\ Normalized(ParametersSent) = base.query
                    /\ Carried(sign) \in ValuesOf(Signature)
                    /\ KeysArrive
  BY DEF ServerVerifies
<1> DEFINE n == argc - 2
<1>1. /\ n \in Nat /\ argc = n + 2 /\ argc \in Nat /\ SignedCount = n + 1
      /\ \A k \in 1..n : Writable(argv[k + 1])
  <2>1. argc \in Nat /\ argc > 1 /\ \A k \in 1..(argc - 1) : Writable(argv[k + 1])
    BY ResultIsWritable
  <2>2. n \in Nat /\ argc = n + 2 /\ argc - 1 = n + 1
    BY <2>1
  <2>3. SignedCount = argc - 1
    BY DEF SignedCount
  <2> HIDE DEF n
  <2>4. \A k \in 1..n : k \in 1..(argc - 1)
    BY <2>2
  <2>5. QED
    BY <2>1, <2>2, <2>3, <2>4
<1>2. base.url = argv[1] /\ Laid(base.query, Job(1, Amp, {}), argv, n)
  BY DEF WholeInv, LaidOK
<1>3. Lists(ParametersSent, argv, 1..(argc - 1)) /\ UrlSent = argv[1]
  BY EachIsSent
<1> HIDE DEF n
<1>4. Lists(ParametersSent, argv, 1..(n + 1))
  <2>1. argc - 1 = n + 1
    BY <1>1
  <2>2. QED
    BY <1>3, <2>1
<1>5. sign \in Seq(Chars) /\ Signature \in Chars \ {Eq} /\ Len(sign) \in Nat
  <2>1. sign \in Seq(Chars)
    BY DEF WholeInv, IInv, TypeOK
  <2>2. QED
    BY <2>1 DEF Signature, Chars, Eq
<1>6. argv[argc] = Word(Signature, sign)
  BY DEF WholeInv, WordsOK
<1>7. ServerTakes(argv, n)
  <2>1. ASSUME NEW k \in 1..n
        PROVE  Until(argv[k + 1], Eq) # <<Signature>> /\ ParamOf(argv[k + 1]) \in Params
    <3>1. k + 1 \in 2..SignedCount
      BY <1>1
    <3>2. Until(argv[k + 1], Eq) # <<Signature>>
      BY <3>1 DEF WholeInv, WordsOK
    <3>3. QED
      BY <1>1, <3>2, ReadBack
  <2>2. Until(argv[n + 2], Eq) = <<Signature>>
    BY <1>1, <1>5, <1>6, WordIs
  <2>3. ASSUME NEW k \in 1..n, NEW m \in 1..n, k < m
        PROVE  ~ ParameterLess(ParamOf(argv[m + 1]), ParamOf(argv[k + 1]))
    <3>1. k + 1 \in 2..SignedCount /\ m + 1 \in 2..SignedCount /\ k + 1 < m + 1
      BY <1>1, <2>3
    <3>2. ~ Precedes(argv[m + 1], argv[k + 1])
      BY <3>1 DEF WholeInv, InPlaceOK
    <3>3. argv[k + 1] \in Seq(Chars) /\ argv[m + 1] \in Seq(Chars)
      BY <1>1 DEF Writable
    <3>4. QED
      BY <3>2, <3>3, ServerOrder
  <2>4. QED
    BY <2>1, <2>2, <2>3 DEF ServerTakes
<1>8. Normalized(ParametersSent) = base.query
  <2> DEFINE w == [k \in 1..n |-> (IF k = 1 THEN <<>> ELSE <<Amp>>) \o Encoded(ParamOf(argv[k + 1]))]
  <2>1. Normalized(ParametersSent) = FlattenSeq(w)
    BY <1>1, <1>4, <1>7, NormalizedIs
  <2>2. base.query = FlattenSeq(w)
    BY <1>1, <1>2, LaidIsEncoded
  <2>3. QED
    BY <2>1, <2>2
<1>9. Carried(sign) \in ValuesOf(Signature)
  <2>1. argc \in 2..argc
    BY <1>1
  <2>2. QED
    BY <1>5, <1>6, <2>1, WordIsFound
<1>10. KeysArrive
  BY WholeInvKeys
<1>11. QED
  BY <1>2, <1>3, <1>8, <1>9, <1>10

-----------------------------------------------------------------------------
(* The keys are read by the server as they were given, whatever            *)
(* characters they have, down to the last that oarg has room for           *)
(* (oauth_add_protocol, oauth.c:764-785): for plain arrays of every        *)
(* length, every way of sending, and any number of signings.               *)
THEOREM KeysComeThrough == Spec => [](pc = "returned" /\ Plain(given) => KeysArrive)
<1>1. WholeInv => (pc = "returned" /\ Plain(given) => KeysArrive)
  BY WholeInvKeys
<1>2. QED
  BY <1>1, SpecWholeInv, PTL

(* A server that takes the request apart and puts the base string          *)
(* together from it gets the string that was signed, and the signature or  *)
(* what oarg holds of it (oauth_sign_array2_process and                    *)
(* oauth_serialize_url_sep, oauth.c:865-917 and 520-598).                  *)
THEOREM ServerReads == Spec => []ServerVerifies
<1>1. WholeInv => ServerVerifies
  BY WholeInvVerified
<1>2. QED
  BY <1>1, SpecWholeInv, PTL

=============================================================================
