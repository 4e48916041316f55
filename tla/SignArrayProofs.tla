-------------------------- MODULE SignArrayProofs --------------------------
(***************************************************************************)
(* Proofs about signing: the comparison that is given to qsort is an order *)
(* and puts every array into it, protocol parameters are added once, and   *)
(* what is serialized fits and is separated, for arrays, keys and strings  *)
(* of every length and any number of signings.                             *)
(***************************************************************************)
EXTENDS SignArray, FiniteSetTheorems, WellFoundedInduction, TLAPS

(* A set of numbers has a least one.                                       *)
LEMMA Least ==
  ASSUME NEW T, T \subseteq Nat, T # {}
  PROVE  \E m \in T : \A k \in T : m <= k
<1> DEFINE R == OpToRel(<, Nat)
<1>1. IsWellFoundedOn(R, Nat)
  BY NatLessThanWellFounded
<1>2. \A k \in Nat, m \in Nat : k < m => <<k, m>> \in R
  BY DEF OpToRel
<1> HIDE DEF R
<1>3. PICK m \in T : \A k \in T : ~ (<<k, m>> \in R)
  BY <1>1, WFMin
<1>4. \A k \in T : m \in Nat /\ k \in Nat /\ ~ (k < m)
  BY <1>2, <1>3
<1>5. \A k \in T : m <= k
  BY <1>4
<1>6. QED
  BY <1>5

-----------------------------------------------------------------------------
(* InOrder puts every finite set into any strict total order.              *)
Orders(before, S) ==
  /\ \A x \in S : <<x, x>> \notin before
  /\ \A x, y, z \in S : <<x, y>> \in before /\ <<y, z>> \in before => <<x, z>> \in before
  /\ \A x, y \in S : x = y \/ <<x, y>> \in before \/ <<y, x>> \in before

LEMMA RanksDiffer ==
  ASSUME NEW S, IsFiniteSet(S), NEW before, Orders(before, S)
  PROVE  LET rank(x) == Cardinality({y \in S : <<y, x>> \in before}) IN
         /\ \A x \in S : rank(x) \in 0..(Cardinality(S) - 1)
         /\ \A x, y \in S : <<x, y>> \in before => rank(x) < rank(y)
<1> DEFINE Prior == [x \in S |-> {y \in S : <<y, x>> \in before}]
<1>1. ASSUME NEW x \in S
      PROVE  /\ IsFiniteSet(Prior[x]) /\ x \notin Prior[x]
             /\ IsFiniteSet(Prior[x] \cup {x})
             /\ Cardinality(Prior[x]) \in Nat
             /\ Cardinality(Prior[x] \cup {x}) = Cardinality(Prior[x]) + 1
  <2>1. Prior[x] \in SUBSET S /\ x \notin Prior[x]
    BY DEF Orders
  <2> HIDE DEF Prior
  <2>2. IsFiniteSet(Prior[x])
    BY <2>1, FS_Subset
  <2>3. QED
    BY <2>1, <2>2, FS_AddElement, FS_CardinalityType
<1>2. ASSUME NEW x \in S, NEW y \in S, <<x, y>> \in before
      PROVE  Cardinality(Prior[x]) < Cardinality(Prior[y])
  <2>1. Prior[x] \cup {x} \in SUBSET Prior[y]
    BY <1>2 DEF Orders
  <2> HIDE DEF Prior
  <2>2. Cardinality(Prior[x] \cup {x}) <= Cardinality(Prior[y])
    BY <1>1, <2>1, FS_Subset
  <2>3. /\ Cardinality(Prior[x]) \in Nat /\ Cardinality(Prior[y]) \in Nat
        /\ Cardinality(Prior[x] \cup {x}) = Cardinality(Prior[x]) + 1
    BY <1>1, Zenon
  <2>4. \A k, l, m \in Nat : l = k + 1 /\ l <= m => k < m
    OBVIOUS
  <2>5. Cardinality(Prior[x] \cup {x}) \in Nat
    BY <2>3
  <2>6. QED
    BY <2>2, <2>3, <2>4, <2>5, Zenon
<1>3. ASSUME NEW x \in S PROVE Cardinality(Prior[x]) \in 0..(Cardinality(S) - 1)
  <2>1. Prior[x] \cup {x} \in SUBSET S
    OBVIOUS
  <2> HIDE DEF Prior
  <2>2. Cardinality(Prior[x] \cup {x}) <= Cardinality(S) /\ Cardinality(S) \in Nat
    BY <2>1, FS_Subset, FS_CardinalityType
  <2>3. QED
    BY <1>1, <2>2
<1>4. QED
  BY <1>2, <1>3

LEMMA InOrderIsABijection ==
  ASSUME NEW S, IsFiniteSet(S), NEW before, Orders(before, S)
  PROVE  LET at == InOrder(S, before) IN
         /\ Cardinality(S) \in Nat
         /\ at \in [1..Cardinality(S) -> S]
         /\ \A x \in S : \E n \in 1..Cardinality(S) : at[n] = x
         /\ \A m, n \in 1..Cardinality(S) : m < n => <<at[m], at[n]>> \in before
         /\ \A m, n \in 1..Cardinality(S) : at[m] = at[n] => m = n
<1> DEFINE rank == [x \in S |-> Cardinality({y \in S : <<y, x>> \in before})]
<1> DEFINE c == Cardinality(S)
<1> DEFINE at == InOrder(S, before)
<1>1. c \in Nat /\ IsFiniteSet(0..(c - 1)) /\ Cardinality(0..(c - 1)) = c
  <2>1. c \in Nat
    BY FS_CardinalityType
  <2> HIDE DEF c
  <2>2. 0 \in Int /\ c - 1 \in Int
    BY <2>1
  <2>3. /\ IsFiniteSet(0..(c - 1))
        /\ Cardinality(0..(c - 1)) = IF 0 > c - 1 THEN 0 ELSE c - 1 - 0 + 1
    BY <2>2, FS_Interval
  <2>4. QED
    BY <2>1, <2>3
<1>2. /\ rank \in [S -> 0..(c - 1)]
      /\ \A x, y \in S : <<x, y>> \in before => rank[x] < rank[y]
  BY RanksDiffer
<1>3. /\ \A n \in 1..c : at[n] = CHOOSE x \in S : rank[x] = n - 1
      /\ (\A n \in 1..c : at[n] \in S) => at \in [1..c -> S]
  <2> DEFINE ranks == {<<x, Cardinality({y \in S : <<y, x>> \in before})>> : x \in S}
  <2> DEFINE f == [n \in 1..c |-> CHOOSE x \in S : <<x, n - 1>> \in ranks]
  <2>1. \A x \in S : \A n : <<x, n>> \in ranks <=> rank[x] = n
    OBVIOUS
  <2>2. at = f
    BY DEF InOrder
  <2> HIDE DEF ranks, rank, c, at
  <2>3. (\A n \in 1..c : f[n] \in S) => f \in [1..c -> S]
    OBVIOUS
  <2>4. \A n \in 1..c : f[n] = CHOOSE x \in S : rank[x] = n - 1
    BY <2>1
  <2> HIDE DEF f
  <2>5. QED
    BY <2>2, <2>3, <2>4
<1> HIDE DEF rank, c, at
<1>5. ASSUME NEW x \in S, NEW y \in S, rank[x] = rank[y] PROVE x = y
  <2>1. rank[x] \in Int /\ rank[y] \in Int
    BY <1>1, <1>2
  <2>2. <<x, y>> \notin before /\ <<y, x>> \notin before
    BY <1>2, <1>5, <2>1
  <2>3. QED
    BY <2>2, Zenon DEF Orders
<1>6. rank \in Injection(S, 0..(c - 1))
  BY <1>2, <1>5 DEF Injection, IsInjective
<1>7. rank \in Surjection(S, 0..(c - 1))
  BY <1>1, <1>6, FS_Injection DEF c
<1>8. \A n \in 1..c : \E x \in S : rank[x] = n - 1
  <2>1. \A n \in 1..c : n - 1 \in 0..(c - 1)
    BY <1>1
  <2>2. QED
    BY <1>7, <2>1 DEF Surjection
<1>9. \A n \in 1..c : at[n] \in S /\ rank[at[n]] = n - 1
  BY <1>3, <1>8
<1>10. at \in [1..c -> S]
  BY <1>3, <1>9
<1>11. \A x \in S : \E n \in 1..c : at[n] = x
  <2> SUFFICES ASSUME NEW x \in S PROVE \E n \in 1..c : at[n] = x
    OBVIOUS
  <2>1. rank[x] + 1 \in 1..c /\ (rank[x] + 1) - 1 = rank[x]
    BY <1>1, <1>2
  <2>2. at[rank[x] + 1] = x
    BY <1>5, <1>9, <2>1
  <2>3. QED
    BY <2>1, <2>2
<1>12. \A m, n \in 1..c : at[m] = at[n] => m = n
  BY <1>1, <1>9
<1>13. ASSUME NEW m \in 1..c, NEW n \in 1..c, m < n PROVE <<at[m], at[n]>> \in before
  <2>1. rank[at[m]] = m - 1 /\ rank[at[n]] = n - 1 /\ at[m] \in S /\ at[n] \in S
    BY <1>9
  <2>2. ~ (rank[at[n]] < rank[at[m]]) /\ at[m] # at[n]
    BY <1>1, <1>13, <2>1
  <2>3. QED
    BY <1>2, <2>1, <2>2 DEF Orders
<1>14. QED
  BY <1>1, <1>10, <1>11, <1>12, <1>13 DEF c, at

LEMMA AscendingOrders ==
  ASSUME NEW S, S \subseteq Nat
  PROVE  Orders({p \in S \X S : p[1] < p[2]}, S)
<1> DEFINE before == {p \in S \X S : p[1] < p[2]}
<1>1. \A x, y \in S : <<x, y>> \in before <=> x < y
  OBVIOUS
<1> HIDE DEF before
<1>2. \A x \in S : x \in Nat
  OBVIOUS
<1>3. Orders(before, S)
  BY <1>1, <1>2 DEF Orders
<1>4. QED
  BY <1>3 DEF before

-----------------------------------------------------------------------------
(* strcmp is a strict total order.                                         *)
LEMMA LessIrreflexive == \A s \in Seq(Chars) : ~ Less(s, s)
BY DEF Less, Chars

LEMMA LessTransitive ==
  ASSUME NEW s \in Seq(Chars), NEW t \in Seq(Chars), NEW u \in Seq(Chars),
         Less(s, t), Less(t, u)
  PROVE  Less(s, u)
<1>1. Len(s) \in Nat /\ Len(t) \in Nat /\ Len(u) \in Nat
  OBVIOUS
<1>2. PICK k \in 1..Len(t) :
        /\ \A j \in 1..(k - 1) : j <= Len(s) /\ s[j] = t[j]
        /\ k > Len(s) \/ s[k] < t[k]
  BY DEF Less
<1>3. PICK m \in 1..Len(u) :
        /\ \A j \in 1..(m - 1) : j <= Len(t) /\ t[j] = u[j]
        /\ m > Len(t) \/ t[m] < u[m]
  BY DEF Less
<1>4. CASE k < m
  <2>1. k \in 1..(m - 1) /\ k \in 1..Len(u)
    BY <1>1, <1>4
  <2>2. t[k] = u[k]
    BY <1>3, <2>1
  <2>3. \A j \in 1..(k - 1) : j <= Len(s) /\ s[j] = u[j]
    BY <1>2, <1>3, <1>4
  <2>4. QED
    BY <1>2, <2>1, <2>2, <2>3 DEF Less
<1>5. CASE k > m
  <2>1. m \in 1..(k - 1) /\ m <= Len(t) /\ m \in 1..Len(u)
    BY <1>1, <1>5
  <2>2. s[m] = t[m] /\ t[m] < u[m]
    BY <1>1, <1>2, <1>3, <2>1
  <2>3. \A j \in 1..(m - 1) : j <= Len(s) /\ s[j] = u[j]
    BY <1>2, <1>3, <1>5
  <2>4. QED
    BY <2>1, <2>2, <2>3 DEF Less
<1>6. CASE k = m
  <2>1. k <= Len(t) /\ t[k] < u[k]
    BY <1>1, <1>2, <1>3, <1>6
  <2>2. k > Len(s) \/ s[k] < u[k]
    <3>1. CASE k <= Len(s)
      <4>1. s[k] \in Int /\ t[k] \in Int /\ u[k] \in Int
        BY <1>1, <1>6, <2>1, <3>1 DEF Chars
      <4>2. QED
        BY <1>1, <1>2, <2>1, <4>1
    <3>2. QED
      BY <1>1, <3>1
  <2>3. \A j \in 1..(k - 1) : j <= Len(s) /\ s[j] = u[j]
    BY <1>2, <1>3, <1>6
  <2>4. QED
    BY <1>6, <2>2, <2>3 DEF Less
<1>7. QED
  BY <1>4, <1>5, <1>6

LEMMA LessTotal ==
  ASSUME NEW s \in Seq(Chars), NEW t \in Seq(Chars), s # t
  PROVE  Less(s, t) \/ Less(t, s)
<1> DEFINE T == {k \in Nat \ {0} : k > Len(s) \/ k > Len(t) \/ s[k] # t[k]}
<1>1. Len(s) \in Nat /\ Len(t) \in Nat
  OBVIOUS
<1>2. Len(s) + 1 \in T
  BY <1>1
<1>3. PICK k \in T : \A j \in T : k <= j
  BY <1>2, Least
<1>4. k \in Nat \ {0} /\ (k > Len(s) \/ k > Len(t) \/ s[k] # t[k])
  OBVIOUS
<1>5. \A j \in 1..(k - 1) : j <= Len(s) /\ j <= Len(t) /\ s[j] = t[j]
  <2> SUFFICES ASSUME NEW j \in 1..(k - 1) PROVE j <= Len(s) /\ j <= Len(t) /\ s[j] = t[j]
    OBVIOUS
  <2>1. j \in Nat \ {0} /\ ~ (k <= j)
    BY <1>4
  <2>2. j \notin T
    BY <1>3, <2>1
  <2>3. QED
    BY <1>1, <2>1, <2>2
<1> HIDE DEF T
<1>6. CASE k > Len(s) /\ k > Len(t)
  <2>1. Len(s) = k - 1 /\ Len(t) = k - 1
    <3>1. CASE k = 1
      BY <1>1, <1>6, <3>1
    <3>2. CASE k # 1
      <4>1. k - 1 \in 1..(k - 1)
        BY <1>4, <3>2
      <4>2. QED
        BY <1>1, <1>4, <1>5, <1>6, <4>1
    <3>3. QED
      BY <3>1, <3>2
  <2>2. s = t
    BY <1>5, <2>1
  <2>3. QED
    BY <2>2
<1>7. CASE k > Len(s) /\ k <= Len(t)
  BY <1>1, <1>4, <1>5, <1>7 DEF Less
<1>8. CASE k <= Len(s) /\ k > Len(t)
  BY <1>1, <1>4, <1>5, <1>8 DEF Less
<1>9. CASE k <= Len(s) /\ k <= Len(t)
  <2>1. s[k] \in Int /\ t[k] \in Int /\ s[k] # t[k] /\ k \in 1..Len(s) /\ k \in 1..Len(t)
    BY <1>1, <1>4, <1>9 DEF Chars
  <2>2. CASE s[k] < t[k]
    BY <1>5, <2>1, <2>2 DEF Less
  <2>3. CASE t[k] < s[k]
    BY <1>5, <2>1, <2>3 DEF Less
  <2>4. QED
    BY <2>1, <2>2, <2>3
<1>10. QED
  BY <1>1, <1>4, <1>6, <1>7, <1>8, <1>9

-----------------------------------------------------------------------------
(* Strings, cut at the first of a character.                               *)
LEMMA StrchrFinds ==
  ASSUME NEW s \in Seq(Chars), NEW c, Has(s, c)
  PROVE  /\ Strchr(s, c) \in 1..Len(s)
         /\ s[Strchr(s, c)] = c
         /\ \A j \in 1..(Strchr(s, c) - 1) : s[j] # c
<1> DEFINE I == {k \in 1..Len(s) : s[k] = c}
<1>1. Len(s) \in Nat /\ I \subseteq Nat /\ I # {}
  BY DEF Has
<1>2. PICK m \in I : \A k \in I : m <= k
  BY <1>1, Least
<1>3. Strchr(s, c) = CHOOSE x \in I : \A y \in I : x <= y
  BY <1>1 DEF Strchr, SelectInSeq, Min
<1>4. Strchr(s, c) \in I /\ \A y \in I : Strchr(s, c) <= y
  <2> HIDE DEF I
  <2> QED
    BY <1>2, <1>3
<1>5. Strchr(s, c) \in 1..Len(s) /\ s[Strchr(s, c)] = c
  BY <1>4
<1>6. ASSUME NEW j \in 1..(Strchr(s, c) - 1) PROVE s[j] # c
  <2>1. j \in 1..Len(s) /\ ~ (Strchr(s, c) <= j)
    BY <1>1, <1>5
  <2>2. QED
    BY <1>4, <2>1
<1>7. QED
  BY <1>5, <1>6

LEMMA Cuts ==
  ASSUME NEW s \in Seq(Chars), NEW c
  PROVE  /\ Until(s, c) \in Seq(Chars) /\ From(s, c) \in Seq(Chars) /\ After(s, c) \in Seq(Chars)
         /\ s = Until(s, c) \o From(s, c)
         /\ ~ Has(Until(s, c), c)
         /\ Len(Until(s, c)) <= Len(s)
         /\ \A k \in 1..Len(Until(s, c)) : Until(s, c)[k] = s[k]
<1> DEFINE m == Strchr(s, c)
<1>1. Len(s) \in Nat
  OBVIOUS
<1>2. CASE ~ Has(s, c)
  BY <1>1, <1>2 DEF Until, From, After, Has
<1>3. CASE Has(s, c)
  <2>1. m \in 1..Len(s) /\ s[m] = c /\ \A j \in 1..(m - 1) : s[j] # c
    BY <1>3, StrchrFinds
  <2>2. /\ Until(s, c) = SubSeq(s, 1, m - 1) /\ From(s, c) = SubSeq(s, m, Len(s))
        /\ After(s, c) = SubSeq(s, m + 1, Len(s))
    BY <1>3 DEF Until, From, After
  <2> HIDE DEF m
  <2>3. /\ SubSeq(s, 1, m - 1) \in Seq(Chars) /\ Len(SubSeq(s, 1, m - 1)) = m - 1
        /\ \A k \in 1..(m - 1) : SubSeq(s, 1, m - 1)[k] = s[k]
    BY <1>1, <2>1
  <2>4. /\ SubSeq(s, m, Len(s)) \in Seq(Chars) /\ Len(SubSeq(s, m, Len(s))) = Len(s) - m + 1
        /\ \A k \in 1..(Len(s) - m + 1) : SubSeq(s, m, Len(s))[k] = s[m + k - 1]
    BY <1>1, <2>1
  <2>5. SubSeq(s, m + 1, Len(s)) \in Seq(Chars)
    BY <1>1, <2>1
  <2>6. s = SubSeq(s, 1, m - 1) \o SubSeq(s, m, Len(s))
    BY <1>1, <2>1, <2>3, <2>4
  <2>7. ~ Has(Until(s, c), c)
    BY <1>1, <2>1, <2>2, <2>3 DEF Has
  <2>8. Len(Until(s, c)) <= Len(s) /\ \A k \in 1..Len(Until(s, c)) : Until(s, c)[k] = s[k]
    <3>1. m - 1 <= Len(s)
      BY <1>1, <2>1
    <3>2. QED
      BY <2>2, <2>3, <3>1
  <2>9. QED
    BY <2>2, <2>3, <2>4, <2>5, <2>6, <2>7, <2>8
<1>4. QED
  BY <1>2, <1>3

(* No two characters have the same escape.                                 *)
LEMMA EscapeIsInjective ==
  ASSUME NEW s \in Seq(Chars)
  PROVE  /\ Escape(s) \in Seq(Chars) /\ Len(Escape(s)) = Len(s)
         /\ \A k \in 1..Len(s) : Escape(s)[k] = Coded(s[k])
         /\ \A t \in Seq(Chars) : Escape(s) = Escape(t) => s = t
<1>1. \A c, d \in Chars : Coded(c) \in Chars /\ (Coded(c) = Coded(d) => c = d)
  BY DEF Coded, Chars, Shift
<1>2. ASSUME NEW t \in Seq(Chars)
      PROVE  /\ Escape(t) \in Seq(Chars) /\ Len(Escape(t)) = Len(t)
             /\ \A k \in 1..Len(t) : Escape(t)[k] = Coded(t[k])
  BY <1>1 DEF Escape
<1>3. ASSUME NEW t \in Seq(Chars), Escape(s) = Escape(t) PROVE s = t
  <2>1. Len(s) = Len(t)
    BY <1>2, <1>3
  <2>2. \A k \in 1..Len(s) : s[k] \in Chars /\ t[k] \in Chars /\ Coded(s[k]) = Coded(t[k])
    BY <1>2, <1>3, <2>1
  <2>3. QED
    BY <1>1, <2>1, <2>2
<1>4. QED
  BY <1>2, <1>3

-----------------------------------------------------------------------------
(* oauth_cmpstringp may be given to qsort: on all strings it is a strict   *)
(* order in which two different ones are never equal, so that what is      *)
(* signed depends on the parameters alone, not on the order in which they  *)
(* were given nor on the algorithm of qsort (oauth.c:673-721, 878).        *)
THEOREM ComparisonIsAnOrder ==
  /\ \A p \in Seq(Chars) : ~ Precedes(p, p)
  /\ \A p, q, r \in Seq(Chars) : Precedes(p, q) /\ Precedes(q, r) => Precedes(p, r)
  /\ \A p, q \in Seq(Chars) : p = q \/ Precedes(p, q) \/ Precedes(q, p)
<1> DEFINE c == Coded(Eq)
<1> DEFINE name == [p \in Seq(Chars) |-> Until(Escape(p), c)]
<1> DEFINE value == [p \in Seq(Chars) |-> From(Escape(p), c)]
<1>1. \A p \in Seq(Chars) : name[p] \in Seq(Chars) /\ value[p] \in Seq(Chars)
  BY EscapeIsInjective, Cuts
<1>2. \A p, q \in Seq(Chars) : name[p] = name[q] /\ value[p] = value[q] => p = q
  <2> SUFFICES ASSUME NEW p \in Seq(Chars), NEW q \in Seq(Chars),
                      name[p] = name[q], value[p] = value[q]
               PROVE  p = q
    OBVIOUS
  <2>1. Escape(p) = name[p] \o value[p] /\ Escape(q) = name[q] \o value[q]
    BY EscapeIsInjective, Cuts
  <2>2. Escape(p) = Escape(q)
    BY <2>1
  <2>3. QED
    BY <2>2, EscapeIsInjective
<1>3. \A p, q \in Seq(Chars) :
        Precedes(p, q) <=> \/ Less(name[p], name[q])
                           \/ name[p] = name[q] /\ Less(value[p], value[q])
  BY DEF Precedes
<1> HIDE DEF name, value
<1>4. \A p \in Seq(Chars) : ~ Precedes(p, p)
  BY <1>1, <1>3, LessIrreflexive
<1>5. ASSUME NEW p \in Seq(Chars), NEW q \in Seq(Chars), NEW r \in Seq(Chars),
             Precedes(p, q), Precedes(q, r)
      PROVE  Precedes(p, r)
  <2>1. /\ name[p] \in Seq(Chars) /\ name[q] \in Seq(Chars) /\ name[r] \in Seq(Chars)
        /\ value[p] \in Seq(Chars) /\ value[q] \in Seq(Chars) /\ value[r] \in Seq(Chars)
    BY <1>1
  <2>2. Less(name[p], name[q]) /\ Less(name[q], name[r]) => Less(name[p], name[r])
    BY <2>1, LessTransitive
  <2>3. Less(value[p], value[q]) /\ Less(value[q], value[r]) => Less(value[p], value[r])
    BY <2>1, LessTransitive
  <2>4. QED
    BY <1>3, <1>5, <2>2, <2>3
<1>6. ASSUME NEW p \in Seq(Chars), NEW q \in Seq(Chars)
      PROVE  p = q \/ Precedes(p, q) \/ Precedes(q, p)
  <2>1. name[p] \in Seq(Chars) /\ name[q] \in Seq(Chars)
        /\ value[p] \in Seq(Chars) /\ value[q] \in Seq(Chars)
    BY <1>1
  <2>2. name[p] = name[q] \/ Less(name[p], name[q]) \/ Less(name[q], name[p])
    BY <2>1, LessTotal
  <2>3. value[p] = value[q] \/ Less(value[p], value[q]) \/ Less(value[q], value[p])
    BY <2>1, LessTotal
  <2>4. QED
    BY <1>2, <1>3, <2>2, <2>3
<1>7. QED
  BY <1>4, <1>5, <1>6

Arguments == Seq(Seq(Chars)) \ {<<>>}

(* What Sorted gives: the same elements, the first in its place and the    *)
(* others by their names and values.                                       *)
LEMMA SortedIsAPermutation ==
  ASSUME NEW a \in Arguments
  PROVE  /\ Sorted(a) \in Arguments /\ Len(Sorted(a)) = Len(a) /\ Sorted(a)[1] = a[1]
         /\ \E at \in [1..Len(a) -> 1..Len(a)] :
              /\ at[1] = 1
              /\ \A k \in 1..Len(a) : Sorted(a)[k] = a[at[k]]
              /\ \A k, m \in 1..Len(a) : at[k] = at[m] => k = m
              /\ \A k \in 1..Len(a) : \E m \in 1..Len(a) : at[m] = k
         /\ \A k, m \in 2..Len(a) : k < m => ~ Precedes(Sorted(a)[m], Sorted(a)[k])
<1> DEFINE places == 2..Len(a)
<1> DEFINE before == {p \in {<<j, k>> : j \in places, k \in places} :
                        Precedes(a[p[1]], a[p[2]]) \/ (a[p[1]] = a[p[2]] /\ p[1] < p[2])}
<1> DEFINE at == InOrder(places, before)
<1> DEFINE n == Len(a)
<1>1. n \in Nat \ {0} /\ \A k \in 1..n : a[k] \in Seq(Chars)
  BY DEF Arguments
<1>2. \A j, k \in places :
        <<j, k>> \in before <=> Precedes(a[j], a[k]) \/ (a[j] = a[k] /\ j < k)
  OBVIOUS
<1>3. Sorted(a) = [k \in 1..n |-> IF k = 1 THEN a[1] ELSE a[at[k - 1]]]
  BY DEF Sorted
<1>4. IsFiniteSet(places) /\ Cardinality(places) = n - 1
  <2>1. 2 \in Int /\ n \in Int
    BY <1>1
  <2> HIDE DEF n
  <2>2. IsFiniteSet(2..n) /\ Cardinality(2..n) = IF 2 > n THEN 0 ELSE n - 2 + 1
    BY <2>1, FS_Interval
  <2>3. IsFiniteSet(2..n) /\ Cardinality(2..n) = n - 1
    BY <1>1, <2>2
  <2>4. QED
    BY <2>3 DEF n
<1>5. \A k \in places : k \in Nat /\ a[k] \in Seq(Chars)
  BY <1>1
<1> HIDE DEF places, before, at, n
<1>6. Orders(before, places)
  <2>1. ASSUME NEW x \in places PROVE <<x, x>> \notin before
    BY <1>2, <1>5, ComparisonIsAnOrder
  <2>2. ASSUME NEW x \in places, NEW y \in places, NEW z \in places,
               <<x, y>> \in before, <<y, z>> \in before
        PROVE  <<x, z>> \in before
    <3>1. /\ x \in Nat /\ y \in Nat /\ z \in Nat
          /\ a[x] \in Seq(Chars) /\ a[y] \in Seq(Chars) /\ a[z] \in Seq(Chars)
      BY <1>5
    <3>2. /\ Precedes(a[x], a[y]) \/ (a[x] = a[y] /\ x < y)
          /\ Precedes(a[y], a[z]) \/ (a[y] = a[z] /\ y < z)
      BY <1>2, <2>2
    <3>3. Precedes(a[x], a[y]) /\ Precedes(a[y], a[z]) => Precedes(a[x], a[z])
      BY <3>1, ComparisonIsAnOrder
    <3>4. x < y /\ y < z => x < z
      BY <3>1
    <3>5. QED
      BY <1>2, <3>2, <3>3, <3>4
  <2>3. ASSUME NEW x \in places, NEW y \in places
        PROVE  x = y \/ <<x, y>> \in before \/ <<y, x>> \in before
    <3>1. x \in Nat /\ y \in Nat /\ a[x] \in Seq(Chars) /\ a[y] \in Seq(Chars)
      BY <1>5
    <3>2. a[x] = a[y] \/ Precedes(a[x], a[y]) \/ Precedes(a[y], a[x])
      BY <3>1, ComparisonIsAnOrder
    <3>3. x = y \/ x < y \/ y < x
      BY <3>1
    <3>4. QED
      BY <1>2, <3>2, <3>3
  <2>4. QED
    BY <2>1, <2>2, <2>3 DEF Orders
<1>7. /\ at \in [1..(n - 1) -> places]
      /\ \A x \in places : \E m \in 1..(n - 1) : at[m] = x
      /\ \A m, k \in 1..(n - 1) : m < k => <<at[m], at[k]>> \in before
      /\ \A m, k \in 1..(n - 1) : at[m] = at[k] => m = k
  BY <1>4, <1>6, InOrderIsABijection DEF at
<1> DEFINE all == [k \in 1..n |-> IF k = 1 THEN 1 ELSE at[k - 1]]
<1>8. \A k \in 1..n : k # 1 => k - 1 \in 1..(n - 1) /\ at[k - 1] \in 2..n
  <2>1. places = 2..n
    BY DEF places, n
  <2>2. \A k \in 1..n : k # 1 => k - 1 \in 1..(n - 1)
    BY <1>1
  <2>3. QED
    BY <1>7, <2>1, <2>2
<1>9. all \in [1..n -> 1..n]
  BY <1>1, <1>8
<1>10. all[1] = 1 /\ \A k \in 1..n : Sorted(a)[k] = a[all[k]]
  BY <1>1, <1>3, <1>8
<1>11. ASSUME NEW k \in 1..n, NEW m \in 1..n, all[k] = all[m] PROVE k = m
  BY <1>1, <1>7, <1>8, <1>11
<1>12. ASSUME NEW k \in 1..n PROVE \E m \in 1..n : all[m] = k
  <2>1. CASE k = 1
    BY <1>1, <1>10, <2>1
  <2>2. CASE k # 1
    <3>1. k \in places
      BY <1>1, <2>2 DEF places, n
    <3>2. PICK m \in 1..(n - 1) : at[m] = k
      BY <1>7, <3>1
    <3>3. m + 1 \in 1..n /\ m + 1 # 1 /\ (m + 1) - 1 = m
      BY <1>1
    <3>4. all[m + 1] = k
      BY <3>2, <3>3
    <3>5. QED
      BY <3>3, <3>4
  <2>3. QED
    BY <2>1, <2>2
<1>13. ASSUME NEW k \in 2..n, NEW m \in 2..n, k < m
       PROVE  ~ Precedes(Sorted(a)[m], Sorted(a)[k])
  <2>1. /\ k - 1 \in 1..(n - 1) /\ m - 1 \in 1..(n - 1) /\ k - 1 < m - 1
        /\ k \in 1..n /\ m \in 1..n /\ k # 1 /\ m # 1
    BY <1>1, <1>13
  <2>2. <<at[k - 1], at[m - 1]>> \in before /\ at[k - 1] \in places /\ at[m - 1] \in places
    BY <1>7, <2>1
  <2>3. /\ Sorted(a)[k] = a[at[k - 1]] /\ Sorted(a)[m] = a[at[m - 1]]
        /\ a[at[k - 1]] \in Seq(Chars) /\ a[at[m - 1]] \in Seq(Chars)
    BY <1>3, <1>5, <2>1, <2>2
  <2>4. Precedes(Sorted(a)[k], Sorted(a)[m]) \/ Sorted(a)[k] = Sorted(a)[m]
    BY <1>2, <2>2, <2>3
  <2>5. QED
    BY <2>3, <2>4, ComparisonIsAnOrder
<1> HIDE DEF all
<1>14. Sorted(a) \in Arguments /\ Len(Sorted(a)) = n
  <2>1. \A k \in 1..n : Sorted(a)[k] \in Seq(Chars)
    BY <1>1, <1>9, <1>10
  <2>2. Sorted(a) \in [1..n -> Seq(Chars)]
    BY <1>3, <2>1
  <2>3. QED
    BY <1>1, <2>2 DEF Arguments
<1>15. QED
  <2>1. /\ all[1] = 1
        /\ \A k \in 1..n : Sorted(a)[k] = a[all[k]]
        /\ \A k, m \in 1..n : all[k] = all[m] => k = m
        /\ \A k \in 1..n : \E m \in 1..n : all[m] = k
    BY <1>10, <1>11, <1>12
  <2>2. Sorted(a)[1] = a[1]
    BY <1>1, <2>1
  <2>3. QED
    BY <1>9, <1>13, <1>14, <2>1, <2>2 DEF n

-----------------------------------------------------------------------------
(* Adding parameters.                                                      *)
Is(e, key) == Len(e) > 1 /\ e[1] = key /\ e[2] = Eq

Times(a, key) == Cardinality({k \in 1..Len(a) : Is(a[k], key)})

ProtocolWords == {Nonce, Timestamp, Version}

LEMMA AddParamAppends ==
  ASSUME NEW a \in Seq(Seq(Chars)), NEW key \in Chars, NEW value \in Seq(Chars)
  PROVE  \E e \in Seq(Chars) :
           /\ AddParam(a, key, value) = Append(a, e)
           /\ Is(e, key) /\ Has(e, Eq)
           /\ \A other : Is(e, other) => other = key
<1> DEFINE s == <<key, Eq>> \o value
<1> DEFINE e == Snprintf(s)
<1>1. ArgMax \in Nat /\ ArgMax > 3
  BY ArgMaxAssumption
<1>2. Eq \in Chars
  BY DEF Eq, Chars
<1>3. <<key, Eq>> \in Seq(Chars) /\ Len(value) \in Nat
  BY <1>2
<1>4. s \in Seq(Chars) /\ Len(s) = 2 + Len(value) /\ s[1] = key /\ s[2] = Eq
  BY <1>3
<1> HIDE DEF s
<1>5. PICK l \in Nat : l >= 2 /\ l <= Len(s) /\ e = SubSeq(s, 1, l)
  <2>1. CASE Len(s) < ArgMax
    BY <1>3, <1>4, <2>1 DEF Snprintf
  <2>2. CASE ~ (Len(s) < ArgMax)
    <3>1. ArgMax - 1 \in Nat /\ ArgMax - 1 >= 2 /\ ArgMax - 1 <= Len(s)
      BY <1>1, <1>3, <1>4, <2>2
    <3>2. e = SubSeq(s, 1, ArgMax - 1)
      BY <2>2 DEF Snprintf
    <3>3. QED
      BY <3>1, <3>2
  <2>3. QED
    BY <2>1, <2>2
<1>6. e \in Seq(Chars) /\ Len(e) = l /\ e[1] = s[1] /\ e[2] = s[2]
  BY <1>3, <1>4, <1>5
<1>7. AddParam(a, key, value) = Append(a, e)
  BY DEF AddParam, s
<1> HIDE DEF e
<1>8. Is(e, key) /\ Has(e, Eq) /\ \A other : Is(e, other) => other = key
  <2>1. Len(e) > 1 /\ e[1] = key /\ e[2] = Eq /\ 2 \in 1..Len(e)
    BY <1>4, <1>5, <1>6
  <2>2. QED
    BY <2>1 DEF Is, Has
<1>9. QED
  BY <1>6, <1>7, <1>8

LEMMA AppendTimes ==
  ASSUME NEW a \in Seq(Seq(Chars)), NEW e \in Seq(Chars), NEW key
  PROVE  /\ Times(a, key) \in Nat
         /\ Times(Append(a, e), key) = IF Is(e, key) THEN Times(a, key) + 1 ELSE Times(a, key)
         /\ (\A k \in 1..Len(a) : ~ Is(a[k], key)) => Times(a, key) = 0
<1> DEFINE S == {k \in 1..Len(a) : Is(a[k], key)}
<1> DEFINE T == {k \in 1..Len(Append(a, e)) : Is(Append(a, e)[k], key)}
<1> DEFINE n == Len(a) + 1
<1>1. Len(a) \in Nat /\ n \notin S
  OBVIOUS
<1>2. IsFiniteSet(S) /\ Cardinality(S) \in Nat
  <2>1. 1 \in Int /\ Len(a) \in Int
    BY <1>1
  <2>2. IsFiniteSet(1..Len(a))
    BY <2>1, FS_Interval
  <2>3. S \in SUBSET (1..Len(a))
    OBVIOUS
  <2> HIDE DEF S
  <2>4. QED
    BY <2>2, <2>3, FS_Subset, FS_CardinalityType
<1>3. T = IF Is(e, key) THEN S \cup {n} ELSE S
  <2>1. /\ Len(Append(a, e)) = n /\ Append(a, e)[n] = e
        /\ \A k \in 1..Len(a) : Append(a, e)[k] = a[k]
    OBVIOUS
  <2>2. \A k : k \in 1..n <=> k \in 1..Len(a) \/ k = n
    BY <1>1
  <2>3. \A k : k \in T <=> k \in 1..n /\ Is(Append(a, e)[k], key)
    BY <2>1
  <2>4. \A k : k \in S <=> k \in 1..Len(a) /\ Is(a[k], key)
    OBVIOUS
  <2> HIDE DEF S, T, n
  <2>5. CASE Is(e, key)
    BY <2>1, <2>2, <2>3, <2>4, <2>5
  <2>6. CASE ~ Is(e, key)
    BY <1>1, <2>1, <2>2, <2>3, <2>4, <2>6
  <2>7. QED
    BY <2>5, <2>6
<1>4. Times(a, key) = Cardinality(S) /\ Times(Append(a, e), key) = Cardinality(T)
  BY DEF Times
<1>5. (\A k \in 1..Len(a) : ~ Is(a[k], key)) => S = {}
  OBVIOUS
<1> HIDE DEF S, T, n
<1>6. Is(e, key) => Cardinality(T) = Cardinality(S) + 1
  BY <1>1, <1>2, <1>3, FS_AddElement
<1>7. QED
  BY <1>2, <1>3, <1>4, <1>5, <1>6, FS_EmptySet

(* A function that permutes the places of an array leaves their number.    *)
LEMMA SortedTimes ==
  ASSUME NEW a \in Arguments, NEW key
  PROVE  Times(Sorted(a), key) = Times(a, key)
<1> DEFINE b == Sorted(a)
<1> DEFINE S == {k \in 1..Len(a) : Is(a[k], key)}
<1> DEFINE T == {k \in 1..Len(a) : Is(b[k], key)}
<1>1. PICK at \in [1..Len(a) -> 1..Len(a)] :
        /\ \A k \in 1..Len(a) : b[k] = a[at[k]]
        /\ \A k, m \in 1..Len(a) : at[k] = at[m] => k = m
        /\ \A k \in 1..Len(a) : \E m \in 1..Len(a) : at[m] = k
  BY SortedIsAPermutation
<1>2. Len(b) = Len(a) /\ Len(a) \in Nat
  BY SortedIsAPermutation DEF Arguments
<1>3. IsFiniteSet(T)
  <2>1. 1 \in Int /\ Len(a) \in Int
    BY <1>2
  <2>2. IsFiniteSet(1..Len(a))
    BY <2>1, FS_Interval
  <2>3. T \in SUBSET (1..Len(a))
    OBVIOUS
  <2> HIDE DEF T
  <2>4. QED
    BY <2>2, <2>3, FS_Subset
<1> DEFINE f == [k \in T |-> at[k]]
<1>4. f \in [T -> S] /\ \A k, m \in T : f[k] = f[m] => k = m
  BY <1>1
<1>5. \A x \in S : \E k \in T : f[k] = x
  BY <1>1
<1>6. Times(b, key) = Cardinality(T) /\ Times(a, key) = Cardinality(S)
  BY <1>2 DEF Times
<1> HIDE DEF S, T, f, b
<1>7. f \in Surjection(T, S) /\ f \in Injection(T, S)
  BY <1>4, <1>5 DEF Surjection, Injection, IsInjective
<1>8. Cardinality(S) = Cardinality(T)
  BY <1>3, <1>7, FS_Surjection
<1>9. QED
  BY <1>6, <1>8 DEF b

LEMMA AddMissingOnce ==
  ASSUME NEW a \in Seq(Seq(Chars)), NEW key \in Chars, NEW value \in Seq(Chars)
  PROVE  /\ AddMissing(a, key, value) \in Seq(Seq(Chars))
         /\ AddMissing(a, key, value) = a
            \/ \E e \in Seq(Chars) : AddMissing(a, key, value) = Append(a, e) /\ Has(e, Eq)
         /\ Times(AddMissing(a, key, value), key) <= 1
            \/ Times(AddMissing(a, key, value), key) = Times(a, key)
         /\ \A other : other # key => Times(AddMissing(a, key, value), other) = Times(a, other)
<1>1. CASE ParamExists(a, key)
  BY <1>1 DEF AddMissing
<1>2. CASE ~ ParamExists(a, key)
  <2>1. AddMissing(a, key, value) = AddParam(a, key, value)
    BY <1>2 DEF AddMissing
  <2>2. PICK e \in Seq(Chars) :
          /\ AddParam(a, key, value) = Append(a, e)
          /\ Is(e, key) /\ Has(e, Eq)
          /\ \A other : Is(e, other) => other = key
    BY AddParamAppends
  <2>3. \A k \in 1..Len(a) : ~ Is(a[k], key)
    BY <1>2 DEF ParamExists, Is
  <2>4. Times(Append(a, e), key) = 1
    BY <2>2, <2>3, AppendTimes
  <2>5. \A other : other # key => Times(Append(a, e), other) = Times(a, other)
    BY <2>2, AppendTimes
  <2>6. Append(a, e) \in Seq(Seq(Chars))
    OBVIOUS
  <2>7. QED
    BY <2>1, <2>2, <2>4, <2>5, <2>6
<1>3. QED
  BY <1>1, <1>2

-----------------------------------------------------------------------------
(* Splitting what was sent.                                                *)
LEMMA PartEnds ==
  ASSUME NEW s \in Seq(Chars), NEW marks, NEW k \in 1..Len(s), s[k] \notin marks
  PROVE  PartEnd(s, marks, k) \in k..Len(s)
<1> DEFINE T == {e \in k..Len(s) : e < Len(s) => s[e + 1] \in marks}
<1>1. Len(s) \in Nat /\ T \subseteq Nat /\ Len(s) \in T
  OBVIOUS
<1>2. PICK e \in T : \A j \in T : e <= j
  BY <1>1, Least
<1>3. e \in k..Len(s) /\ (e < Len(s) => s[e + 1] \in marks)
  OBVIOUS
<1>4. ASSUME NEW j \in k..e PROVE s[j] \notin marks
  <2>1. CASE j = k
    BY <2>1
  <2>2. CASE j # k
    <3>1. j - 1 \in k..Len(s) /\ ~ (e <= j - 1) /\ (j - 1) + 1 = j /\ j - 1 < Len(s)
      BY <1>1, <1>3, <2>2
    <3>2. j - 1 \notin T
      BY <1>2, <3>1
    <3>3. QED
      BY <3>1, <3>2
  <2>3. QED
    BY <2>1, <2>2
<1> HIDE DEF T
<1>5. QED
  BY <1>3, <1>4 DEF PartEnd

LEMMA AscendingIsABijection ==
  ASSUME NEW n \in Nat, NEW S \in SUBSET (1..n)
  PROVE  /\ Cardinality(S) \in Nat
         /\ Ascending(S) \in [1..Cardinality(S) -> S]
         /\ \A x \in S : \E m \in 1..Cardinality(S) : Ascending(S)[m] = x
         /\ \A m, k \in 1..Cardinality(S) : Ascending(S)[m] = Ascending(S)[k] => m = k
<1> DEFINE before == {p \in S \X S : p[1] < p[2]}
<1>1. IsFiniteSet(S)
  <2>1. 1 \in Int /\ n \in Int
    OBVIOUS
  <2>2. IsFiniteSet(1..n)
    BY <2>1, FS_Interval
  <2>3. QED
    BY <2>2, FS_Subset
<1>2. S \subseteq Nat
  OBVIOUS
<1>3. Orders(before, S) /\ Ascending(S) = InOrder(S, before)
  BY <1>2, AscendingOrders DEF Ascending
<1> HIDE DEF before
<1>4. QED
  BY <1>1, <1>3, InOrderIsABijection

(* A part is not empty, and every place where one starts has its part.     *)
LEMMA PiecesOf ==
  ASSUME NEW s \in Seq(Chars), NEW marks
  PROVE  /\ Pieces(s, marks) \in Seq(Seq(Chars))
         /\ \A n \in 1..Len(Pieces(s, marks)) : Pieces(s, marks)[n] # <<>>
         /\ \A k \in 1..Len(s) :
              s[k] \notin marks /\ (k > 1 => s[k - 1] \in marks) =>
                \E n \in 1..Len(Pieces(s, marks)) : Pieces(s, marks)[n][1] = s[k]
<1> DEFINE starts == {k \in 1..Len(s) : s[k] \notin marks /\ (k > 1 => s[k - 1] \in marks)}
<1> DEFINE at == Ascending(starts)
<1> DEFINE c == Cardinality(starts)
<1> DEFINE piece(k) == SubSeq(s, k, PartEnd(s, marks, k))
<1>1. Pieces(s, marks) = [n \in 1..c |-> piece(at[n])]
  BY DEF Pieces
<1>2. ASSUME NEW k \in starts PROVE piece(k) \in Seq(Chars) /\ piece(k) # <<>> /\ piece(k)[1] = s[k]
  <2>1. k \in 1..Len(s) /\ s[k] \notin marks /\ Len(s) \in Nat
    OBVIOUS
  <2>2. PICK e \in k..Len(s) : PartEnd(s, marks, k) = e
    BY <2>1, PartEnds
  <2>3. /\ SubSeq(s, k, e) \in Seq(Chars) /\ Len(SubSeq(s, k, e)) = e - k + 1
        /\ SubSeq(s, k, e)[1] = s[k]
    BY <2>1, <2>2
  <2>4. SubSeq(s, k, e) # <<>>
    BY <2>1, <2>3
  <2>5. QED
    BY <2>2, <2>3, <2>4
<1>3. starts \in SUBSET (1..Len(s)) /\ Len(s) \in Nat
  OBVIOUS
<1>4. \A k \in 1..Len(s) : s[k] \notin marks /\ (k > 1 => s[k - 1] \in marks) <=> k \in starts
  OBVIOUS
<1> HIDE DEF starts
<1>5. c \in Nat /\ at \in [1..c -> starts] /\ \A x \in starts : \E m \in 1..c : at[m] = x
  BY <1>3, AscendingIsABijection
<1> HIDE DEF at, c, piece
<1>6. \A n \in 1..c : at[n] \in starts
  BY <1>5
<1>7. \A n \in 1..c : piece(at[n]) \in Seq(Chars)
  BY <1>2, <1>6
<1>8. /\ Pieces(s, marks) \in Seq(Seq(Chars)) /\ Len(Pieces(s, marks)) = c
      /\ \A n \in 1..c : Pieces(s, marks)[n] = piece(at[n])
  BY <1>1, <1>5, <1>7
<1>9. \A n \in 1..c : Pieces(s, marks)[n] # <<>>
  BY <1>2, <1>6, <1>8
<1>10. ASSUME NEW k \in starts PROVE \E n \in 1..c : Pieces(s, marks)[n][1] = s[k]
  <2>1. PICK n \in 1..c : at[n] = k
    BY <1>5
  <2>2. QED
    BY <1>2, <1>8, <2>1
<1>11. QED
  BY <1>4, <1>8, <1>9, <1>10

(* The key of the consumer stands after a separator.                       *)
KeyIn(q) == \E k \in 1..Len(q) : q[k] = ConsumerKey /\ (k > 1 => q[k - 1] \in {Amp, Mark})

LEMMA DecodeType ==
  ASSUME NEW s \in Seq(Chars)
  PROVE  Decode(s) \in Seq(Chars)
BY DEF Decode, Chars, Shift

LEMMA SplitOf ==
  ASSUME NEW s \in Seq(Chars), KeyIn(s)
  PROVE  Split(s) \in Arguments
<1> DEFINE pieces == Pieces(s, {Amp, Mark})
<1> DEFINE kept == {k \in 1..Len(pieces) :
                      ~ (Len(pieces[k]) > 1 /\ pieces[k][1] = Signature /\ pieces[k][2] = Eq)}
<1> DEFINE at == Ascending(kept)
<1> DEFINE c == Cardinality(kept)
<1>1. Split(s) = [n \in 1..c |-> IF n = 1 THEN pieces[at[n]] ELSE Decode(pieces[at[n]])]
  BY DEF Split
<1>2. PICK k \in 1..Len(s) : s[k] = ConsumerKey /\ (k > 1 => s[k - 1] \in {Amp, Mark})
  BY DEF KeyIn
<1>3. s[k] \notin {Amp, Mark} /\ ConsumerKey # Signature
  BY <1>2 DEF ConsumerKey, Amp, Mark, Signature
<1>4. /\ pieces \in Seq(Seq(Chars))
      /\ \E n \in 1..Len(pieces) : pieces[n][1] = ConsumerKey
  <2> DEFINE marks == {Amp, Mark}
  <2>1. s[k] \notin marks /\ (k > 1 => s[k - 1] \in marks)
    BY <1>2, <1>3
  <2> HIDE DEF marks, pieces
  <2>2. pieces = Pieces(s, marks)
    BY DEF marks, pieces
  <2>3. /\ Pieces(s, marks) \in Seq(Seq(Chars))
        /\ \E n \in 1..Len(Pieces(s, marks)) : Pieces(s, marks)[n][1] = s[k]
    BY <2>1, PiecesOf
  <2>4. QED
    BY <1>2, <2>2, <2>3
<1> HIDE DEF pieces
<1>5. PICK n \in 1..Len(pieces) : pieces[n][1] = ConsumerKey
  BY <1>4
<1>6. n \in kept /\ kept \in SUBSET (1..Len(pieces)) /\ Len(pieces) \in Nat
  BY <1>3, <1>4, <1>5
<1> HIDE DEF kept
<1>7. c \in Nat /\ at \in [1..c -> kept] /\ \E m \in 1..c : at[m] = n
  BY <1>6, AscendingIsABijection
<1> HIDE DEF at, c
<1>8. \A m \in 1..c : pieces[at[m]] \in Seq(Chars) /\ Decode(pieces[at[m]]) \in Seq(Chars)
  <2>1. \A m \in 1..c : at[m] \in 1..Len(pieces)
    BY <1>6, <1>7
  <2>2. \A m \in 1..c : pieces[at[m]] \in Seq(Chars)
    BY <1>4, <2>1
  <2>3. QED
    BY <2>2, DecodeType
<1>9. c # 0
  BY <1>7
<1>10. Split(s) \in Seq(Seq(Chars)) /\ Len(Split(s)) = c
  BY <1>1, <1>7, <1>8
<1>11. QED
  BY <1>9, <1>10 DEF Arguments

-----------------------------------------------------------------------------
(* What an element is serialized to.                                       *)
Bare == {c \in Chars : c \notin {Amp, Comma, Mark}}

LEMMA EscapedIsBare ==
  ASSUME NEW s \in Seq(Chars)
  PROVE  Escape(s) \in Seq(Bare)
<1>1. \A c \in Chars : Coded(c) \in Bare
  BY DEF Bare, Coded, Chars, Shift, Amp, Comma, Mark
<1>2. Escape(s) = [k \in 1..Len(s) |-> Coded(s[k])]
  BY DEF Escape
<1>3. QED
  BY <1>1, <1>2

LEMMA UrlText ==
  ASSUME NEW e \in Seq(Chars), IsUrl(e)
  PROVE  /\ Text(e) \in Seq(Chars) /\ Len(Text(e)) = Len(e) /\ Text(e) # <<>>
         /\ \A k \in 1..Len(e) : e[k] # Space => Text(e)[k] = e[k]
<1>1. Text(e) = [k \in 1..Len(e) |-> IF e[k] = Space THEN Coded(Space) ELSE e[k]]
  BY DEF Text
<1>2. Coded(Space) \in Chars
  BY DEF Coded, Space, Shift, Chars
<1>3. Len(e) # 0
  BY DEF IsUrl, Has
<1>4. Text(e) \in Seq(Chars) /\ Len(Text(e)) = Len(e)
  BY <1>1, <1>2
<1>5. QED
  BY <1>1, <1>3, <1>4

LEMMA ParameterText ==
  ASSUME NEW e \in Seq(Chars), ~ IsUrl(e)
  PROVE  /\ Text(e) \in Seq(Chars) /\ Text(e) # <<>>
         /\ Has(e, Eq) \/ Escape(e) = e => Text(e) \in Seq(Bare)
         /\ Is(e, ConsumerKey) => Text(e)[1] = ConsumerKey
<1>1. Eq \in Bare /\ Quote \in Bare /\ Bare \subseteq Chars /\ Eq \in Chars
  BY DEF Bare, Chars, Eq, Quote, Amp, Comma, Mark
<1>2. CASE ~ Has(e, Eq)
  <2>1. Text(e) = Append(e, Eq)
    BY <1>2 DEF Text
  <2>2. ~ Is(e, ConsumerKey)
    BY <1>2 DEF Is, Has
  <2>3. Escape(e) = e => e \in Seq(Bare)
    BY EscapedIsBare
  <2>4. QED
    BY <1>1, <1>2, <2>1, <2>2, <2>3
<1>3. CASE Has(e, Eq)
  <2> DEFINE u == Escape(Until(e, Eq))
  <2> DEFINE v == Escape(After(e, Eq))
  <2>1. PICK q \in Seq(Bare) : Text(e) = u \o <<Eq>> \o q \o v \o q
    <3>1. CASE 4 \in job.mod
      <4>1. Text(e) = u \o <<Eq>> \o <<Quote>> \o v \o <<Quote>> /\ <<Quote>> \in Seq(Bare)
        BY <1>1, <1>3, <3>1 DEF Text
      <4>2. QED
        BY <4>1, Zenon
    <3>2. CASE 4 \notin job.mod
      <4>1. Text(e) = u \o <<Eq>> \o <<>> \o v \o <<>> /\ <<>> \in Seq(Bare)
        BY <1>3, <3>2 DEF Text
      <4>2. QED
        BY <4>1, Zenon
    <3>3. QED
      BY <3>1, <3>2
  <2>2. u \in Seq(Bare) /\ v \in Seq(Bare) /\ Len(u) = Len(Until(e, Eq))
    BY Cuts, EscapedIsBare, EscapeIsInjective
  <2>3. Is(e, ConsumerKey) => Len(u) = 1 /\ u[1] = ConsumerKey
    <3> SUFFICES ASSUME Is(e, ConsumerKey) PROVE Len(u) = 1 /\ u[1] = ConsumerKey
      OBVIOUS
    <3> DEFINE m == Strchr(e, Eq)
    <3>1. Len(e) > 1 /\ e[1] = ConsumerKey /\ e[2] = Eq /\ Len(e) \in Nat /\ ConsumerKey # Eq
      BY DEF Is, ConsumerKey, Eq
    <3>2. m \in 1..Len(e) /\ e[m] = Eq /\ \A j \in 1..(m - 1) : e[j] # Eq
      BY <1>3, StrchrFinds
    <3>3. Until(e, Eq) = SubSeq(e, 1, m - 1)
      BY <1>3 DEF Until
    <3> HIDE DEF m
    <3>4. m = 2
      <4>1. m # 1
        BY <3>1, <3>2
      <4>2. ~ (m > 2)
        BY <3>1, <3>2
      <4>3. QED
        BY <3>1, <3>2, <4>1, <4>2
    <3>5. Until(e, Eq) = SubSeq(e, 1, 1)
      BY <3>3, <3>4
    <3>6. Until(e, Eq) \in Seq(Chars) /\ Len(Until(e, Eq)) = 1 /\ Until(e, Eq)[1] = ConsumerKey
      BY <3>1, <3>5
    <3>7. u[1] = Coded(ConsumerKey)
      BY <3>6, EscapeIsInjective
    <3>8. QED
      BY <2>2, <3>6, <3>7 DEF Coded, ConsumerKey
  <2> HIDE DEF u, v
  <2>4. <<Eq>> \in Seq(Bare)
    BY <1>1
  <2>5. u \o <<Eq>> \in Seq(Bare) /\ Len(u \o <<Eq>>) = Len(u) + 1
        /\ (Len(u) = 1 => (u \o <<Eq>>)[1] = u[1])
    BY <2>2, <2>4
  <2> DEFINE x == u \o <<Eq>>
  <2> HIDE DEF x
  <2>6. /\ x \o q \in Seq(Bare) /\ Len(x \o q) = Len(x) + Len(q)
        /\ (Len(u) = 1 => (x \o q)[1] = u[1])
    BY <2>1, <2>2, <2>5 DEF x
  <2> DEFINE y == x \o q
  <2> HIDE DEF y
  <2>7. /\ y \o v \in Seq(Bare) /\ Len(y \o v) = Len(y) + Len(v) /\ Len(y) >= 1
        /\ (Len(u) = 1 => (y \o v)[1] = u[1])
    BY <2>1, <2>2, <2>5, <2>6 DEF x, y
  <2> DEFINE z == y \o v
  <2> HIDE DEF z
  <2>8. /\ z \o q \in Seq(Bare) /\ Len(z \o q) >= 1
        /\ (Len(u) = 1 => (z \o q)[1] = u[1])
    BY <2>1, <2>2, <2>5, <2>6, <2>7 DEF y, z
  <2>9. Text(e) = z \o q
    BY <2>1 DEF x, y, z
  <2>10. \A s \in Seq(Bare) : s \in Seq(Chars)
    BY <1>1
  <2>11. QED
    BY <2>3, <2>8, <2>9, <2>10
<1>4. QED
  BY <1>2, <1>3

-----------------------------------------------------------------------------
(* What is inductive.  What oauth_serialize_url_sep was called for is told *)
(* by what has been sent.                                                  *)
Job(start, sep, mod) == [start |-> start, sep |-> sep, mod |-> mod]

JobOK ==
  /\ pc = "call" => argv = given
  /\ pc \in {"call", "sort", "query"} => sent = <<>>
  /\ pc = "query" => job = Job(1, Amp, {})
  /\ pc = "result" =>
       \/ call.form = "get" /\ sent = <<>> /\ job = Job(0, Amp, {})
       \/ call.form = "post" /\ sent = <<>> /\ job = Job(1, Amp, {})
       \/ call.form = "header" /\ sent = <<>> /\ job = Job(1, Comma, {2, 4})
       \/ call.form = "header" /\ Len(sent) = 1 /\ job = Job(0, Amp, {1})
  /\ pc = "returned" => Len(sent) = IF call.form = "header" THEN 2 ELSE 1

(* Nothing is in the query before its first element, and a '?' is at its   *)
(* end where no separator is to follow.                                    *)
LoopOK ==
  pc \in {"query", "result"} =>
    /\ i >= job.start
    /\ i = job.start => query = <<>> /\ ~ first
    /\ first => query # <<>> /\ query[Len(query)] = Mark
    /\ Len(query) + 1 <= room

(* There is a consumer key in what is sent, so that it can be split again. *)
KeyOK ==
  /\ pc # "call" => \E k \in 1..argc : Is(argv[k], ConsumerKey)
  /\ pc = "result" /\ call.form = "get" =>
       ((\E k \in 1..i : Is(argv[k], ConsumerKey)) => KeyIn(query))
  /\ pc = "returned" /\ call.form = "get" => KeyIn(sent[1])

(* What was added to a plain array is plain.                               *)
ArrayOK ==
  Plain(given) =>
    /\ argv[1] = given[1]
    /\ \A k \in 2..argc : Has(argv[k], Eq) \/ Escape(argv[k]) = argv[k]

Parted(q, sep) ==
  \A j \in 1..Len(q) : q[j] = sep => j \in 2..(Len(q) - 1) /\ q[j - 1] \notin {sep, Mark}

(* The first element of what is being serialized is not left out.          *)
FirstKept == job.sep = Comma => IsOAuth(argv[2])

PartedOK ==
  Plain(given) =>
    /\ pc = "result" /\ FirstKept =>
         /\ Parted(query, job.sep)
         /\ i > job.start => query # <<>>
         /\ query # <<>> /\ ~ first => query[Len(query)] \notin {job.sep, Mark}
    /\ pc \in {"result", "returned"} =>
         \A k \in 1..Len(sent) :
           \/ call.form = "header" /\ k = 1 /\ ~ IsOAuth(argv[2])
           \/ Parted(sent[k], IF call.form = "header" /\ k = 1 THEN Comma ELSE Amp)

OnceOK ==
  \A key \in ProtocolWords : Times(argv, key) <= 1 \/ Times(argv, key) <= Times(given, key)

IInv == TypeOK /\ JobOK /\ LoopOK /\ KeyOK /\ ArrayOK /\ PartedOK /\ OnceOK

-----------------------------------------------------------------------------
(* oauth_add_protocol.                                                     *)
Extends(a, b) ==
  /\ a \in Seq(Seq(Chars)) /\ b \in Seq(Seq(Chars))
  /\ Len(a) <= Len(b)
  /\ \A k \in 1..Len(a) : b[k] = a[k]
  /\ \A k \in 1..Len(b) : k > Len(a) => Has(b[k], Eq)

LEMMA AppendExtends ==
  ASSUME NEW a, NEW b, NEW e \in Seq(Chars), Extends(a, b), Has(e, Eq)
  PROVE  Extends(a, Append(b, e))
<1>1. /\ a \in Seq(Seq(Chars)) /\ b \in Seq(Seq(Chars)) /\ Len(a) \in Nat /\ Len(b) \in Nat
      /\ Len(a) <= Len(b)
      /\ \A k \in 1..Len(a) : b[k] = a[k]
      /\ \A k \in 1..Len(b) : k > Len(a) => Has(b[k], Eq)
  BY DEF Extends
<1>2. /\ Append(b, e) \in Seq(Seq(Chars)) /\ Len(Append(b, e)) = Len(b) + 1
      /\ \A k \in 1..Len(b) : Append(b, e)[k] = b[k]
      /\ Append(b, e)[Len(b) + 1] = e
  BY <1>1
<1> DEFINE c == Append(b, e)
<1> HIDE DEF c
<1>3. /\ c \in Seq(Seq(Chars)) /\ Len(c) = Len(b) + 1
      /\ \A k \in 1..Len(b) : c[k] = b[k]
      /\ c[Len(b) + 1] = e
  BY <1>2 DEF c
<1>4. \A k \in 1..Len(a) : c[k] = a[k]
  BY <1>1, <1>3
<1>5. \A k \in 1..Len(c) : k > Len(a) => Has(c[k], Eq)
  <2> SUFFICES ASSUME NEW k \in 1..Len(c), k > Len(a) PROVE Has(c[k], Eq)
    OBVIOUS
  <2>1. CASE k = Len(b) + 1
    BY <1>3, <2>1
  <2>2. CASE k # Len(b) + 1
    <3>1. k \in 1..Len(b) /\ c[k] = b[k]
      BY <1>1, <1>3, <2>2
    <3>2. QED
      BY <1>1, <3>1
  <2>3. QED
    BY <2>1, <2>2
<1>6. Len(a) <= Len(c)
  BY <1>1, <1>3
<1>7. Extends(a, c)
  BY <1>1, <1>3, <1>4, <1>5, <1>6 DEF Extends
<1>8. QED
  BY <1>7 DEF c

(* No word is there twice that was not there as often before.              *)
NotTwice(a, n) == \A word \in ProtocolWords : Times(a, word) <= 1 \/ Times(a, word) <= n[word]

LEMMA MissingExtends ==
  ASSUME NEW a, NEW b, Extends(a, b), NEW key \in ProtocolWords, NEW value \in Seq(Chars),
         NEW n \in [ProtocolWords -> Nat], NotTwice(b, n)
  PROVE  /\ Extends(a, AddMissing(b, key, value)) /\ NotTwice(AddMissing(b, key, value), n)
         /\ Len(b) <= Len(AddMissing(b, key, value))
         /\ \A k \in 1..Len(b) : AddMissing(b, key, value)[k] = b[k]
<1>1. b \in Seq(Seq(Chars)) /\ key \in Chars
  BY DEF Extends, ProtocolWords, Nonce, Timestamp, Version, Chars
<1> DEFINE c == AddMissing(b, key, value)
<1>2. /\ c = b \/ \E e \in Seq(Chars) : c = Append(b, e) /\ Has(e, Eq)
      /\ Times(c, key) <= 1 \/ Times(c, key) = Times(b, key)
      /\ \A other : other # key => Times(c, other) = Times(b, other)
  BY <1>1, AddMissingOnce
<1> HIDE DEF c
<1>3. Extends(a, c) /\ Len(b) <= Len(c) /\ (\A k \in 1..Len(b) : c[k] = b[k])
  <2>1. CASE c = b
    BY <1>1, <2>1
  <2>2. ASSUME NEW e \in Seq(Chars), c = Append(b, e), Has(e, Eq)
        PROVE  Extends(a, c) /\ Len(b) <= Len(c) /\ (\A k \in 1..Len(b) : c[k] = b[k])
    BY <1>1, <2>2, AppendExtends
  <2>3. QED
    BY <1>2, <2>1, <2>2
<1>4. NotTwice(c, n)
  BY <1>2 DEF NotTwice
<1>5. QED
  BY <1>3, <1>4 DEF c

LEMMA OtherExtends ==
  ASSUME NEW a, NEW b, Extends(a, b), NEW key \in Chars \ ProtocolWords, NEW value \in Seq(Chars),
         NEW n, NotTwice(b, n)
  PROVE  /\ Extends(a, AddParam(b, key, value)) /\ NotTwice(AddParam(b, key, value), n)
         /\ Len(AddParam(b, key, value)) = Len(b) + 1
         /\ \A k \in 1..Len(b) : AddParam(b, key, value)[k] = b[k]
         /\ Is(AddParam(b, key, value)[Len(b) + 1], key)
<1>1. b \in Seq(Seq(Chars)) /\ Len(b) \in Nat
  BY DEF Extends
<1>2. PICK e \in Seq(Chars) :
        /\ AddParam(b, key, value) = Append(b, e)
        /\ Is(e, key) /\ Has(e, Eq)
        /\ \A other : Is(e, other) => other = key
  BY <1>1, AddParamAppends
<1>3. Extends(a, Append(b, e))
  BY <1>2, AppendExtends
<1>4. ASSUME NEW word \in ProtocolWords PROVE Times(Append(b, e), word) = Times(b, word)
  <2>1. ~ Is(e, word)
    BY <1>2
  <2>2. QED
    BY <1>1, <2>1, AppendTimes
<1>5. /\ Len(Append(b, e)) = Len(b) + 1 /\ Append(b, e)[Len(b) + 1] = e
      /\ \A k \in 1..Len(b) : Append(b, e)[k] = b[k]
  BY <1>1
<1>6. NotTwice(Append(b, e), n)
  BY <1>4, Zenon DEF NotTwice
<1>7. QED
  BY <1>2, <1>3, <1>5, <1>6, Zenon

LEMMA ProtocolAdded ==
  ASSUME TypeOK, AddProtocol, NEW n \in [ProtocolWords -> Nat], NotTwice(argv, n)
  PROVE  /\ Extends(argv, argv') /\ NotTwice(argv', n)
         /\ \E k \in 1..Len(argv') : Is(argv'[k], ConsumerKey)
<1> DEFINE a1 == AddMissing(argv, Nonce, <<Random>>)
<1> DEFINE a2 == AddMissing(a1, Timestamp, <<Now>>)
<1> DEFINE a3 == IF call.t_key = NULL THEN a2 ELSE AddParam(a2, Token, call.t_key)
<1> DEFINE a4 == AddParam(a3, ConsumerKey, call.c_key)
<1> DEFINE a5 == AddParam(a4, SignatureMethod, <<Named>>)
<1> DEFINE a6 == AddMissing(a5, Version, <<OneDotZero>>)
<1>1. argv' = a6
  BY DEF AddProtocol
<1>2. /\ <<Random>> \in Seq(Chars) /\ <<Now>> \in Seq(Chars) /\ <<Named>> \in Seq(Chars)
      /\ <<OneDotZero>> \in Seq(Chars)
      /\ Nonce \in ProtocolWords /\ Timestamp \in ProtocolWords /\ Version \in ProtocolWords
  BY DEF Random, Now, Named, OneDotZero, Chars, ProtocolWords
<1>3. /\ Token \in Chars \ ProtocolWords
      /\ ConsumerKey \in Chars \ ProtocolWords
      /\ SignatureMethod \in Chars \ ProtocolWords
  BY DEF Token, ConsumerKey, SignatureMethod, ProtocolWords, Nonce, Timestamp, Version, Chars
<1>4. call.c_key \in Seq(Chars) /\ (call.t_key # NULL => call.t_key \in Seq(Chars))
  BY StringsAssumption DEF TypeOK, Calls
<1>5. Extends(argv, argv)
  BY DEF TypeOK, Extends
<1>6. Extends(argv, a1) /\ NotTwice(a1, n)
  BY <1>2, <1>5, MissingExtends, Zenon
<1> HIDE DEF a1
<1>7. Extends(argv, a2) /\ NotTwice(a2, n)
  BY <1>2, <1>6, MissingExtends, Zenon
<1> HIDE DEF a2
<1>8. Extends(argv, a3) /\ NotTwice(a3, n)
  <2>1. CASE call.t_key = NULL
    BY <1>7, <2>1
  <2>2. CASE call.t_key # NULL
    <3>1. a3 = AddParam(a2, Token, call.t_key)
      BY <2>2
    <3>2. Extends(argv, AddParam(a2, Token, call.t_key)) /\ NotTwice(AddParam(a2, Token, call.t_key), n)
      BY <1>3, <1>4, <1>7, <2>2, OtherExtends, Zenon
    <3>3. QED
      BY <3>1, <3>2, Zenon
  <2>3. QED
    BY <2>1, <2>2
<1> HIDE DEF a3
<1> DEFINE m == Len(a3) + 1
<1>9. /\ Extends(argv, a4) /\ NotTwice(a4, n) /\ Len(a4) = m /\ Is(a4[m], ConsumerKey)
  BY <1>3, <1>4, <1>8, OtherExtends, Zenon
<1> HIDE DEF a4
<1>10. /\ Extends(argv, a5) /\ NotTwice(a5, n) /\ Len(a5) = Len(a4) + 1
       /\ \A k \in 1..Len(a4) : a5[k] = a4[k]
  BY <1>2, <1>3, <1>9, OtherExtends, Zenon
<1> HIDE DEF a5
<1>11. /\ Extends(argv, a6) /\ NotTwice(a6, n) /\ Len(a5) <= Len(a6)
       /\ \A k \in 1..Len(a5) : a6[k] = a5[k]
  <2>1. Extends(argv, a5) /\ NotTwice(a5, n)
    BY <1>10
  <2> HIDE DEF ProtocolWords
  <2>2. Version \in ProtocolWords /\ <<OneDotZero>> \in Seq(Chars)
    BY <1>2
  <2>3. QED
    BY <2>1, <2>2, MissingExtends, ZenonT(60)
<1> HIDE DEF a6
<1>12. m \in 1..Len(a6) /\ Is(a6[m], ConsumerKey)
  <2>1. Len(a3) \in Nat /\ Len(a5) \in Nat /\ Len(a6) \in Nat
    BY <1>8, <1>10, <1>11 DEF Extends
  <2>2. m \in 1..Len(a4) /\ m \in 1..Len(a5) /\ m \in 1..Len(a6)
    BY <1>9, <1>10, <1>11, <2>1
  <2>3. a6[m] = a4[m]
    BY <1>10, <1>11, <2>2, Zenon
  <2>4. QED
    BY <1>9, <2>2, <2>3, Zenon
<1>13. QED
  BY <1>1, <1>11, <1>12, Zenon

-----------------------------------------------------------------------------
LEMMA GivenTimes ==
  ASSUME NEW a \in Seq(Seq(Chars))
  PROVE  [word \in ProtocolWords |-> Times(a, word)] \in [ProtocolWords -> Nat]
<1>1. <<>> \in Seq(Chars)
  OBVIOUS
<1>2. \A word : Times(a, word) \in Nat
  BY <1>1, AppendTimes
<1>3. QED
  BY <1>2

(* A plain array stays one when parameters with '=' follow it.             *)
LEMMA ExtendsArrayOK ==
  ASSUME ArrayOK, Extends(argv, argv'), argv # <<>>, given' = given
  PROVE  ArrayOK'
<1> SUFFICES ASSUME Plain(given)
             PROVE  /\ argv'[1] = given[1]
                    /\ \A k \in 2..Len(argv') : Has(argv'[k], Eq) \/ Escape(argv'[k]) = argv'[k]
  BY DEF ArrayOK, argc
<1>1. /\ Len(argv) \in Nat \ {0} /\ Len(argv') \in Nat
      /\ \A k \in 1..Len(argv) : argv'[k] = argv[k]
      /\ \A k \in 1..Len(argv') : k > Len(argv) => Has(argv'[k], Eq)
  BY DEF Extends
<1>2. /\ argv[1] = given[1]
      /\ \A k \in 2..Len(argv) : Has(argv[k], Eq) \/ Escape(argv[k]) = argv[k]
  BY DEF ArrayOK, argc
<1>3. argv'[1] = given[1]
  BY <1>1, <1>2
<1>4. ASSUME NEW k \in 2..Len(argv') PROVE Has(argv'[k], Eq) \/ Escape(argv'[k]) = argv'[k]
  <2>1. k \in 1..Len(argv') /\ (k > Len(argv) \/ (k \in 1..Len(argv) /\ k \in 2..Len(argv)))
    BY <1>1
  <2>2. CASE k > Len(argv)
    BY <1>1, <2>1, <2>2
  <2>3. CASE k \in 1..Len(argv) /\ k \in 2..Len(argv)
    <3>1. argv'[k] = argv[k]
      BY <1>1, <2>3
    <3>2. QED
      BY <1>2, <2>3, <3>1
  <2>4. QED
    BY <2>1, <2>2, <2>3
<1>5. QED
  BY <1>3, <1>4

LEMMA InitIsIInv == Init => IInv
<1> SUFFICES ASSUME Init PROVE IInv
  OBVIOUS
<1> USE DEF Init
<1>1. argv \in Seq(Seq(Chars)) /\ argv # <<>>
  BY StringsAssumption
<1>2. TypeOK
  <2>1. <<>> \in Seq(Chars) /\ <<>> \in Seq(Seq(Chars)) /\ Len(<<>>) = 0
    OBVIOUS
  <2>2. job \in [start : {0, 1}, sep : {Amp, Comma}, mod : SUBSET {1, 2, 4}]
    OBVIOUS
  <2>3. base \in [url : Seq(Chars), query : Seq(Chars)]
    BY <2>1
  <2>4. signings \in 1..MaxSignings
    BY SigningsAssumption
  <2>5. /\ query \in Seq(Chars) /\ sign \in Seq(Chars)
        /\ sent \in Seq(Seq(Chars)) /\ Len(sent) <= 2
    BY <2>1
  <2>6. /\ pc = "call" /\ i \in Nat /\ room \in Nat /\ first \in BOOLEAN
        /\ call \in Calls /\ given = argv
    OBVIOUS
  <2> HIDE DEF Init
  <2>7. QED
    BY <1>1, <2>2, <2>3, <2>4, <2>5, <2>6 DEF TypeOK
<1>3. JobOK /\ LoopOK /\ KeyOK /\ PartedOK
  BY DEF JobOK, LoopOK, KeyOK, PartedOK
<1>4. ArrayOK
  BY DEF ArrayOK, Plain, argc
<1>5. OnceOK
  <2>1. \A word \in ProtocolWords : Times(given, word) \in Nat
    BY <1>1, GivenTimes
  <2>2. QED
    BY <2>1 DEF OnceOK
<1>6. QED
  BY <1>2, <1>3, <1>4, <1>5 DEF IInv

LEMMA AddProtocolStep == IInv /\ AddProtocol => IInv'
<1> SUFFICES ASSUME TypeOK, JobOK, LoopOK, KeyOK, ArrayOK, PartedOK, OnceOK, AddProtocol
             PROVE  IInv'
  BY DEF IInv
<1> DEFINE n == [word \in ProtocolWords |-> Times(given, word)]
<1>1. pc' = "sort" /\ UNCHANGED <<given, call, loop, base, sign, sent, signings>> /\ pc = "call"
  BY DEF AddProtocol
<1>2. n \in [ProtocolWords -> Nat] /\ NotTwice(argv, n)
  BY GivenTimes DEF TypeOK, OnceOK, NotTwice
<1>3. \A word \in ProtocolWords : n[word] = Times(given, word)
  OBVIOUS
<1> HIDE DEF n
<1>4. /\ Extends(argv, argv') /\ NotTwice(argv', n)
      /\ \E k \in 1..Len(argv') : Is(argv'[k], ConsumerKey)
  BY <1>2, ProtocolAdded
<1>5. TypeOK'
  <2>1. argv' \in Seq(Seq(Chars)) /\ argv' # <<>>
    BY <1>4 DEF Extends, TypeOK
  <2>2. QED
    BY <1>1, <2>1 DEF TypeOK, loop
<1>6. JobOK' /\ LoopOK' /\ PartedOK'
  BY <1>1 DEF JobOK, LoopOK, PartedOK
<1>7. KeyOK'
  BY <1>1, <1>4 DEF KeyOK, argc
<1>8. ArrayOK'
  BY <1>1, <1>4, ExtendsArrayOK DEF TypeOK
<1>9. OnceOK'
  BY <1>1, <1>3, <1>4 DEF OnceOK, NotTwice
<1>10. QED
  BY <1>5, <1>6, <1>7, <1>8, <1>9 DEF IInv

LEMMA SortStep == IInv /\ Sort => IInv'
<1> SUFFICES ASSUME TypeOK, JobOK, LoopOK, KeyOK, ArrayOK, PartedOK, OnceOK, Sort
             PROVE  IInv'
  BY DEF IInv
<1>1. /\ pc = "sort" /\ pc' = "query" /\ argv' = Sorted(argv)
      /\ job' = Job(1, Amp, {}) /\ i' = 1 /\ first' = FALSE /\ query' = <<>> /\ room' = 1
      /\ UNCHANGED <<given, call, base, sign, sent, signings>>
  BY DEF Sort, Serialize, Job
<1>2. argv \in Arguments
  BY DEF TypeOK, Arguments
<1>3. Len(argv) \in Nat \ {0}
  BY <1>2 DEF Arguments
<1>4. argv' \in Arguments /\ Len(argv') = Len(argv) /\ argv'[1] = argv[1]
  BY <1>1, <1>2, SortedIsAPermutation
<1>5. PICK at \in [1..Len(argv) -> 1..Len(argv)] :
        /\ at[1] = 1
        /\ \A k \in 1..Len(argv) : argv'[k] = argv[at[k]]
        /\ \A k, m \in 1..Len(argv) : at[k] = at[m] => k = m
        /\ \A k \in 1..Len(argv) : \E m \in 1..Len(argv) : at[m] = k
  <2>1. PICK at \in [1..Len(argv) -> 1..Len(argv)] :
          /\ at[1] = 1
          /\ \A k \in 1..Len(argv) : Sorted(argv)[k] = argv[at[k]]
          /\ \A k, m \in 1..Len(argv) : at[k] = at[m] => k = m
          /\ \A k \in 1..Len(argv) : \E m \in 1..Len(argv) : at[m] = k
    BY <1>2, SortedIsAPermutation
  <2>2. argv' = Sorted(argv)
    BY <1>1
  <2>3. QED
    BY <2>1, <2>2, Zenon
<1>6. TypeOK'
  <2>1. argv' \in Seq(Seq(Chars)) /\ argv' # <<>>
    BY <1>4 DEF Arguments
  <2>2. job' \in [start : {0, 1}, sep : {Amp, Comma}, mod : SUBSET {1, 2, 4}]
    BY <1>1 DEF Job
  <2>3. i' \in Nat /\ i' <= Len(argv') /\ query' \in Seq(Chars) /\ room' \in Nat
    BY <1>1, <1>3, <1>4
  <2>4. QED
    BY <1>1, <2>1, <2>2, <2>3 DEF TypeOK, argc
<1>7. JobOK' /\ LoopOK' /\ PartedOK'
  BY <1>1 DEF JobOK, LoopOK, PartedOK, Job
<1>8. KeyOK'
  <2>1. PICK k \in 1..Len(argv) : Is(argv[k], ConsumerKey)
    BY <1>1 DEF KeyOK, argc
  <2>2. PICK m \in 1..Len(argv) : at[m] = k
    BY <1>5
  <2>3. m \in 1..Len(argv') /\ Is(argv'[m], ConsumerKey)
    BY <1>4, <1>5, <2>1, <2>2
  <2>4. QED
    BY <1>1, <2>3 DEF KeyOK, argc
<1>9. ArrayOK'
  <2> SUFFICES ASSUME Plain(given)
               PROVE  /\ argv'[1] = given[1]
                      /\ \A k \in 2..Len(argv') : Has(argv'[k], Eq) \/ Escape(argv'[k]) = argv'[k]
    BY <1>1 DEF ArrayOK, argc
  <2>1. /\ argv[1] = given[1]
        /\ \A k \in 2..Len(argv) : Has(argv[k], Eq) \/ Escape(argv[k]) = argv[k]
    BY DEF ArrayOK, argc
  <2>2. ASSUME NEW k \in 2..Len(argv') PROVE Has(argv'[k], Eq) \/ Escape(argv'[k]) = argv'[k]
    <3>1. k \in 1..Len(argv) /\ 1 \in 1..Len(argv) /\ k # 1
      BY <1>3, <1>4
    <3>2. at[k] \in 1..Len(argv) /\ at[k] # 1 /\ argv'[k] = argv[at[k]]
      BY <1>5, <3>1
    <3>3. at[k] \in 2..Len(argv)
      BY <1>3, <3>2
    <3>4. QED
      BY <2>1, <3>2, <3>3
  <2>3. QED
    BY <1>4, <2>1, <2>2
<1>10. OnceOK'
  BY <1>1, <1>2, SortedTimes DEF OnceOK
<1>11. QED
  BY <1>6, <1>7, <1>8, <1>9, <1>10 DEF IInv

-----------------------------------------------------------------------------
(* Nothing is left out when a get or the base string is serialized, nor is *)
(* the first element of any other text.                                    *)
LEMMA KeptByJob ==
  /\ job.mod = {} => Kept
  /\ job = Job(1, Comma, {2, 4}) /\ i = 1 /\ FirstKept => Kept
  /\ job = Job(0, Amp, {1}) /\ i = 0 /\ Plain(given) /\ argv[1] = given[1] => Kept
<1>1. job.mod = {} => Kept
  BY DEF Kept
<1>2. job = Job(1, Comma, {2, 4}) /\ i = 1 /\ FirstKept => Kept
  BY DEF Kept, Job, FirstKept
<1>3. job = Job(0, Amp, {1}) /\ i = 0 /\ Plain(given) /\ argv[1] = given[1] => Kept
  BY DEF Kept, Job, Plain, IsOAuth, OAuthWords, Host, ConsumerKey, Version
<1>4. QED
  BY <1>1, <1>2, <1>3

LEMMA SkipElementStep == IInv /\ SkipElement => IInv'
<1> SUFFICES ASSUME TypeOK, JobOK, LoopOK, KeyOK, ArrayOK, PartedOK, OnceOK, SkipElement
             PROVE  IInv'
  BY DEF IInv
<1>1. /\ pc \in {"query", "result"} /\ i < argc /\ ~ Kept /\ i' = i + 1
      /\ UNCHANGED <<argv, given, call, pc, job, first, query, room, base, sign, sent, signings>>
  BY DEF SkipElement
<1>2. i \in Nat /\ argc \in Nat /\ job.start \in {0, 1} /\ i >= job.start
  BY <1>1 DEF TypeOK, argc, LoopOK
<1>3. job.mod # {}
  BY <1>1, KeptByJob
<1>4. TypeOK'
  BY <1>1, <1>2 DEF TypeOK, argc
<1>5. JobOK' /\ ArrayOK' /\ OnceOK'
  BY <1>1 DEF JobOK, ArrayOK, OnceOK, argc
<1>6. LoopOK'
  BY <1>1, <1>2 DEF LoopOK
<1>7. KeyOK'
  <2>1. ~ (pc = "result" /\ call.form = "get")
    BY <1>3 DEF JobOK, Job
  <2>2. QED
    BY <1>1, <2>1 DEF KeyOK, argc
<1>8. PartedOK'
  <2>1. ASSUME pc = "result", Plain(given), FirstKept PROVE i > job.start
    <3>1. argv[1] = given[1]
      BY <2>1 DEF ArrayOK
    <3>2. \/ job = Job(1, Comma, {2, 4})
          \/ job = Job(0, Amp, {1})
      BY <1>3, <2>1 DEF JobOK, Job
    <3>3. i # job.start
      BY <1>1, <2>1, <3>1, <3>2, KeptByJob DEF Job
    <3>4. QED
      BY <1>2, <3>3
  <2>2. QED
    BY <1>1, <2>1 DEF PartedOK, FirstKept
<1>9. QED
  BY <1>4, <1>5, <1>6, <1>7, <1>8 DEF IInv

-----------------------------------------------------------------------------
(* What AddElement appends: a separator, the text, and a '?' after a URL.  *)
UrlEnd(e) == IF IsUrl(e) THEN <<Mark>> ELSE <<>>

LEMMA Joined ==
  ASSUME NEW q \in Seq(Chars), NEW s \in Seq(Chars)
  PROVE  /\ q \o s \in Seq(Chars) /\ Len(q \o s) = Len(q) + Len(s)
         /\ \A k \in 1..Len(q) : (q \o s)[k] = q[k]
         /\ \A k \in 1..Len(s) : (q \o s)[Len(q) + k] = s[k]
OBVIOUS

Joins(w, q, s, t, u) ==
  /\ w \in Seq(Chars)
  /\ Len(w) = Len(q) + Len(s) + Len(t) + Len(u)
  /\ \A k \in 1..Len(q) : w[k] = q[k]
  /\ \A k \in 1..Len(s) : w[Len(q) + k] = s[k]
  /\ \A k \in 1..Len(t) : w[Len(q) + Len(s) + k] = t[k]
  /\ \A k \in 1..Len(u) : w[Len(q) + Len(s) + Len(t) + k] = u[k]

LEMMA Appended ==
  ASSUME NEW q \in Seq(Chars), NEW s \in Seq(Chars), NEW t \in Seq(Chars), NEW u \in Seq(Chars)
  PROVE  Joins(q \o s \o t \o u, q, s, t, u)
<1>1. Len(q) \in Nat /\ Len(s) \in Nat /\ Len(t) \in Nat /\ Len(u) \in Nat
  OBVIOUS
<1> DEFINE x == q \o s
<1>2. /\ x \in Seq(Chars) /\ Len(x) = Len(q) + Len(s)
      /\ \A k \in 1..Len(q) : x[k] = q[k]
      /\ \A k \in 1..Len(s) : x[Len(q) + k] = s[k]
  OBVIOUS
<1> DEFINE y == x \o t
<1> HIDE DEF x
<1>3. /\ y \in Seq(Chars) /\ Len(y) = Len(x) + Len(t)
      /\ \A k \in 1..Len(x) : y[k] = x[k]
      /\ \A k \in 1..Len(t) : y[Len(x) + k] = t[k]
  BY <1>2, Joined, Zenon
<1> DEFINE z == y \o u
<1> HIDE DEF y
<1>4. /\ z \in Seq(Chars) /\ Len(z) = Len(y) + Len(u)
      /\ \A k \in 1..Len(y) : z[k] = y[k]
      /\ \A k \in 1..Len(u) : z[Len(y) + k] = u[k]
  BY <1>3, Joined, Zenon
<1> HIDE DEF z
<1>5. Len(z) = Len(q) + Len(s) + Len(t) + Len(u)
  BY <1>1, <1>2, <1>3, <1>4
<1>6. \A k \in 1..Len(q) : k \in 1..Len(x) /\ k \in 1..Len(y) /\ z[k] = q[k]
  BY <1>1, <1>2, <1>3, <1>4
<1>7. ASSUME NEW k \in 1..Len(s) PROVE z[Len(q) + k] = s[k]
  <2>1. Len(q) + k \in 1..Len(x) /\ Len(q) + k \in 1..Len(y)
    BY <1>1, <1>2, <1>3
  <2>2. QED
    BY <1>2, <1>3, <1>4, <2>1
<1>8. ASSUME NEW k \in 1..Len(t) PROVE z[Len(q) + Len(s) + k] = t[k]
  <2>1. Len(x) + k \in 1..Len(y) /\ Len(x) + k = Len(q) + Len(s) + k
    BY <1>1, <1>2, <1>3
  <2>2. QED
    BY <1>3, <1>4, <2>1
<1>9. ASSUME NEW k \in 1..Len(u) PROVE z[Len(q) + Len(s) + Len(t) + k] = u[k]
  BY <1>1, <1>2, <1>3, <1>4
<1>10. z = q \o s \o t \o u
  BY DEF x, y, z
<1>11. Joins(z, q, s, t, u)
  BY <1>4, <1>5, <1>6, <1>7, <1>8, <1>9 DEF Joins
<1>12. QED
  BY <1>10, <1>11

LEMMA ElementText ==
  ASSUME TypeOK, AddElement, NEW e, e = argv[i + 1]
  PROVE  /\ e \in Seq(Chars)
         /\ Text(e) \in Seq(Chars) /\ Text(e) # <<>>
         /\ Separator \in Seq(Chars) /\ UrlEnd(e) \in Seq(Chars)
         /\ Joins(query', query, Separator, Text(e), UrlEnd(e))
         /\ Is(e, ConsumerKey) => Text(e)[1] = ConsumerKey
<1>1. i < argc /\ query' = query \o Separator \o Text(argv[i + 1]) \o UrlEnd(argv[i + 1])
  BY DEF AddElement, UrlEnd
<1>2. i \in Nat /\ argc \in Nat /\ argv \in Seq(Seq(Chars)) /\ i + 1 \in 1..argc
  BY <1>1 DEF TypeOK, argc
<1>3. e \in Seq(Chars)
  BY <1>2 DEF argc
<1>4. Separator \in Seq(Chars) /\ UrlEnd(e) \in Seq(Chars)
  <2>1. job.sep \in Chars /\ Mark \in Chars
    BY DEF TypeOK, Amp, Comma, Mark, Chars
  <2>2. QED
    BY <2>1 DEF Separator, UrlEnd
<1>5. ASSUME IsUrl(e)
      PROVE  Text(e) \in Seq(Chars) /\ Text(e) # <<>> /\ (Is(e, ConsumerKey) => Text(e)[1] = ConsumerKey)
  <2>1. /\ Text(e) \in Seq(Chars) /\ Text(e) # <<>>
        /\ \A k \in 1..Len(e) : e[k] # Space => Text(e)[k] = e[k]
    BY <1>3, <1>5, UrlText
  <2>2. Is(e, ConsumerKey) => 1 \in 1..Len(e) /\ e[1] = ConsumerKey /\ e[1] # Space
    BY <1>3 DEF Is, ConsumerKey, Space
  <2>3. QED
    BY <2>1, <2>2
<1>6. ASSUME ~ IsUrl(e)
      PROVE  Text(e) \in Seq(Chars) /\ Text(e) # <<>> /\ (Is(e, ConsumerKey) => Text(e)[1] = ConsumerKey)
  BY <1>3, <1>6, ParameterText
<1>7. Text(e) \in Seq(Chars) /\ Text(e) # <<>> /\ (Is(e, ConsumerKey) => Text(e)[1] = ConsumerKey)
  BY <1>5, <1>6
<1>8. Joins(query', query, Separator, Text(e), UrlEnd(e))
  <2>1. query \in Seq(Chars)
    BY DEF TypeOK
  <2>2. Joins(query \o Separator \o Text(e) \o UrlEnd(e), query, Separator, Text(e), UrlEnd(e))
    BY <1>4, <1>7, <2>1, Appended, Zenon
  <2>3. QED
    BY <1>1, <2>2
<1>9. QED
  BY <1>3, <1>4, <1>7, <1>8

(* The consumer key that is appended stands after a separator.             *)
LEMMA KeyAppended ==
  ASSUME TypeOK, LoopOK, AddElement, job.sep = Amp,
         KeyIn(query) \/ Is(argv[i + 1], ConsumerKey)
  PROVE  KeyIn(query')
<1> DEFINE e == argv[i + 1]
<1> DEFINE s == Separator
<1> DEFINE t == Text(e)
<1> DEFINE u == UrlEnd(e)
<1>1. /\ t \in Seq(Chars) /\ t # <<>> /\ s \in Seq(Chars) /\ u \in Seq(Chars)
      /\ Joins(query', query, s, t, u)
      /\ Is(e, ConsumerKey) => t[1] = ConsumerKey
  BY ElementText
<1>2. query \in Seq(Chars)
  BY DEF TypeOK
<1>3. /\ i = job.start => query = <<>> /\ ~ first
      /\ first => query # <<>> /\ query[Len(query)] = Mark
      /\ s = IF i = job.start \/ first THEN <<>> ELSE <<Amp>>
  BY DEF AddElement, LoopOK, Separator
<1> HIDE DEF e, s, t, u
<1>4. /\ Len(query') = Len(query) + Len(s) + Len(t) + Len(u)
      /\ \A k \in 1..Len(query) : query'[k] = query[k]
      /\ \A k \in 1..Len(s) : query'[Len(query) + k] = s[k]
      /\ \A k \in 1..Len(t) : query'[Len(query) + Len(s) + k] = t[k]
  BY <1>1 DEF Joins
<1>5. Len(query) \in Nat /\ Len(s) \in Nat /\ Len(t) \in Nat \ {0} /\ Len(u) \in Nat
  BY <1>1, <1>2
<1>6. CASE KeyIn(query)
  <2>1. PICK k \in 1..Len(query) : query[k] = ConsumerKey /\ (k > 1 => query[k - 1] \in {Amp, Mark})
    BY <1>6 DEF KeyIn
  <2>2. k \in 1..Len(query') /\ query'[k] = ConsumerKey
    BY <1>4, <1>5, <2>1
  <2>3. k > 1 => query'[k - 1] \in {Amp, Mark}
    <3>1. k > 1 => k - 1 \in 1..Len(query)
      BY <1>5
    <3>2. QED
      BY <1>4, <2>1, <3>1
  <2>4. QED
    BY <2>2, <2>3 DEF KeyIn
<1>7. CASE Is(e, ConsumerKey)
  <2> DEFINE k == Len(query) + Len(s) + 1
  <2>1. k \in 1..Len(query')
    BY <1>4, <1>5
  <2>2. query'[k] = ConsumerKey
    BY <1>1, <1>4, <1>5, <1>7
  <2>3. CASE i = job.start
    <3>1. k = 1
      BY <1>3, <2>3
    <3>2. QED
      BY <2>1, <2>2, <3>1 DEF KeyIn
  <2>4. CASE i # job.start /\ first
    <3>1. k - 1 = Len(query) /\ Len(query) \in 1..Len(query) /\ query[Len(query)] = Mark
      BY <1>2, <1>3, <1>5, <2>4
    <3>2. query'[k - 1] = Mark
      BY <1>4, <3>1
    <3>3. QED
      BY <2>1, <2>2, <3>2 DEF KeyIn
  <2>5. CASE i # job.start /\ ~ first
    <3>1. s = <<Amp>> /\ k - 1 = Len(query) + 1 /\ 1 \in 1..Len(s) /\ s[1] = Amp
      BY <1>3, <1>5, <2>5
    <3>2. query'[k - 1] = Amp
      BY <1>4, <3>1
    <3>3. QED
      BY <2>1, <2>2, <3>2 DEF KeyIn
  <2>6. QED
    BY <2>3, <2>4, <2>5
<1>8. QED
  BY <1>6, <1>7 DEF e

(* What is appended to a well separated text leaves it so.                 *)
LEMMA PartedAppended ==
  ASSUME TypeOK, JobOK, LoopOK, ArrayOK, PartedOK, AddElement,
         pc = "result", Plain(given), FirstKept
  PROVE  /\ Parted(query', job.sep) /\ query' # <<>>
         /\ ~ first' => query'[Len(query')] \notin {job.sep, Mark}
<1> DEFINE e == argv[i + 1]
<1> DEFINE s == Separator
<1> DEFINE t == Text(e)
<1> DEFINE u == UrlEnd(e)
<1>1. /\ e \in Seq(Chars)
      /\ t \in Seq(Chars) /\ t # <<>> /\ s \in Seq(Chars) /\ u \in Seq(Chars)
      /\ Joins(query', query, s, t, u)
  BY ElementText
<1>2. query \in Seq(Chars) /\ i \in Nat /\ argc \in Nat /\ job.start \in {0, 1} /\ job.sep \in {Amp, Comma}
  BY DEF TypeOK, argc
<1>3. i < argc /\ first' = IsUrl(e)
  BY DEF AddElement
<1>4. /\ i >= job.start
      /\ i = job.start => query = <<>>
      /\ s = IF i = job.start \/ first THEN <<>> ELSE <<job.sep>>
      /\ u = IF IsUrl(e) THEN <<Mark>> ELSE <<>>
  BY DEF LoopOK, Separator, UrlEnd
<1>5. /\ Parted(query, job.sep)
      /\ i > job.start => query # <<>>
      /\ query # <<>> /\ ~ first => query[Len(query)] \notin {job.sep, Mark}
  BY DEF PartedOK
<1>6. /\ argv[1] = given[1] /\ argv[1] # <<>> /\ argv[1][1] = Host
      /\ \A c \in {Space, Amp, Mark} : ~ Has(argv[1], c)
      /\ \A k \in 2..argc : Has(argv[k], Eq) \/ Escape(argv[k]) = argv[k]
  BY DEF ArrayOK, Plain
<1>7. ASSUME IsUrl(e)
      PROVE  /\ s = <<>> /\ query = <<>> /\ job.sep = Amp
             /\ \A k \in 1..Len(t) : t[k] # Amp
  <2>1. i = 0 /\ job.start = 0 /\ e = argv[1]
    BY <1>7 DEF IsUrl
  <2>2. job.sep = Amp
    BY <2>1 DEF JobOK, Job
  <2>3. Len(t) = Len(e) /\ \A k \in 1..Len(e) : e[k] # Space => t[k] = e[k]
    BY <1>1, <1>7, UrlText
  <2>4. \A k \in 1..Len(e) : e[k] # Space /\ e[k] # Amp
    BY <1>6, <2>1 DEF Has
  <2>5. QED
    BY <1>4, <2>1, <2>2, <2>3, <2>4
<1>8. ASSUME ~ IsUrl(e) PROVE t \in Seq(Bare)
  <2>1. i # 0
    <3> SUFFICES ASSUME i = 0 PROVE FALSE
      OBVIOUS
    <3>1. job.start = 0 /\ e = argv[1]
      BY <1>2, <1>4
    <3>2. 1 \in 1..Len(e) /\ e[1] = Host
      BY <1>1, <1>6, <3>1
    <3>3. QED
      BY <1>8, <3>1, <3>2 DEF IsUrl, Has
  <2>2. i + 1 \in 2..argc
    BY <1>2, <1>3, <2>1
  <2>3. Has(e, Eq) \/ Escape(e) = e
    BY <1>6, <2>2
  <2>4. QED
    BY <1>1, <1>8, <2>3, ParameterText
<1> HIDE DEF e, s, t, u
<1>9. /\ Len(query') = Len(query) + Len(s) + Len(t) + Len(u)
      /\ \A k \in 1..Len(query) : query'[k] = query[k]
      /\ \A k \in 1..Len(s) : query'[Len(query) + k] = s[k]
      /\ \A k \in 1..Len(t) : query'[Len(query) + Len(s) + k] = t[k]
      /\ \A k \in 1..Len(u) : query'[Len(query) + Len(s) + Len(t) + k] = u[k]
  BY <1>1 DEF Joins
<1>10. Len(query) \in Nat /\ Len(s) \in Nat /\ Len(t) \in Nat \ {0} /\ Len(u) \in Nat
  BY <1>1, <1>2
<1>11. query' # <<>>
  BY <1>9, <1>10
<1>12. CASE IsUrl(e)
  <2>1. /\ Len(query) = 0 /\ Len(s) = 0 /\ u = <<Mark>> /\ job.sep = Amp /\ first'
        /\ \A k \in 1..Len(t) : t[k] # Amp
    BY <1>3, <1>4, <1>7, <1>12
  <2>2. \A j \in 1..Len(query') : query'[j] # Amp
    <3> SUFFICES ASSUME NEW j \in 1..Len(query') PROVE query'[j] # Amp
      OBVIOUS
    <3>1. Len(u) = 1 /\ u[1] = Mark
      BY <2>1
    <3>2. j \in 1..Len(t) \/ j = Len(t) + 1
      BY <1>9, <1>10, <2>1, <3>1
    <3>3. CASE j \in 1..Len(t)
      <4>1. Len(query) + Len(s) + j = j
        BY <2>1, <3>3
      <4>2. query'[j] = t[j]
        BY <1>9, <3>3, <4>1
      <4>3. QED
        BY <2>1, <3>3, <4>2
    <3>4. CASE j = Len(t) + 1
      <4>1. Len(query) + Len(s) + Len(t) + 1 = j /\ 1 \in 1..Len(u)
        BY <1>10, <2>1, <3>1, <3>4
      <4>2. query'[j] = Mark
        BY <1>9, <3>1, <4>1
      <4>3. QED
        BY <4>2 DEF Mark, Amp
    <3>5. QED
      BY <3>2, <3>3, <3>4
  <2>3. QED
    BY <1>11, <2>1, <2>2 DEF Parted
<1>13. CASE ~ IsUrl(e)
  <2>1. u = <<>> /\ Len(u) = 0 /\ t \in Seq(Bare)
    BY <1>4, <1>8, <1>13
  <2>2. \A k \in 1..Len(t) : t[k] \notin {Amp, Comma, Mark}
    BY <2>1 DEF Bare
  <2>3. query'[Len(query')] \notin {job.sep, Mark}
    <3>1. Len(query') = Len(query) + Len(s) + Len(t) /\ Len(t) \in 1..Len(t)
      BY <1>9, <1>10, <2>1
    <3>2. query'[Len(query) + Len(s) + Len(t)] = t[Len(t)]
      BY <1>9, <3>1
    <3>3. t[Len(t)] \notin {Amp, Comma, Mark}
      BY <2>2, <3>1
    <3>4. QED
      BY <1>2, <3>1, <3>2, <3>3
  <2>4. ASSUME NEW j \in 1..Len(query'), query'[j] = job.sep
        PROVE  j \in 2..(Len(query') - 1) /\ query'[j - 1] \notin {job.sep, Mark}
    <3>1. CASE j \in 1..Len(query)
      <4>1. j \in 2..(Len(query) - 1) /\ query[j - 1] \notin {job.sep, Mark}
        BY <1>5, <1>9, <2>4, <3>1 DEF Parted
      <4>2. j - 1 \in 1..Len(query) /\ j \in 2..(Len(query') - 1)
        BY <1>9, <1>10, <3>1, <4>1
      <4>3. QED
        BY <1>9, <4>1, <4>2
    <3>2. CASE j \in (Len(query) + 1)..(Len(query) + Len(s))
      <4>1. s = <<job.sep>> /\ i # job.start /\ ~ first /\ Len(s) = 1
        BY <1>4, <1>10, <3>2
      <4>2. query # <<>> /\ query[Len(query)] \notin {job.sep, Mark}
        BY <1>2, <1>4, <1>5, <4>1
      <4>3. j = Len(query) + 1 /\ Len(query) \in 1..Len(query)
        BY <1>2, <1>10, <3>2, <4>1, <4>2
      <4>4. j \in 2..(Len(query') - 1) /\ j - 1 = Len(query)
        BY <1>9, <1>10, <4>1, <4>3
      <4>5. QED
        BY <1>9, <4>2, <4>3, <4>4
    <3>3. CASE j \in (Len(query) + Len(s) + 1)..(Len(query) + Len(s) + Len(t))
      <4> DEFINE k == j - Len(query) - Len(s)
      <4>1. k \in 1..Len(t) /\ Len(query) + Len(s) + k = j
        BY <1>10, <3>3
      <4>2. query'[j] = t[k]
        BY <1>9, <4>1
      <4>3. QED
        BY <1>2, <2>2, <2>4, <4>1, <4>2
    <3>4. QED
      BY <1>9, <1>10, <2>1, <3>1, <3>2, <3>3
  <2>5. QED
    BY <1>11, <2>3, <2>4 DEF Parted
<1>14. QED
  BY <1>12, <1>13

LEMMA AddElementStep == IInv /\ AddElement => IInv'
<1> SUFFICES ASSUME TypeOK, JobOK, LoopOK, KeyOK, ArrayOK, PartedOK, OnceOK, AddElement
             PROVE  IInv'
  BY DEF IInv
<1> DEFINE e == argv[i + 1]
<1>1. /\ pc \in {"query", "result"} /\ i < argc /\ i' = i + 1
      /\ room' = Len(query) + Len(Text(e)) + 1 + 1
      /\ first' = IsUrl(e)
      /\ UNCHANGED <<argv, given, call, pc, job, base, sign, sent, signings>>
  BY DEF AddElement, Room
<1>2. /\ i \in Nat /\ argc \in Nat /\ job.start \in {0, 1} /\ i >= job.start
      /\ query \in Seq(Chars)
  BY <1>1 DEF TypeOK, argc, LoopOK
<1>3. /\ Text(e) \in Seq(Chars) /\ Text(e) # <<>>
      /\ Separator \in Seq(Chars) /\ UrlEnd(e) \in Seq(Chars)
      /\ Joins(query', query, Separator, Text(e), UrlEnd(e))
  BY ElementText
<1>4. /\ query' \in Seq(Chars)
      /\ Len(query') = Len(query) + Len(Separator) + Len(Text(e)) + Len(UrlEnd(e))
      /\ \A k \in 1..Len(UrlEnd(e)) :
           query'[Len(query) + Len(Separator) + Len(Text(e)) + k] = UrlEnd(e)[k]
  BY <1>3 DEF Joins
<1>5. /\ Len(query) \in Nat /\ Len(Separator) \in Nat /\ Len(Text(e)) \in Nat \ {0}
      /\ Len(UrlEnd(e)) \in Nat
  BY <1>2, <1>3
<1>6. TypeOK'
  <2>1. room' \in Nat /\ first' \in BOOLEAN /\ i' \in Nat /\ i' <= argc
    BY <1>1, <1>2, <1>5 DEF IsUrl
  <2>2. QED
    BY <1>1, <1>4, <2>1 DEF TypeOK, argc
<1>7. JobOK' /\ ArrayOK' /\ OnceOK'
  BY <1>1 DEF JobOK, ArrayOK, OnceOK, argc
<1>8. LoopOK'
  <2>1. i' >= job.start /\ i' # job.start
    BY <1>1, <1>2
  <2>2. first' => query' # <<>> /\ query'[Len(query')] = Mark
    <3> SUFFICES ASSUME first' PROVE query' # <<>> /\ query'[Len(query')] = Mark
      OBVIOUS
    <3>1. UrlEnd(e) = <<Mark>>
      BY <1>1 DEF UrlEnd
    <3>2. Len(UrlEnd(e)) = 1 /\ UrlEnd(e)[1] = Mark
      BY <3>1
    <3>3. Len(query') = Len(query) + Len(Separator) + Len(Text(e)) + 1 /\ Len(query') # 0
      BY <1>4, <1>5, <3>2
    <3>4. query'[Len(query')] = Mark
      BY <1>4, <3>2, <3>3
    <3>5. QED
      BY <3>3, <3>4
  <2>3. Len(query') + 1 <= room'
    <3>1. Len(Separator) + Len(UrlEnd(e)) <= 1
      <4>1. IsUrl(e) => i = job.start
        BY DEF IsUrl
      <4>2. CASE IsUrl(e)
        BY <4>1, <4>2 DEF Separator, UrlEnd
      <4>3. CASE ~ IsUrl(e)
        BY <4>3 DEF Separator, UrlEnd
      <4>4. QED
        BY <4>2, <4>3
    <3>2. QED
      BY <1>1, <1>4, <1>5, <3>1
  <2>4. QED
    BY <1>1, <2>1, <2>2, <2>3 DEF LoopOK
<1>9. KeyOK'
  <2>1. ASSUME pc = "result", call.form = "get", \E k \in 1..(i + 1) : Is(argv[k], ConsumerKey)
        PROVE  KeyIn(query')
    <3>1. job.sep = Amp
      BY <2>1 DEF JobOK, Job
    <3>2. PICK k \in 1..(i + 1) : Is(argv[k], ConsumerKey)
      BY <2>1
    <3>3. KeyIn(query) \/ Is(argv[i + 1], ConsumerKey)
      <4>1. k \in 1..i \/ k = i + 1
        BY <1>2
      <4>2. QED
        BY <2>1, <3>2, <4>1 DEF KeyOK
    <3>4. QED
      BY <3>1, <3>3, KeyAppended
  <2>2. QED
    BY <1>1, <2>1 DEF KeyOK, argc
<1>10. PartedOK'
  <2>1. FirstKept' = FirstKept
    BY <1>1 DEF FirstKept
  <2>2. ASSUME Plain(given), pc = "result", FirstKept
        PROVE  /\ Parted(query', job.sep) /\ query' # <<>>
               /\ ~ first' => query'[Len(query')] \notin {job.sep, Mark}
    BY <2>2, PartedAppended
  <2>3. QED
    BY <1>1, <2>1, <2>2 DEF PartedOK
<1>11. QED
  BY <1>6, <1>7, <1>8, <1>9, <1>10 DEF IInv

-----------------------------------------------------------------------------
(* The signature is one of the parameters, and no protocol parameter that  *)
(* is to be there once.                                                    *)
LEMMA SignedIsText ==
  ASSUME NEW method \in Methods
  PROVE  Signed(method) \in Seq(Chars)
<1>1. <<A, Amp>> \in Seq(Chars) /\ <<Z>> \in Seq(Chars) /\ <<Amp>> \in Seq(Chars)
      /\ <<Mac, Eq>> \in Seq(Chars) /\ <<Mac>> \in Seq(Chars)
  BY DEF A, Amp, Z, Mac, Eq, Chars
<1>2. Escape(c_secret) \in Seq(Chars) /\ Escape(t_secret) \in Seq(Chars)
  BY <1>1, EscapeIsInjective DEF c_secret, t_secret
<1>3. okey \in Seq(Chars)
  BY <1>1, <1>2 DEF okey
<1>4. method \in {"HMAC", "RSA", "PLAINTEXT"}
  BY MethodsAssumption
<1>5. QED
  BY <1>1, <1>3, <1>4 DEF Signed

LEMMA SignStep == IInv /\ Sign => IInv'
<1> SUFFICES ASSUME TypeOK, JobOK, LoopOK, KeyOK, ArrayOK, PartedOK, OnceOK, Sign
             PROVE  IInv'
  BY DEF IInv
<1> DEFINE n == [word \in ProtocolWords |-> Times(given, word)]
<1>1. /\ pc = "query" /\ i = argc /\ pc' = "result"
      /\ base' = [url |-> argv[1], query |-> query]
      /\ sign' = Signed(call.method) /\ argv' = AddParam(argv, Signature, sign')
      /\ SerializeResult(1)
      /\ UNCHANGED <<given, call, sent, signings>>
  BY DEF Sign
<1>2. /\ argv \in Seq(Seq(Chars)) /\ argv # <<>> /\ Len(argv) \in Nat \ {0}
      /\ call.method \in Methods /\ call.form \in Forms /\ query \in Seq(Chars)
  BY DEF TypeOK, Calls
<1>3. call.form \in {"get", "post", "header"}
  BY <1>2, FormsAssumption
<1>4. /\ \/ call.form = "get" /\ job' = Job(0, Amp, {})
         \/ call.form = "post" /\ job' = Job(1, Amp, {})
         \/ call.form = "header" /\ job' = Job(1, Comma, {2, 4})
      /\ i' = job'.start /\ first' = FALSE /\ query' = <<>> /\ room' = 1
  <2>1. CASE call.form = "get"
    BY <1>1, <2>1 DEF SerializeResult, Serialize, Job
  <2>2. CASE call.form = "post"
    BY <1>1, <2>2 DEF SerializeResult, Serialize, Job
  <2>3. CASE call.form = "header"
    BY <1>1, <2>3 DEF SerializeResult, Serialize, Job
  <2>4. QED
    BY <1>3, <2>1, <2>2, <2>3
<1>5. n \in [ProtocolWords -> Nat] /\ NotTwice(argv, n)
  BY GivenTimes DEF TypeOK, OnceOK, NotTwice
<1>6. \A word \in ProtocolWords : n[word] = Times(given, word)
  OBVIOUS
<1> HIDE DEF n
<1>7. sign' \in Seq(Chars) /\ Signature \in Chars \ ProtocolWords
  BY <1>1, <1>2, SignedIsText DEF Signature, Nonce, Timestamp, Version, ProtocolWords, Chars
<1>8. Extends(argv, argv) /\ argv' = AddParam(argv, Signature, sign')
  BY <1>1, <1>2 DEF Extends
<1>9. Extends(argv, argv') /\ NotTwice(argv', n) /\ Len(argv') = Len(argv) + 1
      /\ \A k \in 1..Len(argv) : argv'[k] = argv[k]
  BY <1>5, <1>7, <1>8, OtherExtends
<1>10. TypeOK'
  <2>1. argv' \in Seq(Seq(Chars)) /\ argv' # <<>>
    BY <1>2, <1>9 DEF Extends
  <2>2. job' \in [start : {0, 1}, sep : {Amp, Comma}, mod : SUBSET {1, 2, 4}]
    BY <1>4 DEF Job
  <2>3. i' \in Nat /\ i' <= Len(argv') /\ query' \in Seq(Chars) /\ room' \in Nat
    BY <1>2, <1>4, <1>9 DEF Job
  <2>4. base' \in [url : Seq(Chars), query : Seq(Chars)]
    BY <1>1, <1>2
  <2>5. QED
    BY <1>1, <1>4, <1>7, <2>1, <2>2, <2>3, <2>4 DEF TypeOK, argc
<1>11. JobOK'
  BY <1>1, <1>4 DEF JobOK, Job
<1>12. LoopOK'
  BY <1>4 DEF LoopOK, Job
<1>13. KeyOK'
  <2>1. PICK k \in 1..Len(argv) : Is(argv[k], ConsumerKey)
    BY <1>1 DEF KeyOK, argc
  <2>2. k \in 1..Len(argv') /\ Is(argv'[k], ConsumerKey)
    BY <1>2, <1>9, <2>1
  <2>3. ~ (\E m \in 1..i' : Is(argv'[m], ConsumerKey)) \/ call.form # "get"
    BY <1>4 DEF Job
  <2>4. QED
    BY <1>1, <2>2, <2>3 DEF KeyOK, argc
<1>14. ArrayOK'
  BY <1>1, <1>2, <1>9, ExtendsArrayOK
<1>15. PartedOK'
  <2>1. sent' = <<>>
    BY <1>1 DEF JobOK
  <2>2. Len(query') = 0 /\ Len(sent') = 0 /\ ~ (i' > job'.start) /\ query' = <<>>
    BY <1>4, <2>1 DEF Job
  <2>3. QED
    BY <2>2 DEF PartedOK, Parted
<1>16. OnceOK'
  BY <1>1, <1>6, <1>9 DEF OnceOK, NotTwice
<1>17. QED
  BY <1>10, <1>11, <1>12, <1>13, <1>14, <1>15, <1>16 DEF IInv

LEMMA ReturnStep == IInv /\ Return => IInv'
<1> SUFFICES ASSUME TypeOK, JobOK, LoopOK, KeyOK, ArrayOK, PartedOK, OnceOK, Return
             PROVE  IInv'
  BY DEF IInv
<1>1. /\ pc = "result" /\ i = argc /\ sent' = Append(sent, query)
      /\ UNCHANGED <<argv, given, call, base, sign, signings>>
  BY DEF Return
<1>2. /\ query \in Seq(Chars) /\ sent \in Seq(Seq(Chars)) /\ argc \in Nat \ {0}
      /\ call.form \in Forms
  BY DEF TypeOK, argc, Calls
<1>3. /\ sent' \in Seq(Seq(Chars)) /\ Len(sent') = Len(sent) + 1 /\ Len(sent) \in Nat
      /\ sent'[Len(sent) + 1] = query /\ \A k \in 1..Len(sent) : sent'[k] = sent[k]
  BY <1>1, <1>2
<1>4. \/ call.form = "get" /\ sent = <<>> /\ job = Job(0, Amp, {})
      \/ call.form = "post" /\ sent = <<>> /\ job = Job(1, Amp, {})
      \/ call.form = "header" /\ sent = <<>> /\ job = Job(1, Comma, {2, 4})
      \/ call.form = "header" /\ Len(sent) = 1 /\ job = Job(0, Amp, {1})
  BY <1>1 DEF JobOK
<1>5. /\ ArrayOK' /\ OnceOK'
  BY <1>1 DEF ArrayOK, OnceOK, argc
<1>6. ASSUME Plain(given), NEW k \in 1..Len(sent')
      PROVE  \/ call.form = "header" /\ k = 1 /\ ~ IsOAuth(argv[2])
             \/ Parted(sent'[k], IF call.form = "header" /\ k = 1 THEN Comma ELSE Amp)
  <2>1. CASE k \in 1..Len(sent)
    BY <1>1, <1>3, <1>6, <2>1 DEF PartedOK
  <2>2. CASE k = Len(sent) + 1
    <3>1. sent'[k] = query /\ (FirstKept => Parted(query, job.sep))
      BY <1>1, <1>3, <1>6, <2>2 DEF PartedOK
    <3>2. \/ call.form = "header" /\ k = 1 /\ job.sep = Comma
          \/ ~ (call.form = "header" /\ k = 1) /\ job.sep = Amp
      BY <1>4, <2>2 DEF Job
    <3>3. Amp # Comma
      BY DEF Amp, Comma
    <3>4. QED
      BY <3>1, <3>2, <3>3 DEF FirstKept
  <2>3. QED
    BY <1>3, <2>1, <2>2
<1>7. CASE call.form = "header" /\ sent = <<>>
  <2>1. /\ job' = Job(0, Amp, {1}) /\ i' = 0 /\ first' = FALSE /\ query' = <<>> /\ room' = 1
        /\ pc' = "result"
    BY <1>1, <1>7 DEF Return, SerializeResult, Serialize, Job
  <2>2. Len(sent') = 1
    BY <1>3, <1>7
  <2>3. TypeOK'
    <3>1. job' \in [start : {0, 1}, sep : {Amp, Comma}, mod : SUBSET {1, 2, 4}]
      BY <2>1 DEF Job
    <3>2. query' \in Seq(Chars) /\ i' \in Nat /\ i' <= argc /\ room' \in Nat /\ Len(sent') <= 2
      BY <1>2, <2>1, <2>2
    <3>3. QED
      BY <1>1, <1>3, <2>1, <3>1, <3>2 DEF TypeOK, argc
  <2>4. JobOK' /\ LoopOK'
    BY <1>1, <1>7, <2>1, <2>2 DEF JobOK, LoopOK, Job
  <2>5. KeyOK'
    BY <1>1, <1>7, <2>1 DEF KeyOK, argc
  <2>6. PartedOK'
    BY <1>1, <1>6, <2>1 DEF PartedOK, Parted, Job
  <2>7. QED
    BY <1>5, <2>3, <2>4, <2>5, <2>6 DEF IInv
<1>8. CASE ~ (call.form = "header" /\ sent = <<>>)
  <2>1. pc' = "returned" /\ UNCHANGED <<job, i, first, query, room>>
    BY <1>1, <1>8 DEF Return, loop
  <2>2. Len(sent') = IF call.form = "header" THEN 2 ELSE 1
    BY <1>3, <1>4, <1>8
  <2>3. TypeOK'
    <3>1. Len(sent') <= 2
      BY <2>2
    <3>2. QED
      BY <1>1, <1>3, <2>1, <3>1 DEF TypeOK, argc
  <2>4. JobOK' /\ LoopOK'
    BY <1>1, <2>1, <2>2 DEF JobOK, LoopOK
  <2>5. KeyOK'
    <3>1. \E k \in 1..argc : Is(argv[k], ConsumerKey)
      BY <1>1 DEF KeyOK
    <3>2. call.form = "get" => KeyIn(query) /\ sent'[1] = query
      BY <1>1, <1>3, <1>4, <3>1 DEF KeyOK
    <3>3. QED
      BY <1>1, <2>1, <3>1, <3>2 DEF KeyOK, argc
  <2>6. PartedOK'
    BY <1>1, <1>6, <2>1 DEF PartedOK
  <2>7. QED
    BY <1>5, <2>3, <2>4, <2>5, <2>6 DEF IInv
<1>9. QED
  BY <1>7, <1>8

LEMMA SignAgainStep ==
  ASSUME IInv, NEW form \in Forms, SignAgain(form)
  PROVE  IInv'
<1>1. TypeOK /\ JobOK /\ KeyOK
  BY DEF IInv
<1>2. /\ pc = "returned" /\ signings < MaxSignings
      /\ argv' = argv \/ (call.form = "get" /\ argv' = Split(sent[1]))
      /\ given' = argv' /\ call' = [call EXCEPT !.form = form] /\ pc' = "call" /\ sent' = <<>>
      /\ signings' = signings + 1
      /\ UNCHANGED <<job, i, first, query, room, base, sign>>
  BY DEF SignAgain, loop
<1>3. argv' \in Arguments
  <2>1. CASE argv' = argv
    BY <1>1, <2>1 DEF TypeOK, Arguments
  <2>2. CASE call.form = "get" /\ argv' = Split(sent[1])
    <3>1. Len(sent) = 1 /\ sent \in Seq(Seq(Chars))
      BY <1>1, <1>2, <2>2 DEF JobOK, TypeOK
    <3>2. sent[1] \in Seq(Chars)
      BY <3>1
    <3>3. KeyIn(sent[1])
      BY <1>1, <1>2, <2>2 DEF KeyOK
    <3>4. QED
      BY <2>2, <3>2, <3>3, SplitOf
  <2>3. QED
    BY <1>2, <2>1, <2>2
<1>4. TypeOK'
  <2>1. call' \in Calls
    BY <1>1, <1>2 DEF TypeOK, Calls
  <2>2. sent' \in Seq(Seq(Chars)) /\ Len(sent') <= 2
    BY <1>2
  <2>3. signings' \in 1..MaxSignings
    BY <1>1, <1>2, SigningsAssumption DEF TypeOK
  <2>4. QED
    BY <1>1, <1>2, <1>3, <2>1, <2>2, <2>3 DEF TypeOK, Arguments
<1>5. JobOK' /\ LoopOK' /\ KeyOK' /\ PartedOK'
  BY <1>2 DEF JobOK, LoopOK, KeyOK, PartedOK
<1>6. ArrayOK'
  BY <1>2 DEF ArrayOK, Plain, argc
<1>7. OnceOK'
  <2>1. \A word \in ProtocolWords : Times(argv', word) \in Nat /\ given' = argv'
    <3>1. <<>> \in Seq(Chars) /\ argv' \in Seq(Seq(Chars))
      BY <1>3 DEF Arguments
    <3>2. QED
      BY <1>2, <3>1, AppendTimes
  <2>2. QED
    BY <2>1 DEF OnceOK
<1>8. QED
  BY <1>4, <1>5, <1>6, <1>7 DEF IInv

LEMMA StutterStep == IInv /\ UNCHANGED vars => IInv'
BY DEF IInv, TypeOK, JobOK, LoopOK, KeyOK, ArrayOK, PartedOK, OnceOK, FirstKept, argc, vars, loop

LEMMA NextIsIInv == IInv /\ [Next]_vars => IInv'
BY AddProtocolStep, SortStep, SkipElementStep, AddElementStep, SignStep, ReturnStep,
   SignAgainStep, StutterStep, Zenon DEF Next

LEMMA SpecIInv == Spec => []IInv
BY InitIsIInv, NextIsIInv, PTL DEF Spec

-----------------------------------------------------------------------------
(* The array is a list of strings with a URL first at every step of every  *)
(* signing, whatever is signed and sent, and the same holds of an array    *)
(* that is split from a URL that has been signed: it has at least the      *)
(* consumer key (oauth.c:759-942).                                         *)
THEOREM TypeCorrect == Spec => []TypeOK
<1>1. IInv => TypeOK
  BY DEF IInv
<1>2. QED
  BY <1>1, SpecIInv, PTL

(* However often an array is signed, again from itself or from the URL it  *)
(* became, and wherever qsort put what was added, no second nonce,         *)
(* timestamp or version comes into it (oauth.c:768-794, 875-878).          *)
THEOREM ProtocolAddedOnce == Spec => []ProtocolOnce
<1>1. IInv => ProtocolOnce
  BY DEF IInv, OnceOK, ProtocolOnce, Times, Is, ProtocolWords
<1>2. QED
  BY <1>1, SpecIInv, PTL

(* What oauth_serialize_url_sep has put together never passes the end of   *)
(* what xrealloc gave it: of separator and '?' only one comes with an      *)
(* element (oauth.c:583-591).                                              *)
THEOREM QueryFitsItsRoom == Spec => []QueryFits
<1>1. IInv => QueryFits
  BY DEF IInv, LoopOK, QueryFits
<1>2. QED
  BY <1>1, SpecIInv, PTL

(* In what is sent for a plain array a separator never stands first, last, *)
(* after another or after the URL's '?', for any number of parameters and  *)
(* any characters in them (oauth.c:532-533, 585); a header whose first     *)
(* element is no protocol parameter is excepted.                           *)
THEOREM SeparatorsStandBetween == Spec => []Separated
<1>1. IInv => Separated
  <2> SUFFICES ASSUME IInv, pc = "returned", Plain(given), NEW k \in 1..Len(sent)
               PROVE  LET header == call.form = "header" /\ k = 1
                          sep    == IF header THEN Comma ELSE Amp IN
                      \/ header /\ ~ IsOAuth(argv[2])
                      \/ \A j \in 1..Len(sent[k]) :
                           sent[k][j] = sep =>
                             /\ j \in 2..(Len(sent[k]) - 1)
                             /\ sent[k][j - 1] \notin {sep, Mark}
    BY DEF Separated
  <2>1. \/ call.form = "header" /\ k = 1 /\ ~ IsOAuth(argv[2])
        \/ Parted(sent[k], IF call.form = "header" /\ k = 1 THEN Comma ELSE Amp)
    BY DEF IInv, PartedOK
  <2>2. QED
    BY <2>1 DEF Parted
<1>2. QED
  BY <1>1, SpecIInv, PTL

=============================================================================
