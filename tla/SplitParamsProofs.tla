-------------------------- MODULE SplitParamsProofs --------------------------
(***************************************************************************)
(* Proofs that strtok stays inside the string, that every parameter of it  *)
(* is returned in its place, and that the first element and no other is    *)
(* normalised, for strings of every length.                                *)
(***************************************************************************)
EXTENDS SplitParams, Integers, WellFoundedInduction, TLAPS

Items    == Tokens \cup {SEP, NUL}
Elements == [from : Tokens, text : Tokens]
InBody   == pc \in {"slash", "port"}

(* What the element that is being made says, until ":80" is looked for.    *)
Copied(t)  == IF argc > 0 \/ qesc4 THEN Unescaped(t) ELSE t
Slashed(t) == IF argc = 0 /\ t.url = "bare" THEN [t EXCEPT !.url = "path"] ELSE Copied(t)

(* What strtok returned is a token, never a separator or the '\0' that it  *)
(* wrote over one, and the element being made is made of it.               *)
IInv ==
  /\ TypeOK
  /\ pc = "token" \/ InBody => token \in 1..Len(t1) /\ t1[token] \in Tokens
  /\ InBody =>
       /\ ~ t1[token].signature
       /\ argv[argc + 1].from = t1[token]
       /\ argv[argc + 1].text = IF pc = "slash" THEN Copied(t1[token]) ELSE Slashed(t1[token])
  /\ UrlIsNormalised

-----------------------------------------------------------------------------
(* A set of numbers has a least one.                                       *)
LEMMA Least ==
  ASSUME NEW T, T \subseteq Nat, T # {}
  PROVE  \E m \in T : \A k \in T : m <= k
<1> DEFINE R == OpToRel(<, Nat)
<1>1. IsWellFoundedOn(R, Nat)
  BY NatLessThanWellFounded
<1>2. \A k \in Nat, m \in Nat : k < m => <<k, m>> \in R
  BY DEF OpToRel
<1> HIDE DEF R
<1>3. PICK m \in T : \A k \in T : ~ (<<k, m>> \in R)
  BY <1>1, WFMin
<1>4. \A k \in T : m \in Nat /\ k \in Nat /\ ~ (k < m)
  BY <1>2, <1>3
<1>5. \A k \in T : m <= k
  BY <1>4
<1>6. QED
  BY <1>5

(* Wherever strtok starts, up to the '\0' of the string, it finds what is  *)
(* no separator.                                                           *)
LEMMA TokenFromEnds ==
  ASSUME t1 \in Seq(Items), NEW i \in 1..(Len(t1) + 1)
  PROVE  /\ TokenFrom(i) \in i..(Len(t1) + 1) /\ At(TokenFrom(i)) # SEP
         /\ \A j \in i..(TokenFrom(i) - 1) : At(j) = SEP
<1> DEFINE T == {q \in i..(Len(t1) + 1) : At(q) # SEP}
<1>1. Len(t1) \in Nat /\ At(Len(t1) + 1) = NUL /\ NUL # SEP
  BY MarksAssumption DEF At
<1>2. T \subseteq Nat /\ T # {}
  BY <1>1
<1>3. PICK p \in T : \A q \in T : p <= q
  BY <1>2, Least
<1>4. \A j \in i..(p - 1) : At(j) = SEP
  BY <1>1, <1>3
<1>5. p \in i..(Len(t1) + 1) /\ At(p) # SEP
  BY <1>3
<1> HIDE DEF T
<1>6. QED
  BY <1>4, <1>5 DEF TokenFrom

(* A string is a sequence of tokens and separators.                        *)
LEMMA StringShape ==
  \A u \in Urls : \E k \in 0..MaxItems : u \in [1..k -> Tokens \cup {SEP}]
<1>1. SUFFICES ASSUME NEW k \in 0..MaxItems, NEW places \in Parted(k), NEW of \in [places -> Tokens]
               PROVE  [i \in 1..k |-> IF i \in places THEN of[i] ELSE SEP] \in [1..k -> Tokens \cup {SEP}]
  BY DEF Urls, Strings
<1>2. QED
  OBVIOUS

(* What the steps of the body make of a token is a token.                  *)
LEMMA TokenShape ==
  ASSUME NEW t \in Tokens, ~ t.signature
  PROVE  /\ t.url \in UrlForms
         /\ Unescaped(t) \in Tokens /\ Unescaped(t).url = t.url
         /\ LET u == [t EXCEPT !.url = "path"] IN u \in Tokens /\ u.url = "path"
         /\ LET u == [t EXCEPT !.port = "none"] IN
              u \in Tokens /\ u.url = t.url /\ u.port = "none"
<1>1. t # Signature
  BY DEF Signature
<1>2. \/ t \in [signature : {FALSE}, url : UrlForms, port : {"none", "plain"}, escaped : BOOLEAN]
      \/ t \in [signature : {FALSE}, url : UrlForms, port : {"coded"}, escaped : {TRUE}]
  BY <1>1 DEF Tokens
<1>3. QED
  BY <1>2 DEF Unescaped, Tokens, UrlForms

LEMMA InitInv == Init => IInv
<1> SUFFICES ASSUME Init PROVE IInv
  OBVIOUS
<1>1. url \in Seq(Tokens \cup {SEP})
  <2>1. PICK k \in 0..MaxItems : url \in [1..k -> Tokens \cup {SEP}]
    BY StringShape DEF Init
  <2>2. k \in Nat
    BY MaxItemsAssumption
  <2>3. QED
    BY <2>1, <2>2
<1>2. t1 \in Seq(Items) /\ Len(t1) \in Nat
  BY <1>1 DEF Init, Items
<1>3. TypeOK
  BY <1>2 DEF Init, TypeOK, Items
<1>4. UrlIsNormalised
  BY DEF Init, UrlIsNormalised
<1>5. QED
  BY <1>3, <1>4 DEF Init, IInv, InBody

LEMMA StrtokInv == ASSUME IInv, Strtok PROVE IInv'
<1> DEFINE from == IF tmp = "t1" THEN 1 ELSE saved
<1> DEFINE p == TokenFrom(from)
<1>1. t1 \in Seq(Items) /\ Len(t1) \in Nat /\ from \in 1..(Len(t1) + 1)
  BY DEF IInv, TypeOK, Items
<1>2. p \in 1..(Len(t1) + 1) /\ At(p) # SEP
  <2> HIDE DEF from
  <2> QED
    BY <1>1, TokenFromEnds
<1>3. argv' = argv /\ UrlIsNormalised'
  BY DEF IInv, Strtok, UrlIsNormalised
<1>4. url' = url /\ qesc4' = qesc4 /\ tmp' = tmp /\ argc' = argc /\ pc = "strtok"
  BY DEF Strtok
<1> HIDE DEF p
<1>5. CASE At(p) = NUL
  <2>1. pc' = "returned" /\ UNCHANGED <<t1, saved, token>>
    BY <1>5 DEF Strtok, p
  <2>2. QED
    BY <1>3, <1>4, <2>1 DEF IInv, TypeOK, InBody
<1>6. CASE At(p) # NUL
  <2>1. p \in 1..Len(t1) /\ At(p) = t1[p] /\ t1[p] \in Tokens
    BY <1>1, <1>2, <1>6 DEF At, Items
  <2>2. /\ token' = p /\ pc' = "token"
        /\ \/ At(p + 1) = SEP /\ t1' = [t1 EXCEPT ![p + 1] = NUL] /\ saved' = p + 2
           \/ At(p + 1) # SEP /\ t1' = t1 /\ saved' = p + 1
    BY <1>6 DEF Strtok, p
  <2>3. At(p + 1) = SEP => p + 1 \in 1..Len(t1)
    BY <1>1, <2>1, MarksAssumption DEF At
  <2>4. /\ t1' \in Seq(Items) /\ Len(t1') = Len(t1)
        /\ saved' \in 1..(Len(t1) + 1)
        /\ t1'[p] = t1[p]
    <3>1. CASE At(p + 1) = SEP
      <4>1. t1' = [t1 EXCEPT ![p + 1] = NUL] /\ saved' = p + 2
        BY <2>2, <3>1
      <4>2. NUL \in Items
        BY DEF Items
      <4>3. QED
        BY <1>1, <2>1, <2>3, <3>1, <4>1, <4>2
    <3>2. CASE At(p + 1) # SEP
      BY <1>1, <2>1, <2>2, <3>2
    <3>3. QED
      BY <3>1, <3>2
  <2>5. TypeOK'
    BY <1>1, <1>3, <1>4, <2>1, <2>2, <2>4 DEF IInv, TypeOK, Items
  <2>6. QED
    BY <1>3, <2>1, <2>2, <2>4, <2>5 DEF IInv, InBody
<1>7. QED
  BY <1>5, <1>6

(* The array with one more element, and with another in its last place.    *)
LEMMA Lengthened ==
  ASSUME NEW a \in Seq(Elements), NEW e \in Elements
  PROVE  /\ Append(a, e) \in Seq(Elements) /\ Len(Append(a, e)) = Len(a) + 1
         /\ Append(a, e)[Len(a) + 1] = e
         /\ \A i \in 1..Len(a) : Append(a, e)[i] = a[i]
  OBVIOUS

LEMMA LastReplaced ==
  ASSUME NEW a \in Seq(Elements), NEW t \in Tokens, NEW n \in Nat, Len(a) = n + 1
  PROVE  LET b == [a EXCEPT ![n + 1].text = t] IN
         /\ b \in Seq(Elements) /\ Len(b) = Len(a)
         /\ b[n + 1].from = a[n + 1].from /\ b[n + 1].text = t
         /\ \A i \in 1..n : b[i] = a[i]
<1> DEFINE e == [a[n + 1] EXCEPT !.text = t]
<1> DEFINE b == [a EXCEPT ![n + 1] = e]
<1>1. a[n + 1] \in Elements
  OBVIOUS
<1>2. e \in Elements /\ e.from = a[n + 1].from /\ e.text = t
  BY <1>1 DEF Elements
<1> HIDE DEF e
<1>3. b \in Seq(Elements) /\ Len(b) = Len(a) /\ b[n + 1] = e /\ \A i \in 1..n : b[i] = a[i]
  BY <1>2
<1>4. [a EXCEPT ![n + 1].text = t] = b
  BY DEF e
<1>5. QED
  BY <1>2, <1>3, <1>4

LEMMA CopyInv == ASSUME IInv, CopyToken PROVE IInv'
<1> DEFINE t == t1[token]
<1> DEFINE e == [from |-> t, text |-> Copied(t)]
<1>1. /\ t \in Tokens /\ ~ t.signature /\ argv \in Seq(Elements) /\ argc \in Nat
      /\ Len(argv) = argc /\ token \in 1..Len(t1)
  BY DEF IInv, TypeOK, CopyToken, Elements
<1>2. e \in Elements
  BY <1>1, TokenShape DEF Elements, Copied
<1>3. argv' = Append(argv, e) /\ pc' = "slash" /\ UNCHANGED <<url, qesc4, t1, tmp, saved, token, argc>>
  BY DEF CopyToken, Copied
<1> HIDE DEF e
<1>4. /\ argv' \in Seq(Elements) /\ Len(argv') = argc + 1 /\ argv'[argc + 1] = e
      /\ \A i \in 1..argc : argv'[i] = argv[i]
  BY <1>1, <1>2, <1>3, Lengthened
<1>5. TypeOK'
  BY <1>3, <1>4 DEF IInv, TypeOK, Elements
<1>6. UrlIsNormalised'
  BY <1>3, <1>4 DEF IInv, UrlIsNormalised
<1>7. argv'[argc' + 1].from = t1'[token'] /\ argv'[argc' + 1].text = Copied(t1[token])'
  BY <1>3, <1>4 DEF e, Copied
<1>8. QED
  BY <1>1, <1>3, <1>5, <1>6, <1>7 DEF IInv, InBody

LEMMA SlashInv == ASSUME IInv, AddSlash PROVE IInv'
<1> DEFINE t == t1[token]
<1>1. /\ t \in Tokens /\ ~ t.signature /\ argv \in Seq(Elements) /\ argc \in Nat
      /\ Len(argv) = argc + 1 /\ token \in 1..Len(t1)
      /\ argv[argc + 1].from = t /\ argv[argc + 1].text = Copied(t)
  BY DEF IInv, TypeOK, AddSlash, Elements, InBody
<1>2. pc' = "port" /\ UNCHANGED <<url, qesc4, t1, tmp, saved, token, argc>>
  BY DEF AddSlash
<1>3. /\ argv' \in Seq(Elements) /\ Len(argv') = argc + 1
      /\ argv'[argc + 1].from = t /\ argv'[argc + 1].text = Slashed(t)
      /\ \A i \in 1..argc : argv'[i] = argv[i]
  <2>1. CASE argc = 0 /\ t.url = "bare"
    <3>1. argv' = [argv EXCEPT ![argc + 1].text = [t EXCEPT !.url = "path"]]
      BY <2>1 DEF AddSlash
    <3>2. Slashed(t) \in Tokens /\ Slashed(t) = [t EXCEPT !.url = "path"]
      BY <1>1, <2>1, TokenShape DEF Slashed
    <3>3. argv' = [argv EXCEPT ![argc + 1].text = Slashed(t)]
      BY <3>1, <3>2
    <3>4. Slashed(t) \in Tokens
      BY <3>2
    <3>5. QED
      BY <1>1, <3>3, <3>4, LastReplaced
  <2>2. CASE ~ (argc = 0 /\ t.url = "bare")
    BY <1>1, <2>2 DEF AddSlash, Slashed
  <2>3. QED
    BY <2>1, <2>2
<1>4. TypeOK'
  BY <1>2, <1>3 DEF IInv, TypeOK, Elements
<1>5. UrlIsNormalised'
  BY <1>2, <1>3 DEF IInv, UrlIsNormalised
<1>6. argv'[argc' + 1].from = t1'[token'] /\ argv'[argc' + 1].text = Slashed(t1[token])'
  BY <1>2, <1>3 DEF Slashed, Copied
<1>7. QED
  BY <1>1, <1>2, <1>4, <1>5, <1>6 DEF IInv, InBody

(* What StripPort leaves of the last element's text.                       *)
Stripped(x) == IF argc = 0 /\ PortBeforeSlash(x) THEN [x EXCEPT !.port = "none"] ELSE x

LEMMA PortStep ==
  ASSUME IInv, StripPort
  PROVE  /\ argv' \in Seq(Elements) /\ Len(argv') = argc + 1
         /\ argv'[argc + 1].from = t1[token]
         /\ argv'[argc + 1].text = Stripped(Slashed(t1[token]))
         /\ \A i \in 1..argc : argv'[i] = argv[i]
<1> DEFINE x == argv[argc + 1].text
<1>1. /\ argv \in Seq(Elements) /\ argc \in Nat /\ Len(argv) = argc + 1
      /\ t1[token] \in Tokens /\ ~ t1[token].signature
      /\ argv[argc + 1].from = t1[token] /\ x = Slashed(t1[token])
  BY DEF IInv, TypeOK, StripPort, Elements, InBody
<1>2. argv[argc + 1] \in Elements
  BY <1>1
<1>3. x \in Tokens
  BY <1>2 DEF Elements
<1>4. CASE argc = 0 /\ PortBeforeSlash(x)
  <2>1. argv' = [argv EXCEPT ![argc + 1].text = [x EXCEPT !.port = "none"]]
    BY <1>4 DEF StripPort
  <2>2. x # Signature
    BY <1>4 DEF PortBeforeSlash, Signature
  <2>3. [x EXCEPT !.port = "none"] \in Tokens
    <3>1. ~ x.signature
      BY <1>3, <2>2 DEF Tokens
    <3>2. QED
      BY <1>3, <3>1, TokenShape
  <2>4. Stripped(x) \in Tokens /\ argv' = [argv EXCEPT ![argc + 1].text = Stripped(x)]
    BY <1>4, <2>1, <2>3 DEF Stripped
  <2>5. QED
    BY <1>1, <2>4, LastReplaced
<1>5. CASE ~ (argc = 0 /\ PortBeforeSlash(x))
  BY <1>1, <1>5 DEF StripPort, Stripped
<1>6. QED
  BY <1>4, <1>5

LEMMA PortInv == ASSUME IInv, StripPort PROVE IInv'
<1> DEFINE t == t1[token]
<1>1. /\ t \in Tokens /\ ~ t.signature /\ argc \in Nat
  BY DEF IInv, TypeOK, StripPort, InBody
<1>2. /\ pc' = "strtok" /\ tmp' = "NULL" /\ argc' = argc + 1
      /\ UNCHANGED <<url, qesc4, t1, saved, token>>
  BY DEF StripPort
<1>3. /\ argv' \in Seq(Elements) /\ Len(argv') = argc + 1
      /\ argv'[argc + 1].from = t /\ argv'[argc + 1].text = Stripped(Slashed(t))
      /\ \A i \in 1..argc : argv'[i] = argv[i]
  BY PortStep
<1>4. TypeOK'
  BY <1>1, <1>2, <1>3 DEF IInv, TypeOK, Elements
<1>5. ASSUME argc = 0, t.url # "none"
      PROVE  Stripped(Slashed(t)).url = "path" /\ Stripped(Slashed(t)).port # "plain"
  <2> DEFINE x == Slashed(t)
  <2>1. t.url \in {"bare", "path"}
    BY <1>1, <1>5, TokenShape DEF UrlForms
  <2>2. x.url = "path"
    <3>1. CASE t.url = "bare"
      <4>1. x = [t EXCEPT !.url = "path"]
        BY <1>5, <3>1 DEF Slashed
      <4>2. QED
        BY <1>1, <4>1, TokenShape
    <3>2. CASE t.url = "path"
      BY <1>1, <3>2, TokenShape DEF Slashed, Copied
    <3>3. QED
      BY <2>1, <3>1, <3>2
  <2>3. x \in Tokens /\ ~ x.signature
    <3>1. x \in Tokens
      BY <1>1, TokenShape DEF Slashed, Copied
    <3>2. x # Signature
      BY <2>2 DEF Signature
    <3> HIDE DEF x
    <3>3. QED
      BY <3>1, <3>2 DEF Tokens
  <2> HIDE DEF x
  <2>4. CASE PortBeforeSlash(x)
    <3>1. Stripped(x) = [x EXCEPT !.port = "none"]
      BY <1>5, <2>4 DEF Stripped
    <3>2. [x EXCEPT !.port = "none"].url = "path" /\ [x EXCEPT !.port = "none"].port = "none"
      BY <2>2, <2>3, TokenShape
    <3>3. QED
      BY <3>1, <3>2 DEF x
  <2>5. CASE ~ PortBeforeSlash(x)
    <3>1. Stripped(x) = x /\ x.port # "plain"
      BY <2>2, <2>5 DEF Stripped, PortBeforeSlash
    <3>2. QED
      BY <2>2, <3>1 DEF x
  <2>6. QED
    BY <2>4, <2>5
<1>6. argc > 0 => Stripped(Slashed(t)) = Unescaped(t)
  BY <1>1 DEF Stripped, Slashed, Copied
<1>7. UrlIsNormalised'
  <2> SUFFICES ASSUME NEW i \in 1..(argc + 1)
               PROVE  LET made == argv'[i] IN
                      IF i = 1
                        THEN made.from.url # "none" => made.text.url = "path" /\ made.text.port # "plain"
                        ELSE made.text = Unescaped(made.from)
    BY <1>2 DEF UrlIsNormalised
  <2>1. CASE i \in 1..argc
    BY <1>3, <2>1 DEF IInv, UrlIsNormalised
  <2>2. CASE i = argc + 1
    BY <1>1, <1>3, <1>5, <1>6, <2>2
  <2>3. QED
    BY <1>1, <2>1, <2>2
<1>8. QED
  BY <1>2, <1>4, <1>7 DEF IInv, InBody

LEMMA NextInv == ASSUME IInv, [Next]_vars PROVE IInv'
<1>1. CASE Strtok
  BY <1>1, StrtokInv
<1>2. CASE SkipSignature
  BY <1>2 DEF SkipSignature, IInv, TypeOK, UrlIsNormalised, InBody
<1>3. CASE CopyToken
  BY <1>3, CopyInv
<1>4. CASE AddSlash
  BY <1>4, SlashInv
<1>5. CASE StripPort
  BY <1>5, PortInv
<1>6. CASE UNCHANGED vars
  BY <1>6 DEF vars, IInv, TypeOK, UrlIsNormalised, InBody, Copied, Slashed
<1>7. QED
  BY <1>1, <1>2, <1>3, <1>4, <1>5, <1>6 DEF Next, Split

-----------------------------------------------------------------------------
LEMMA Invariance == Spec => []IInv
<1>1. QED
  BY InitInv, NextInv, PTL DEF Spec

(* The types hold, and with them strtok goes on from inside the string     *)
(* (oauth.c:434).                                                          *)
THEOREM TypeCorrect == Spec => []TypeOK
<1>1. IInv => TypeOK
  BY DEF IInv
<1>2. QED
  BY <1>1, Invariance, PTL

(* The URL in the first place is normalised, and nothing after it is       *)
(* altered but for being unescaped (oauth.c:444-478).                      *)
THEOREM FirstIsNormalised == Spec => []UrlIsNormalised
<1>1. IInv => UrlIsNormalised
  BY DEF IInv
<1>2. QED
  BY <1>1, Invariance, PTL

-----------------------------------------------------------------------------
(* How far the string has been read.  Up to place k all parameters of the  *)
(* string are in the array, in their order.                                *)
Before(u, k) == {j \in ParametersOf(u) : j < k}

Reads(a, u, places, at) ==
  /\ at \in [1..Len(a) -> places]
  /\ \A i \in 1..Len(a) : a[i].from = u[at[i]]
  /\ \A i, j \in 1..Len(a) : i < j => at[i] < at[j]
  /\ \A k \in places : \E i \in 1..Len(a) : at[i] = k

ReadTo(a, u, k) == \E at : Reads(a, u, Before(u, k), at)

Untouched(t, u, k) == \A j \in k..Len(t) : t[j] = u[j]

Front == IF tmp = "t1" THEN 1 ELSE saved

(* A signature comes first, and strtok finds it for ever.                  *)
Stuck ==
  /\ pc \in {"strtok", "token"} /\ tmp = "t1"
  /\ pc = "token" => t1[token].signature
  /\ \E p \in 1..Len(t1) :
       t1[p] \in Tokens /\ t1[p].signature /\ \A j \in 1..(p - 1) : t1[j] = SEP

AtToken ==
  /\ pc = "token"
  /\ ReadTo(argv, url, token) /\ Untouched(t1, url, saved)
  /\ t1[token] = url[token] /\ token < saved
  /\ \A j \in (token + 1)..(saved - 1) : url[j] = SEP
  /\ tmp = "t1" => \A j \in 1..(token - 1) : t1[j] = SEP

Progress ==
  /\ Len(t1) = Len(url)
  /\ \/ Stuck
     \/ pc = "strtok" /\ ReadTo(argv, url, Front) /\ Untouched(t1, url, Front)
     \/ AtToken
     \/ InBody /\ ReadTo(argv, url, saved) /\ Untouched(t1, url, saved)
     \/ pc = "returned" /\ \E at : Reads(argv, url, ParametersOf(url), at)

LEMMA UrlIsItems ==
  ASSUME url \in Urls
  PROVE  /\ url \in Seq(Tokens \cup {SEP}) /\ Len(url) \in Nat
         /\ \A j \in ParametersOf(url) :
              j \in 1..Len(url) /\ url[j] # SEP /\ ~ url[j].signature
         /\ \A j \in 1..Len(url) : url[j] # SEP /\ ~ url[j].signature => j \in ParametersOf(url)
<1>1. PICK k \in 0..MaxItems : url \in [1..k -> Tokens \cup {SEP}]
  BY StringShape
<1>2. k \in Nat
  BY MaxItemsAssumption
<1>3. url \in Seq(Tokens \cup {SEP}) /\ Len(url) \in Nat
  BY <1>1, <1>2
<1>4. QED
  BY <1>3 DEF ParametersOf

(* Separators and signatures that are passed add no parameter.             *)
LEMMA BeforeGrows ==
  ASSUME url \in Urls, NEW k \in Nat, NEW m \in Nat, k <= m,
         \A j \in k..(m - 1) : url[j] = SEP \/ url[j].signature
  PROVE  Before(url, m) = Before(url, k)
<1>1. ASSUME NEW j \in ParametersOf(url), j < m PROVE j < k
  <2>1. j \in Nat /\ url[j] # SEP /\ ~ url[j].signature
    BY UrlIsItems
  <2>2. j \notin k..(m - 1)
    BY <2>1
  <2>3. QED
    BY <1>1, <2>1, <2>2
<1>2. \A j \in ParametersOf(url) : j < k => j < m
  <2>1. \A j \in ParametersOf(url) : j \in Nat
    BY UrlIsItems
  <2>2. QED
    BY <2>1
<1>3. QED
  BY <1>1, <1>2 DEF Before

LEMMA InitProgress == Init => Progress
<1> SUFFICES ASSUME Init PROVE Progress
  OBVIOUS
<1>1. url \in Urls /\ t1 = url /\ tmp = "t1" /\ argv = <<>> /\ pc = "strtok"
  BY DEF Init
<1>2. Before(url, 1) = {} /\ Len(argv) = 0
  <2>1. \A j \in ParametersOf(url) : ~ (j < 1)
    BY <1>1, UrlIsItems
  <2>2. QED
    BY <1>1, <2>1 DEF Before
<1>3. Reads(argv, url, Before(url, 1), [i \in {} |-> i])
  <2>1. 1..Len(argv) = {}
    BY <1>2
  <2>2. [i \in {} |-> i] \in [{} -> {}]
    OBVIOUS
  <2>3. QED
    BY <1>2, <2>1, <2>2 DEF Reads
<1>4. ReadTo(argv, url, Front) /\ Untouched(t1, url, Front)
  BY <1>1, <1>3 DEF ReadTo, Front, Untouched
<1>5. QED
  BY <1>1, <1>4 DEF Progress

LEMMA StrtokProgress == ASSUME IInv, Progress, Strtok PROVE Progress'
<1>1. /\ t1 \in Seq(Items) /\ Len(t1) \in Nat /\ Front \in 1..(Len(t1) + 1)
      /\ url \in Urls /\ Len(t1) = Len(url)
  BY DEF IInv, TypeOK, Items, Front, Progress
<1>2. PICK q \in Front..(Len(t1) + 1) :
        q = TokenFrom(Front) /\ At(q) # SEP /\ \A j \in Front..(q - 1) : At(j) = SEP
  BY <1>1, TokenFromEnds
<1>3. pc = "strtok" /\ UNCHANGED <<url, qesc4, tmp, argc, argv>>
  BY DEF Strtok
<1>4. \/ At(q) = NUL /\ pc' = "returned" /\ UNCHANGED <<t1, saved, token>>
      \/ /\ At(q) # NUL /\ token' = q /\ pc' = "token"
         /\ \/ At(q + 1) = SEP /\ t1' = [t1 EXCEPT ![q + 1] = NUL] /\ saved' = q + 2
            \/ At(q + 1) # SEP /\ t1' = t1 /\ saved' = q + 1
  BY <1>2 DEF Strtok, Front
<1>5. /\ q \in Nat \ {0} /\ Front \in Nat
      /\ \A j \in Front..(q - 1) : j \in 1..Len(t1) /\ t1[j] = SEP
  BY <1>1, <1>2 DEF At
<1>6. At(q) # NUL => q \in 1..Len(t1) /\ At(q) = t1[q]
  BY <1>1, <1>2, <1>5 DEF At
<1>7. At(q) # NUL => Len(t1') = Len(t1) /\ \A j \in 1..Len(t1) : t1'[j] = t1[j] \/ (j = q + 1 /\ t1[j] = SEP)
  <2>1. At(q + 1) = SEP => q + 1 \in 1..Len(t1) /\ t1[q + 1] = SEP
    BY <1>1, <1>5, MarksAssumption DEF At
  <2>2. QED
    BY <1>1, <1>4, <2>1
<1>8. CASE Stuck
  <2>1. PICK p \in 1..Len(t1) :
          t1[p] \in Tokens /\ t1[p].signature /\ \A j \in 1..(p - 1) : t1[j] = SEP
    BY <1>8 DEF Stuck
  <2>2. Front = 1 /\ At(p) = t1[p] /\ t1[p] # SEP
    BY <1>1, <1>8, <2>1, MarksAssumption DEF Stuck, Front, At
  <2>3. q = p
    <3>1. ~ (q < p)
      BY <1>1, <1>2, <1>5, <2>1 DEF At
    <3>2. ~ (q > p)
      BY <1>5, <2>1, <2>2
    <3>3. QED
      BY <1>5, <3>1, <3>2
  <2>4. At(q) # NUL
    BY <2>1, <2>2, <2>3, MarksAssumption
  <2>5. pc' = "token" /\ token' = p /\ tmp' = "t1"
    BY <1>3, <1>4, <1>8, <2>3, <2>4 DEF Stuck
  <2>6. Len(t1') = Len(t1) /\ t1'[p] = t1[p] /\ \A j \in 1..(p - 1) : t1'[j] = SEP
    BY <1>1, <1>7, <2>1, <2>3, <2>4
  <2>7. Stuck'
    BY <2>1, <2>5, <2>6 DEF Stuck
  <2>8. QED
    BY <1>1, <1>3, <2>6, <2>7 DEF Progress
<1>9. CASE ~ Stuck
  <2>1. ReadTo(argv, url, Front) /\ Untouched(t1, url, Front)
    BY <1>3, <1>9 DEF Progress, AtToken, InBody
  <2>2. Before(url, q) = Before(url, Front)
    <3>1. \A j \in Front..(q - 1) : url[j] = SEP
      BY <1>5, <2>1 DEF Untouched
    <3>2. Front <= q
      BY <1>1, <1>2
    <3>3. QED
      BY <1>1, <1>5, <3>1, <3>2, BeforeGrows
  <2>3. PICK at : Reads(argv, url, Before(url, q), at)
    BY <2>1, <2>2 DEF ReadTo
  <2>4. CASE At(q) = NUL
    <3>1. q = Len(t1) + 1
      <4> SUFFICES ASSUME q \in 1..Len(t1) PROVE FALSE
        BY <1>1, <1>2, <1>5
      <4>1. At(q) = url[q]
        BY <1>1, <1>2, <2>1 DEF At, Untouched
      <4>2. url[q] \in Tokens \cup {SEP}
        BY <1>1, UrlIsItems
      <4>3. QED
        BY <2>4, <4>1, <4>2, MarksAssumption
    <3>2. Before(url, q) = ParametersOf(url)
      <4>1. \A j \in ParametersOf(url) : j < q
        BY <1>1, <3>1, UrlIsItems
      <4>2. QED
        BY <4>1 DEF Before
    <3>3. pc' = "returned" /\ t1' = t1 /\ Reads(argv, url, ParametersOf(url), at)'
      BY <1>3, <1>4, <2>3, <2>4, <3>2
    <3>4. QED
      BY <1>1, <1>3, <3>3 DEF Progress
  <2>5. CASE At(q) # NUL
    <3>1. /\ token' = q /\ pc' = "token" /\ q \in 1..Len(t1)
          /\ saved' = q + 1 \/ (saved' = q + 2 /\ At(q + 1) = SEP)
      BY <1>4, <1>6, <2>5
    <3>2. ReadTo(argv, url, token)'
      BY <1>3, <2>3, <3>1 DEF ReadTo
    <3>4. Untouched(t1, url, saved)'
      <4> SUFFICES ASSUME NEW j \in saved'..Len(t1) PROVE t1'[j] = url[j]
        BY <1>3, <1>7, <2>5 DEF Untouched
      <4>1. j \in 1..Len(t1) /\ j >= Front
        BY <1>1, <1>2, <1>5, <3>1
      <4>2. t1[j] = url[j]
        BY <1>1, <2>1, <4>1 DEF Untouched
      <4>3. t1'[j] = t1[j]
        <5>1. CASE At(q + 1) = SEP
          <6>1. saved' = q + 2 /\ j # q + 1
            BY <1>4, <1>5, <2>5, <5>1
          <6>2. QED
            BY <1>7, <2>5, <4>1, <6>1
        <5>2. CASE At(q + 1) # SEP
          BY <1>4, <2>5, <5>2
        <5>3. QED
          BY <5>1, <5>2
      <4>4. QED
        BY <4>2, <4>3
    <3>5. t1'[q] = t1[q] /\ t1[q] = url[q]
      <4>1. q # q + 1 /\ q >= Front
        BY <1>1, <1>2, <1>5
      <4>2. QED
        BY <1>1, <1>7, <2>1, <2>5, <3>1, <4>1 DEF Untouched
    <3>6. ASSUME NEW j \in (q + 1)..(saved' - 1) PROVE url[j] = SEP
      <4>1. j = q + 1 /\ At(q + 1) = SEP
        BY <1>5, <3>1
      <4>2. q + 1 \in 1..Len(t1) /\ q + 1 >= Front /\ t1[q + 1] = SEP
        BY <1>1, <1>2, <1>5, <4>1, MarksAssumption DEF At
      <4>3. QED
        BY <1>1, <2>1, <4>1, <4>2 DEF Untouched
    <3>7. tmp = "t1" => \A j \in 1..(q - 1) : t1'[j] = SEP
      <4> SUFFICES ASSUME tmp = "t1", NEW j \in 1..(q - 1) PROVE t1'[j] = SEP
        OBVIOUS
      <4>1. Front = 1 /\ j \in Front..(q - 1) /\ j # q + 1
        BY <1>5 DEF Front
      <4>2. j \in 1..Len(t1) /\ t1[j] = SEP
        BY <1>5, <4>1
      <4>3. QED
        BY <1>7, <2>5, <4>1, <4>2
    <3>8. token' < saved'
      BY <1>5, <3>1
    <3>9. AtToken'
      BY <1>3, <3>1, <3>2, <3>4, <3>5, <3>6, <3>7, <3>8 DEF AtToken
    <3>10. Len(t1') = Len(url')
      BY <1>1, <1>3, <1>7, <2>5
    <3>11. QED
      BY <3>9, <3>10 DEF Progress
  <2>6. QED
    BY <2>4, <2>5
<1>10. QED
  BY <1>8, <1>9

LEMMA SkipProgress == ASSUME IInv, Progress, SkipSignature PROVE Progress'
<1>1. /\ pc = "token" /\ t1[token].signature /\ pc' = "strtok"
      /\ UNCHANGED <<url, qesc4, t1, tmp, saved, token, argc, argv>>
  BY DEF SkipSignature
<1>2. /\ token \in 1..Len(t1) /\ t1[token] \in Tokens /\ url \in Urls /\ Len(t1) = Len(url)
      /\ saved \in Nat /\ token \in Nat /\ tmp \in {"t1", "NULL"} /\ Len(t1) \in Nat
  BY <1>1 DEF IInv, TypeOK, Progress
<1>3. CASE Stuck
  BY <1>1, <1>2, <1>3 DEF Stuck, Progress
<1>4. CASE AtToken /\ tmp = "t1"
  <2>1. Stuck'
    BY <1>1, <1>2, <1>4 DEF Stuck, AtToken
  <2>2. QED
    BY <1>1, <1>2, <2>1 DEF Progress
<1>5. CASE AtToken /\ tmp = "NULL"
  <2>1. ReadTo(argv, url, token) /\ Untouched(t1, url, saved) /\ token < saved
    BY <1>5 DEF AtToken
  <2>2. Before(url, saved) = Before(url, token)
    <3>1. ASSUME NEW j \in token..(saved - 1) PROVE url[j] = SEP \/ url[j].signature
      <4>1. j = token \/ j \in (token + 1)..(saved - 1)
        BY <1>2
      <4>2. QED
        BY <1>1, <1>5, <4>1 DEF AtToken
    <3>2. token <= saved
      BY <1>2, <2>1
    <3>3. QED
      BY <1>2, <3>1, <3>2, BeforeGrows
  <2>3. PICK at : Reads(argv, url, Before(url, saved), at)
    BY <2>1, <2>2 DEF ReadTo
  <2>4. Front' = saved'
    BY <1>1, <1>5 DEF Front
  <2>5. ReadTo(argv, url, Front)' /\ Untouched(t1, url, Front)'
    BY <1>1, <2>1, <2>3, <2>4 DEF ReadTo
  <2>6. QED
    BY <1>1, <1>2, <2>5 DEF Progress
<1>6. QED
  BY <1>1, <1>2, <1>3, <1>4, <1>5 DEF Progress, InBody

LEMMA CopyProgress == ASSUME IInv, Progress, CopyToken PROVE Progress'
<1> DEFINE t == t1[token]
<1>1. /\ pc = "token" /\ ~ t.signature /\ pc' = "slash"
      /\ argv' = Append(argv, [from |-> t, text |-> Copied(t)])
      /\ UNCHANGED <<url, qesc4, t1, tmp, saved, token, argc>>
  BY DEF CopyToken, Copied
<1>2. /\ token \in 1..Len(t1) /\ t \in Tokens /\ url \in Urls /\ Len(t1) = Len(url)
      /\ saved \in Nat /\ token \in Nat /\ Len(t1) \in Nat /\ argc \in Nat
      /\ t # SEP
      /\ argv \in Seq(Elements) /\ Len(argv) = argc
  BY <1>1, MarksAssumption DEF IInv, TypeOK, Progress, Elements
<1>3. AtToken
  BY <1>1 DEF Progress, Stuck, InBody
<1>4. ReadTo(argv, url, token) /\ Untouched(t1, url, saved) /\ token < saved /\ t = url[token]
  BY <1>3 DEF AtToken
<1>5. token \in ParametersOf(url)
  BY <1>1, <1>2, <1>4, UrlIsItems
<1>6. \A j \in Before(url, saved) : j \in Before(url, token) \/ j = token
  <2> SUFFICES ASSUME NEW j \in ParametersOf(url), j < saved, j # token PROVE j < token
    BY DEF Before
  <2>1. j \in Nat /\ url[j] # SEP
    BY <1>2, UrlIsItems
  <2>2. j \notin (token + 1)..(saved - 1)
    BY <1>3, <2>1 DEF AtToken
  <2>3. QED
    BY <1>2, <2>1, <2>2
<1>7. /\ token \in Before(url, saved)
      /\ \A j \in Before(url, token) : j \in Before(url, saved) /\ j \in Nat /\ j < token
  <2>1. \A j \in ParametersOf(url) : j \in Nat
    BY <1>2, UrlIsItems
  <2>2. QED
    BY <1>2, <1>4, <1>5, <2>1 DEF Before
<1>8. PICK at : Reads(argv, url, Before(url, token), at)
  BY <1>4 DEF ReadTo
<1>9. /\ Len(argv') = argc + 1 /\ argc = Len(argv) /\ argv'[argc + 1].from = t
      /\ \A i \in 1..argc : argv'[i] = argv[i]
  <2>1. [from |-> t, text |-> Copied(t)] \in Elements
    BY <1>1, <1>2, TokenShape DEF Elements, Copied
  <2> DEFINE e == [from |-> t, text |-> Copied(t)]
  <2>2. e.from = t
    OBVIOUS
  <2> HIDE DEF e, t
  <2>3. QED
    BY <1>1, <1>2, <2>1, <2>2, Lengthened DEF e
<1> HIDE DEF t
<1>10. \A i \in 1..(argc + 1) : i = argc + 1 \/ i \in 1..argc
  BY <1>2
<1>11. /\ at \in [1..argc -> Before(url, token)]
       /\ \A i \in 1..argc : argv[i].from = url[at[i]]
       /\ \A i, j \in 1..argc : i < j => at[i] < at[j]
       /\ \A k \in Before(url, token) : \E i \in 1..argc : at[i] = k
  BY <1>2, <1>8 DEF Reads
<1>12. PICK new \in [1..(argc + 1) -> Before(url, saved)] :
         /\ new[argc + 1] = token
         /\ \A i \in 1..argc : i \in 1..(argc + 1) /\ new[i] = at[i] /\ at[i] \in Before(url, token)
  <2> DEFINE f == [i \in 1..(argc + 1) |-> IF i = argc + 1 THEN token ELSE at[i]]
  <2>1. /\ f[argc + 1] = token
        /\ \A i \in 1..argc : i \in 1..(argc + 1) /\ f[i] = at[i] /\ at[i] \in Before(url, token)
    BY <1>2, <1>11
  <2>2. f \in [1..(argc + 1) -> Before(url, saved)]
    BY <1>7, <1>10, <2>1
  <2>3. QED
    BY <2>1, <2>2
<1>14. \A i \in 1..(argc + 1) : argv'[i].from = url[new[i]]
  BY <1>4, <1>9, <1>10, <1>11, <1>12
<1>15. ASSUME NEW i \in 1..(argc + 1), NEW j \in 1..(argc + 1), i < j PROVE new[i] < new[j]
  <2>1. i \in 1..argc
    BY <1>2, <1>15
  <2>2. CASE j \in 1..argc
    BY <1>11, <1>12, <1>15, <2>1, <2>2
  <2>3. CASE j = argc + 1
    BY <1>7, <1>12, <2>1, <2>3
  <2>4. QED
    BY <1>10, <2>2, <2>3
<1>16. \A k \in Before(url, saved) : \E i \in 1..(argc + 1) : new[i] = k
  <2> SUFFICES ASSUME NEW k \in Before(url, saved) PROVE \E i \in 1..(argc + 1) : new[i] = k
    OBVIOUS
  <2>1. CASE k = token
    BY <1>2, <1>12, <2>1
  <2>2. CASE k \in Before(url, token)
    BY <1>11, <1>12, <2>2
  <2>3. QED
    BY <1>6, <2>1, <2>2
<1>17. Reads(argv', url, Before(url, saved), new)
  BY <1>9, <1>12, <1>14, <1>15, <1>16 DEF Reads
<1>18. ReadTo(argv, url, saved)' /\ Untouched(t1, url, saved)'
  BY <1>1, <1>4, <1>17 DEF ReadTo
<1>19. QED
  BY <1>1, <1>2, <1>18 DEF Progress, InBody

(* What an element says may change, but not the token it is made from.     *)
LEMMA EditProgress ==
  ASSUME IInv, Progress, InBody, UNCHANGED <<url, t1, saved>>,
         Len(argv') = Len(argv), \A i \in 1..Len(argv) : argv'[i].from = argv[i].from,
         InBody' \/ (pc' = "strtok" /\ tmp' = "NULL")
  PROVE  Progress'
<1>1. Len(t1) = Len(url) /\ ReadTo(argv, url, saved) /\ Untouched(t1, url, saved)
  BY DEF Progress, Stuck, AtToken, InBody
<1>2. PICK at : Reads(argv, url, Before(url, saved), at)
  BY <1>1 DEF ReadTo
<1>3. Reads(argv', url, Before(url, saved), at)
  BY <1>2 DEF Reads
<1>4. ReadTo(argv, url, saved)' /\ Untouched(t1, url, saved)'
  BY <1>1, <1>3 DEF ReadTo
<1>5. CASE InBody'
  BY <1>1, <1>4, <1>5 DEF Progress
<1>6. CASE pc' = "strtok" /\ tmp' = "NULL"
  <2>1. Front' = saved'
    BY <1>6 DEF Front
  <2>2. ReadTo(argv, url, Front)' /\ Untouched(t1, url, Front)'
    BY <1>4, <2>1
  <2>3. QED
    BY <1>1, <1>6, <2>2 DEF Progress
<1>7. QED
  BY <1>5, <1>6

LEMMA SlashProgress == ASSUME IInv, Progress, AddSlash PROVE Progress'
<1>1. /\ argv \in Seq(Elements) /\ argc \in Nat /\ Len(argv) = argc + 1
      /\ t1[token] \in Tokens /\ ~ t1[token].signature /\ InBody /\ InBody'
      /\ UNCHANGED <<url, t1, saved>>
  BY DEF IInv, TypeOK, AddSlash, Elements, InBody
<1>2. Len(argv') = Len(argv) /\ \A i \in 1..Len(argv) : argv'[i].from = argv[i].from
  <2>1. CASE argc = 0 /\ t1[token].url = "bare"
    <3>1. argv' = [argv EXCEPT ![argc + 1].text = [t1[token] EXCEPT !.url = "path"]]
      BY <2>1 DEF AddSlash
    <3>2. [t1[token] EXCEPT !.url = "path"] \in Tokens
      BY <1>1, TokenShape
    <3>3. QED
      BY <1>1, <3>1, <3>2, LastReplaced
  <2>2. CASE ~ (argc = 0 /\ t1[token].url = "bare")
    BY <2>2 DEF AddSlash
  <2>3. QED
    BY <2>1, <2>2
<1>3. QED
  BY <1>1, <1>2, EditProgress

LEMMA PortProgress == ASSUME IInv, Progress, StripPort PROVE Progress'
<1>1. /\ argc \in Nat /\ Len(argv) = argc + 1 /\ InBody /\ argv[argc + 1].from = t1[token]
      /\ pc' = "strtok" /\ tmp' = "NULL" /\ UNCHANGED <<url, t1, saved>>
  BY DEF IInv, TypeOK, StripPort, InBody
<1>2. /\ Len(argv') = argc + 1 /\ argv'[argc + 1].from = t1[token]
      /\ \A i \in 1..argc : argv'[i] = argv[i]
  BY PortStep
<1>3. \A i \in 1..Len(argv) : argv'[i].from = argv[i].from
  BY <1>1, <1>2
<1>4. QED
  BY <1>1, <1>2, <1>3, EditProgress

LEMMA NextProgress == ASSUME IInv, Progress, [Next]_vars PROVE Progress'
<1>1. CASE UNCHANGED vars
  BY <1>1 DEF vars, Progress, Stuck, AtToken, Front, InBody
<1>2. QED
  BY <1>1, StrtokProgress, SkipProgress, CopyProgress, SlashProgress, PortProgress DEF Next, Split

(* Nothing of the string is lost, repeated or moved, whatever separators   *)
(* it has, although strtok writes into what it reads and begins anew until *)
(* there is a first element (oauth.c:434-482).                             *)
THEOREM NothingIsLost == Spec => []AllParameters
<1>1. Init => IInv /\ Progress
  BY InitInv, InitProgress
<1>2. IInv /\ Progress /\ [Next]_vars => (IInv /\ Progress)'
  BY NextInv, NextProgress
<1>3. IInv /\ Progress => AllParameters
  BY DEF IInv, TypeOK, Progress, Stuck, AtToken, InBody, AllParameters, Reads
<1>4. QED
  BY <1>1, <1>2, <1>3, PTL DEF Spec

=============================================================================
