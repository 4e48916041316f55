----------------------------- MODULE SignArray -----------------------------
(***************************************************************************)
(* oauth_sign_array2 and oauth_sign_url2 (oauth.c): protocol parameters    *)
(* are added to an array, the array is sorted and serialized into the      *)
(* string that is signed, the signature is appended, and the array is      *)
(* serialized again into what is sent.  A string is a sequence of          *)
(* characters; a word such as "oauth_nonce", of which only the whole       *)
(* matters, is one of them.                                                *)
(***************************************************************************)
EXTENDS Integers, Sequences, FiniteSets, SequencesExt

CONSTANTS
  Arrays,       \* the arrays a program may give, each with a URL first
  Forms,        \* of "get", "post", "header": how the result is sent
  Methods,      \* of "HMAC", "RSA", "PLAINTEXT"
  Keys,         \* consumer keys
  Tokens,       \* token keys, NULL among them if there may be none
  NULL,
  ArgMax,       \* sizeof oarg (1024)
  MaxSignings   \* bound on the calls made one after another

(* Characters, in the order of their codes.  Those below 0 are reserved;   *)
(* c - Shift is the escape of c, which strcmp sees as a '%': it comes      *)
(* before every unreserved character.                                      *)
Space == -6
Quote == -5
Amp   == -4
Comma == -3
Eq    == -2
Mark  == -1
Shift == 10
A == 0
ConsumerKey == 1
Nonce == 2
Signature == 3
SignatureMethod == 4
Timestamp == 5
Token == 6
Version == 7
Z == 8
Host == 9        \* "http://host/", the word with a ":/"
Now == 10        \* a time
Mac == 11        \* the text of a signature, up to the '=' at its end
OneDotZero == 12
Random == 13
Named == 14      \* the name of a signature method
OAuthWords == ConsumerKey..Version

Chars == Int

ASSUME ArgMaxAssumption == ArgMax \in Nat /\ ArgMax > 3
ASSUME FormsAssumption == Forms \subseteq {"get", "post", "header"}
ASSUME MethodsAssumption == Methods \subseteq {"HMAC", "RSA", "PLAINTEXT"}
ASSUME StringsAssumption ==
  /\ Arrays \subseteq Seq(Seq(Chars)) \ {<<>>}
  /\ Keys \subseteq Seq(Chars)
  /\ Tokens \subseteq Seq(Chars) \cup {NULL}
ASSUME SigningsAssumption == MaxSignings \in Nat \ {0}

VARIABLES
  argv,      \* the array; argc is its length
  given,     \* the array when oauth_sign_array2 was called
  call,      \* the other arguments of the call
  pc,        \* "call", "sort", "query", "result", "returned"
  job,       \* the arguments of oauth_serialize_url_sep
  i, first, query,  \* its variables
  room,      \* bytes allocated for query
  base,      \* what was signed: the URL and the query
  sign,      \* the signature
  sent,      \* the serialized strings that go into the request
  signings   \* calls made so far

loop == <<job, i, first, query, room>>
vars == <<argv, given, call, pc, loop, base, sign, sent, signings>>

argc == Len(argv)

-----------------------------------------------------------------------------
(* Strings.                                                                *)
Coded(c)  == IF c < 0 THEN c - Shift ELSE c
Escape(s) == [k \in 1..Len(s) |-> Coded(s[k])]
Decode(s) == [k \in 1..Len(s) |-> IF s[k] < -Shift THEN s[k] + Shift ELSE s[k]]

Has(s, c)    == \E k \in 1..Len(s) : s[k] = c
Strchr(s, c) == SelectInSeq(s, LAMBDA x : x = c)
Until(s, c)  == IF Has(s, c) THEN SubSeq(s, 1, Strchr(s, c) - 1) ELSE s
From(s, c)   == IF Has(s, c) THEN SubSeq(s, Strchr(s, c), Len(s)) ELSE <<>>
After(s, c)  == IF Has(s, c) THEN SubSeq(s, Strchr(s, c) + 1, Len(s)) ELSE <<>>

(* strcmp(s, t) < 0.                                                       *)
Less(s, t) ==
  \E k \in 1..Len(t) :
    /\ \A j \in 1..(k - 1) : j <= Len(s) /\ s[j] = t[j]
    /\ k > Len(s) \/ s[k] < t[k]

Snprintf(s) == SubSeq(s, 1, IF Len(s) < ArgMax THEN Len(s) ELSE ArgMax - 1)

PrecedesAsText(p1, p2) == Less(Escape(p1), Escape(p2))

(* oauth_cmpstringp(p1, p2) < 0: by name and then by value, an element     *)
(* without '=' before those with one.                                      *)
Precedes(p1, p2) ==
  LET v1 == Escape(p1)
      v2 == Escape(p2)
      name(v)  == Until(v, Coded(Eq))
      value(v) == From(v, Coded(Eq)) IN
  \/ Less(name(v1), name(v2))
  \/ name(v1) = name(v2) /\ Less(value(v1), value(v2))

-----------------------------------------------------------------------------
(* The members of S as before, a set of pairs, orders them: the n-th has   *)
(* n - 1 members before it.                                                *)
InOrder(S, before) ==
  LET ranks == {<<x, Cardinality({y \in S : <<y, x>> \in before})>> : x \in S} IN
  [n \in 1..Cardinality(S) |-> CHOOSE x \in S : <<x, n - 1>> \in ranks]

Ascending(S) == InOrder(S, {p \in S \X S : p[1] < p[2]})

(* The array with all but the URL sorted.                                  *)
Sorted(a) ==
  LET places == 2..Len(a)
      before == {p \in {<<j, k>> : j \in places, k \in places} :
                   Precedes(a[p[1]], a[p[2]]) \/ (a[p[1]] = a[p[2]] /\ p[1] < p[2])}
      at     == InOrder(places, before) IN
  [k \in 1..Len(a) |-> IF k = 1 THEN a[1] ELSE a[at[k - 1]]]

(* The array.                                                              *)
ParamExists(a, key) == \E k \in 1..Len(a) : Len(a[k]) > 1 /\ a[k][1] = key /\ a[k][2] = Eq

AddParam(a, key, value) == Append(a, Snprintf(<<key, Eq>> \o value))

AddAlways(a, key, value) == AddParam(a, key, value)

AddMissing(a, key, value) == IF ParamExists(a, key) THEN a ELSE AddParam(a, key, value)

(* oauth_add_protocol.                                                     *)
AddProtocol ==
  /\ pc = "call"
  /\ LET a1 == AddMissing(argv, Nonce, <<Random>>)
         a2 == AddMissing(a1, Timestamp, <<Now>>)
         a3 == IF call.t_key = NULL THEN a2 ELSE AddParam(a2, Token, call.t_key)
         a4 == AddParam(a3, ConsumerKey, call.c_key)
         a5 == AddParam(a4, SignatureMethod, <<Named>>) IN
     argv' = AddMissing(a5, Version, <<OneDotZero>>)
  /\ pc' = "sort"
  /\ UNCHANGED <<given, call, loop, base, sign, sent, signings>>

(* oauth_serialize_url_sep is called.                                      *)
Serialize(start, sep, mod) ==
  /\ job' = [start |-> start, sep |-> sep, mod |-> mod]
  /\ i' = start
  /\ first' = FALSE
  /\ query' = <<>>
  /\ room' = 1

(* qsort of all but the URL.                                               *)
Sort ==
  /\ pc = "sort"
  /\ argv' = Sorted(argv)
  /\ pc' = "query"
  /\ Serialize(1, Amp, {})
  /\ UNCHANGED <<given, call, base, sign, sent, signings>>

-----------------------------------------------------------------------------
(* oauth_serialize_url_sep, an element at a time.                          *)
IsOAuth(e) == e # <<>> /\ e[1] \in OAuthWords

Kept ==
  /\ 1 \in job.mod => ~ IsOAuth(argv[i + 1])
  /\ 2 \in job.mod => IsOAuth(argv[i + 1]) \/ i = 0

IsUrl(e) == i = 0 /\ job.start = 0 /\ Has(e, Host)

(* tmp: the URL with its spaces encoded; an element without '=', to which  *)
(* one is added; or name and value escaped.                                *)
Text(e) ==
  LET quote == IF 4 \in job.mod THEN <<Quote>> ELSE <<>> IN
  IF IsUrl(e)
    THEN [k \in 1..Len(e) |-> IF e[k] = Space THEN Coded(Space) ELSE e[k]]
    ELSE IF ~ Has(e, Eq)
      THEN Append(e, Eq)
      ELSE Escape(Until(e, Eq)) \o <<Eq>> \o quote \o Escape(After(e, Eq)) \o quote

(* The separator before an element: none before the first, or after '?'.   *)
SeparatorButAtStart == IF i = job.start THEN <<>> ELSE <<job.sep>>

Separator == IF i = job.start \/ first THEN <<>> ELSE <<job.sep>>

(* What query is reallocated to hold: tmp, a separator, the '\0'.          *)
RoomForText(e) == Len(query) + Len(Text(e)) + 1

Room(e) == Len(query) + Len(Text(e)) + Len(<<job.sep>>) + 1

SkipElementAndNext ==
  /\ pc \in {"query", "result"}
  /\ i < argc
  /\ ~ Kept
  /\ i' = i + 2
  /\ UNCHANGED <<argv, given, call, pc, job, first, query, room, base, sign, sent, signings>>

SkipElement ==
  /\ pc \in {"query", "result"}
  /\ i < argc
  /\ ~ Kept
  /\ i' = i + 1
  /\ UNCHANGED <<argv, given, call, pc, job, first, query, room, base, sign, sent, signings>>

(* '?' and no separator follow a URL.                                      *)
AddElement ==
  /\ pc \in {"query", "result"}
  /\ i < argc
  /\ Kept
  /\ LET e == argv[i + 1] IN
     /\ room' = Room(e)
     /\ query' = query \o Separator \o Text(e) \o (IF IsUrl(e) THEN <<Mark>> ELSE <<>>)
     /\ first' = IsUrl(e)
  /\ i' = i + 1
  /\ UNCHANGED <<argv, given, call, pc, job, base, sign, sent, signings>>

-----------------------------------------------------------------------------
c_secret == <<A, Amp>>
t_secret == <<Z>>

(* oauth_catenc of the two secrets.                                        *)
okey == Escape(c_secret) \o <<Amp>> \o Escape(t_secret)

Signed(method) ==
  CASE method = "HMAC" -> <<Mac, Eq>>
    [] method = "RSA" -> <<Mac>>
    [] method = "PLAINTEXT" -> okey

(* The arguments with which the array is serialized for sending: once for  *)
(* oauth_sign_array2, twice by a program that sends the header itself.     *)
SerializeResult(n) ==
  CASE call.form = "get" -> Serialize(0, Amp, {})
    [] call.form = "post" -> Serialize(1, Amp, {})
    [] call.form = "header" /\ n = 1 -> Serialize(1, Comma, {2, 4})
    [] call.form = "header" /\ n = 2 -> Serialize(0, Amp, {1})

(* The base string is method, URL and query, each escaped and so parted    *)
(* from the next; its parts stand for it here.                             *)
Sign ==
  /\ pc = "query"
  /\ i = argc
  /\ base' = [url |-> argv[1], query |-> query]
  /\ sign' = Signed(call.method)
  /\ argv' = AddParam(argv, Signature, sign')
  /\ pc' = "result"
  /\ SerializeResult(1)
  /\ UNCHANGED <<given, call, sent, signings>>

Return ==
  /\ pc = "result"
  /\ i = argc
  /\ sent' = Append(sent, query)
  /\ IF call.form = "header" /\ sent = <<>>
       THEN SerializeResult(2) /\ UNCHANGED pc
       ELSE pc' = "returned" /\ UNCHANGED loop
  /\ UNCHANGED <<argv, given, call, base, sign, signings>>

-----------------------------------------------------------------------------
Calls == [form : Forms, method : Methods, c_key : Keys, t_key : Tokens]

Init ==
  /\ argv \in Arrays
  /\ given = argv
  /\ call \in Calls
  /\ pc = "call"
  /\ job = [start |-> 0, sep |-> Amp, mod |-> {}]
  /\ i = 0
  /\ first = FALSE
  /\ query = <<>>
  /\ room = 0
  /\ base = [url |-> <<>>, query |-> <<>>]
  /\ sign = <<>>
  /\ sent = <<>>
  /\ signings = 1

(* The parts of a string between the characters of a set, the empty ones   *)
(* left out.                                                               *)
PartEnd(s, marks, k) ==
  CHOOSE e \in k..Len(s) :
    /\ \A j \in k..e : s[j] \notin marks
    /\ e < Len(s) => s[e + 1] \in marks

Pieces(s, marks) ==
  LET starts == {k \in 1..Len(s) : s[k] \notin marks /\ (k > 1 => s[k - 1] \in marks)}
      at     == Ascending(starts) IN
  [n \in 1..Cardinality(starts) |-> SubSeq(s, at[n], PartEnd(s, marks, at[n]))]

(* oauth_split_url_parameters, as SplitParams has it.                      *)
Split(url) ==
  LET pieces == Pieces(url, {Amp, Mark})
      kept   == {k \in 1..Len(pieces) :
                   ~ (Len(pieces[k]) > 1 /\ pieces[k][1] = Signature /\ pieces[k][2] = Eq)}
      at     == Ascending(kept) IN
  [n \in 1..Cardinality(kept) |-> IF n = 1 THEN pieces[at[n]] ELSE Decode(pieces[at[n]])]

(* The program signs again: the array it has, or, with oauth_sign_url2,    *)
(* the URL it got.                                                         *)
SignAgain(form) ==
  /\ pc = "returned"
  /\ signings < MaxSignings
  /\ \/ argv' = argv
     \/ call.form = "get" /\ argv' = Split(sent[1])
  /\ given' = argv'
  /\ call' = [call EXCEPT !.form = form]
  /\ pc' = "call"
  /\ sent' = <<>>
  /\ signings' = signings + 1
  /\ UNCHANGED <<loop, base, sign>>

Next ==
  \/ AddProtocol
  \/ Sort
  \/ SkipElement
  \/ AddElement
  \/ Sign
  \/ Return
  \/ \E form \in Forms : SignAgain(form)

Spec == Init /\ [][Next]_vars

-----------------------------------------------------------------------------
(* The other end, as OAuth (RFC 5849, 3.4.1) has it: the parameters of a   *)
(* request are parted, decoded, sorted by their encoded names and values,  *)
(* and put together again without the signature.                           *)
Unquoted(s) == IF s # <<>> /\ s[1] = Quote THEN SubSeq(s, 2, Len(s) - 1) ELSE s

Parameters(text) ==
  LET pieces == Pieces(text, {Amp, Comma}) IN
  [k \in 1..Len(pieces) |-> [name  |-> Decode(Until(pieces[k], Eq)),
                             value |-> Decode(Unquoted(After(pieces[k], Eq)))]]

UrlSent == IF call.form = "post" THEN argv[1] ELSE Until(Last(sent), Mark)

ParametersSent ==
  CASE call.form = "get" -> Parameters(After(sent[1], Mark))
    [] call.form = "post" -> Parameters(sent[1])
    [] call.form = "header" -> Parameters(sent[1]) \o Parameters(After(sent[2], Mark))

ParameterLess(p, q) ==
  \/ Less(Escape(p.name), Escape(q.name))
  \/ p.name = q.name /\ Less(Escape(p.value), Escape(q.value))

Encoded(p) == Escape(p.name) \o <<Eq>> \o Escape(p.value)

Normalized(params) ==
  LET unsigned == {k \in 1..Len(params) : params[k].name # <<Signature>>}
      before   == {p \in unsigned \X unsigned :
                     \/ ParameterLess(params[p[1]], params[p[2]])
                     \/ params[p[1]] = params[p[2]] /\ p[1] < p[2]}
      at       == InOrder(unsigned, before) IN
  FlattenSeq([k \in 1..Cardinality(unsigned) |->
                (IF k = 1 THEN <<>> ELSE <<Amp>>) \o Encoded(params[at[k]])])

ValuesOf(name) ==
  {ParametersSent[k].value : k \in {j \in 1..Len(ParametersSent) : ParametersSent[j].name = <<name>>}}

-----------------------------------------------------------------------------
(* Each variable holds a value of its type.                                *)
TypeOK ==
  /\ argv \in Seq(Seq(Chars)) /\ argv # <<>>
  /\ given \in Seq(Seq(Chars))
  /\ call \in Calls
  /\ pc \in {"call", "sort", "query", "result", "returned"}
  /\ job \in [start : {0, 1}, sep : {Amp, Comma}, mod : SUBSET {1, 2, 4}]
  /\ i \in Nat /\ (pc \in {"query", "result"} => i <= argc)
  /\ first \in BOOLEAN
  /\ query \in Seq(Chars)
  /\ room \in Nat
  /\ base \in [url : Seq(Chars), query : Seq(Chars)]
  /\ sign \in Seq(Chars)
  /\ sent \in Seq(Seq(Chars)) /\ Len(sent) <= 2
  /\ signings \in 1..MaxSignings

(* The arrays a server can be expected to read as they were signed: an     *)
(* absolute URL without spaces and, as it has been split, without '&' and  *)
(* '?', no signature among the parameters, and '=' in every parameter that *)
(* has a character to escape (Sign says why).                              *)
Plain(a) ==
  /\ a # <<>> /\ a[1] # <<>> /\ a[1][1] = Host
  /\ \A c \in {Space, Amp, Mark} : ~ Has(a[1], c)
  /\ \A k \in 2..Len(a) :
       /\ Until(a[k], Eq) # <<Signature>>
       /\ Has(a[k], Eq) \/ Escape(a[k]) = a[k]

(* What oarg has room for of a value: its name, '=' and '\0' go there too. *)
Carried(value) == IF Len(value) + 3 <= ArgMax THEN value ELSE SubSeq(value, 1, ArgMax - 3)

(* The keys are read by the server as they were given, whatever characters *)
(* they have, down to the last that oarg has room for; a longer key loses  *)
(* its end and nothing else (oauth.c:764-785).                             *)
KeysArrive ==
  /\ Carried(call.c_key) \in ValuesOf(ConsumerKey)
  /\ call.t_key # NULL => Carried(call.t_key) \in ValuesOf(Token)

(* A server that takes the request apart and puts the base string together *)
(* from it gets the string that was signed, the keys to check it with, and *)
(* the signature, or what oarg holds of it: sorting, escaping, separating  *)
(* and appending agree at both ends, whichever way the request is sent     *)
(* (oauth.c:764-785, 865-917, 520-598).                                    *)
ServerVerifies ==
  pc = "returned" /\ Plain(given) =>
    /\ UrlSent = base.url
    /\ Normalized(ParametersSent) = base.query
    /\ Carried(sign) \in ValuesOf(Signature)
    /\ KeysArrive

(* A request is not given a second nonce, timestamp or version by being    *)
(* signed again, from the array or from the URL (oauth.c:768-794).         *)
ProtocolOnce ==
  \A key \in {Nonce, Timestamp, Version} :
    LET times(a) == Cardinality({k \in 1..Len(a) : Len(a[k]) > 1 /\ a[k][1] = key /\ a[k][2] = Eq}) IN
    times(argv) <= 1 \/ times(argv) <= times(given)

(* strcat never writes past the end of the string being built.             *)
QueryFits == pc \in {"query", "result"} => Len(query) + 1 <= room

(* Separators stand between elements only: never first, last, doubled or   *)
(* after the URL's '?', but for a header whose first element mod leaves    *)
(* out (oauth.c:532-533, 585).                                             *)
Separated ==
  pc = "returned" /\ Plain(given) =>
    \A k \in 1..Len(sent) :
      LET header == call.form = "header" /\ k = 1
          sep    == IF header THEN Comma ELSE Amp IN
      \/ header /\ ~ IsOAuth(argv[2])
      \/ \A j \in 1..Len(sent[k]) :
           sent[k][j] = sep =>
             j \in 2..(Len(sent[k]) - 1) /\ sent[k][j - 1] \notin {sep, Mark}

=============================================================================
