---------------------------- MODULE SplitParams ----------------------------
(***************************************************************************)
(* oauth_split_post_paramters (oauth.c): a URL or a query string is cut at *)
(* '&' and '?' with strtok, which keeps its place in the string between    *)
(* calls and writes a '\0' over the separator that ends a token.  A string *)
(* is a sequence of separators and tokens, and a token is what the         *)
(* function asks of it.                                                    *)
(***************************************************************************)
EXTENDS Naturals, Sequences

CONSTANTS
  MaxItems,   \* bound on the separators and tokens of a string
  SEP,        \* '&' or '?'
  NUL         \* '\0'

(* signature: the token starts with "oauth_signature=".  url: it contains  *)
(* ":/", with ("path") or without ("bare") a '/' after the host.  port: it *)
(* has ":80" before a '/', or at the end of a bare URL, as it stands       *)
(* ("plain") or once it is unescaped ("coded").  escaped: unescaping       *)
(* changes it.                                                             *)
Signature == [signature |-> TRUE, url |-> "none", port |-> "none", escaped |-> FALSE]
UrlForms  == {"none", "bare", "path"}
Tokens    == {Signature}
  \cup [signature : {FALSE}, url : UrlForms, port : {"none", "plain"}, escaped : BOOLEAN]
  \cup [signature : {FALSE}, url : UrlForms, port : {"coded"}, escaped : {TRUE}]

ASSUME MaxItemsAssumption == MaxItems \in Nat
ASSUME MarksAssumption == SEP \notin Tokens /\ NUL \notin Tokens \cup {SEP}

(* A string of k items with tokens in these places and separators in the   *)
(* others; two tokens are always parted by a separator.                    *)
Strings(k, places) ==
  {[i \in 1..k |-> IF i \in places THEN of[i] ELSE SEP] : of \in [places -> Tokens]}
Parted(k) == {places \in SUBSET (1..k) : \A i \in places : i + 1 \notin places}
Urls == UNION {UNION {Strings(k, places) : places \in Parted(k)} : k \in 0..MaxItems}

VARIABLES
  url,    \* the argument
  qesc4,  \* qesc & 4: the first element is unescaped too
  pc,     \* "strtok": the while condition, "token", "slash", "port": its body, "returned"
  t1,     \* the copy of url that strtok writes into
  tmp,    \* the argument of the next strtok: "t1" or "NULL"
  saved,  \* where strtok goes on when it is given NULL
  token,  \* place in t1 of the token that strtok returned
  argc,
  argv    \* the elements: the token each is made from, and what it says

vars == <<url, qesc4, pc, t1, tmp, saved, token, argc, argv>>

Init ==
  /\ url \in Urls
  /\ qesc4 \in BOOLEAN
  /\ pc = "strtok"
  /\ t1 = url
  /\ tmp = "t1"
  /\ saved = 1
  /\ token = 0
  /\ argc = 0
  /\ argv = <<>>

-----------------------------------------------------------------------------
(* What stands at place i of t1; a '\0' follows its last character.        *)
At(i) == IF i <= Len(t1) THEN t1[i] ELSE NUL

(* strtok skips separators from here on.                                   *)
TokenFrom(i) ==
  CHOOSE p \in i..(Len(t1) + 1) : At(p) # SEP /\ \A j \in i..(p - 1) : At(j) = SEP

StrtokOverrun ==
  /\ pc = "strtok"
  /\ LET p == TokenFrom(IF tmp = "t1" THEN 1 ELSE saved) IN
       IF At(p) = NUL
         THEN pc' = "returned" /\ UNCHANGED <<t1, saved, token>>
         ELSE /\ token' = p
              /\ IF At(p + 1) = SEP
                   THEN t1' = [t1 EXCEPT ![p + 1] = NUL] /\ saved' = p + 3
                   ELSE UNCHANGED t1 /\ saved' = p + 1
              /\ pc' = "token"
  /\ UNCHANGED <<url, qesc4, tmp, argc, argv>>

StrtokEndsAtEmpty ==
  /\ pc = "strtok"
  /\ LET p == IF tmp = "t1" THEN 1 ELSE saved IN
       IF At(p) \in {SEP, NUL}
         THEN pc' = "returned" /\ UNCHANGED <<t1, saved, token>>
         ELSE /\ token' = p
              /\ IF At(p + 1) = SEP
                   THEN t1' = [t1 EXCEPT ![p + 1] = NUL] /\ saved' = p + 2
                   ELSE UNCHANGED t1 /\ saved' = p + 1
              /\ pc' = "token"
  /\ UNCHANGED <<url, qesc4, tmp, argc, argv>>

(* token = strtok(tmp, "&?").                                              *)
Strtok ==
  /\ pc = "strtok"
  /\ LET p == TokenFrom(IF tmp = "t1" THEN 1 ELSE saved) IN
       IF At(p) = NUL
         THEN pc' = "returned" /\ UNCHANGED <<t1, saved, token>>
         ELSE /\ token' = p
              /\ IF At(p + 1) = SEP
                   THEN t1' = [t1 EXCEPT ![p + 1] = NUL] /\ saved' = p + 2
                   ELSE UNCHANGED t1 /\ saved' = p + 1
              /\ pc' = "token"
  /\ UNCHANGED <<url, qesc4, tmp, argc, argv>>

SkipsWithoutNext ==
  /\ pc = "token"
  /\ t1[token].signature
  /\ UNCHANGED vars

(* A signature is left out; tmp stays what it was.                         *)
SkipSignature ==
  /\ pc = "token"
  /\ t1[token].signature
  /\ pc' = "strtok"
  /\ UNCHANGED <<url, qesc4, t1, tmp, saved, token, argc, argv>>

Unescaped(t) == [t EXCEPT !.port = IF @ = "coded" THEN "plain" ELSE @, !.escaped = FALSE]

(* A new element: the token unescaped, but in the first place only when    *)
(* qesc & 4 asks for it.                                                   *)
CopyToken ==
  /\ pc = "token"
  /\ ~ t1[token].signature
  /\ argv' = Append(argv, [from |-> t1[token],
                           text |-> IF argc > 0 \/ qesc4 THEN Unescaped(t1[token]) ELSE t1[token]])
  /\ pc' = "slash"
  /\ UNCHANGED <<url, qesc4, t1, tmp, saved, token, argc>>

(* An absolute URL in the first place gets its path's slash, on a new copy *)
(* of the token as it was given: if it had been unescaped it no longer is. *)
AddSlash ==
  /\ pc = "slash"
  /\ argv' = IF argc = 0 /\ t1[token].url = "bare"
               THEN [argv EXCEPT ![argc + 1].text = [t1[token] EXCEPT !.url = "path"]]
               ELSE argv
  /\ pc' = "port"
  /\ UNCHANGED <<url, qesc4, t1, tmp, saved, token, argc>>

PortBeforeSlash(t) == t.port = "plain" /\ t.url # "bare"

StripPortOfToken ==
  /\ pc = "port"
  /\ argv' = IF argc = 0 /\ PortBeforeSlash(t1[token])
               THEN [argv EXCEPT ![argc + 1].text.port = "none"]
               ELSE argv
  /\ tmp' = "NULL"
  /\ argc' = argc + 1
  /\ pc' = "strtok"
  /\ UNCHANGED <<url, qesc4, t1, saved, token>>

(* ":80" goes from before a '/' in the first element, URL or not, and      *)
(* whatever the scheme.                                                    *)
StripPort ==
  /\ pc = "port"
  /\ argv' = IF argc = 0 /\ PortBeforeSlash(argv[argc + 1].text)
               THEN [argv EXCEPT ![argc + 1].text.port = "none"]
               ELSE argv
  /\ tmp' = "NULL"
  /\ argc' = argc + 1
  /\ pc' = "strtok"
  /\ UNCHANGED <<url, qesc4, t1, saved, token>>

Split == Strtok \/ SkipSignature \/ CopyToken \/ AddSlash \/ StripPort

Next == Split

Spec == Init /\ [][Next]_vars

(* The function is one thread of control.                                  *)
FairSpec == Spec /\ WF_vars(Split)

-----------------------------------------------------------------------------
(* Each variable holds a value of its type; strtok never starts beyond the *)
(* '\0' that ends the string.                                              *)
TypeOK ==
  /\ url \in Urls
  /\ qesc4 \in BOOLEAN
  /\ pc \in {"strtok", "token", "slash", "port", "returned"}
  /\ t1 \in Seq(Tokens \cup {SEP, NUL})
  /\ tmp \in {"t1", "NULL"}
  /\ saved \in 1..(Len(t1) + 1)
  /\ token \in 0..Len(t1)
  /\ argc \in Nat
  /\ argv \in Seq([from : Tokens, text : Tokens])
  /\ Len(argv) = IF pc \in {"slash", "port"} THEN argc + 1 ELSE argc

TokensOf(u) == SelectSeq(u, LAMBDA item : item # SEP)

ParametersOf(u) == {k \in 1..Len(u) : u[k] # SEP /\ ~ u[k].signature}

(* What is returned is every parameter of the string, in its order and     *)
(* once, but the signatures: wherever the separators are, and although     *)
(* strtok writes into the string it has still to read (oauth.c:434-482).   *)
AllParameters ==
  pc = "returned" =>
    \E at \in [1..argc -> ParametersOf(url)] :
      /\ \A i \in 1..argc : argv[i].from = url[at[i]]
      /\ \A i, j \in 1..argc : i < j => at[i] < at[j]
      /\ \A k \in ParametersOf(url) : \E i \in 1..argc : at[i] = k

(* An absolute URL that is split ends up as the base string needs it, with *)
(* a path and without ":80" before it, also when the '/' that the port is  *)
(* looked for with has just been added, or the port was escaped and the    *)
(* element was to be unescaped; and no parameter after it is altered but   *)
(* for being unescaped (oauth.c:444-478).                                  *)
UrlIsNormalised ==
  \A i \in 1..argc :
    LET made == argv[i] IN
    IF i = 1
      THEN made.from.url # "none" => made.text.url = "path" /\ made.text.port # "plain"
      ELSE made.text = Unescaped(made.from)

(* The function returns, unless the first parameter is a signature.        *)
ReturnsUnlessSignatureFirst ==
  (TokensOf(url) # <<>> => ~ TokensOf(url)[1].signature) ~> pc = "returned"

(* oauth.c:417: "@return number of parameter(s) in array."                 *)
Returns == <>(pc = "returned")

=============================================================================
