---------------------------- MODULE HashClients ----------------------------
(***************************************************************************)
(* hash.c over the contexts of sha1.c, as it is built for anything but the *)
(* PSP: hmac_sha1, oauth_body_hash_data and oauth_body_hash_file call      *)
(* SHA1Reset, SHA1Input and SHA1Result and look at none of their answers.  *)
(* The contexts of hmac_sha1 are used one after the other and share the    *)
(* variables of Sha1Context.  A digest is a term: the parts that were      *)
(* given to SHA1Input, with earlier digests among them.                    *)
(***************************************************************************)
EXTENDS Sha1Context

CONSTANTS
  Users,      \* of "program", "hmac", "data", "file": who has the context
  DigestLen,  \* octets of a digest (20)
  KeyLens,    \* lengths of an HMAC key
  InLens,     \* lengths of a message or of data
  FileLens,   \* lengths of a file
  ReadLen,    \* octets of one fread (4096)
  MaxErrors   \* bound on the read errors of the file

ASSUME ClientsAssumption ==
  /\ Users \subseteq {"program", "hmac", "data", "file"}
  /\ DigestLen \in 1..BlockLen
  /\ KeyLens \subseteq Nat /\ InLens \subseteq Nat /\ FileLens \subseteq Nat
  /\ ReadLen \in Nat \ {0} /\ MaxErrors \in Nat

(* What is hashed is shorter than the length words can say, 2^61 octets in *)
(* the code, and within the bounds of Sha1Context.                         *)
Lengths == KeyLens \cup FileLens \cup InLens \cup {BlockLen + n : n \in InLens \cup {DigestLen}}

ASSUME LengthsAssumption ==
  /\ \A n \in Lengths : n <= MaxFed /\ 8 * n < LowMod * HighMod
  /\ KeyLens \cup InLens \cup {BlockLen, ReadLen} \subseteq 0..MaxChunk

VARIABLES
  user,    \* who has the context
  keylen,  \* the key's length, as it was given
  size,    \* octets of the message, of the data, or of the file
  todo,    \* the calls still to be made, of hmac_sha1 or oauth_body_hash_data
  key,     \* what key points to
  parts,   \* what the context was given since SHA1Reset
  value,   \* what the last SHA1Result wrote
  stage,   \* of oauth_body_hash_file: "open", "read", "done"
  offset,  \* how far the file has been read
  errors   \* read errors so far

args == <<user, keylen, size>>
mac  == <<todo, key, parts, value>>
file == <<stage, offset, errors>>
clientVars == <<vars, args, mac, file>>

Term(name, of)  == [name |-> name, of |-> of]
Leaf(name)      == Term(name, <<>>)
H(of)           == Term("sha1", of)
Uninitialised   == Leaf("uninitialised")

-----------------------------------------------------------------------------
Reset          == [op |-> "SHA1Reset", what |-> "", len |-> 0]
Input(what, n) == [op |-> "SHA1Input", what |-> what, len |-> n]
Result(where)  == [op |-> "SHA1Result", what |-> where, len |-> 0]

KeyIsHashedAtBlock(n) == n >= BlockLen

KeyIsHashed(n) == n > BlockLen

(* The calls of hmac_sha1.                                                 *)
Hmac(kl, il) ==
  (IF KeyIsHashed(kl)
     THEN <<Reset, Input("key", kl), Result("tmpkey")>> ELSE <<>>)
  \o <<Reset, Input("ipad", BlockLen), Input("in", il), Result("digest")>>
  \o <<Reset, Input("opad", BlockLen), Input("digest", DigestLen), Result("resbuf")>>

(* The calls of oauth_body_hash_data.                                      *)
BodyHashData(n) == <<Reset, Input("data", n), Result("digest")>>

ClientInit ==
  /\ Init
  /\ user \in Users
  /\ keylen \in IF user = "hmac" THEN KeyLens ELSE {0}
  /\ size \in CASE user \in {"hmac", "data"} -> InLens
               [] user = "file" -> FileLens
               [] user = "program" -> {0}
  /\ todo = CASE user = "hmac" -> Hmac(keylen, size)
              [] user = "data" -> BodyHashData(size)
              [] OTHER -> <<>>
  /\ key = Leaf("key")
  /\ parts = <<>>
  /\ value = Uninitialised
  /\ stage = "open"
  /\ offset = 0
  /\ errors = 0

(* The context as any program may use it.                                  *)
Program ==
  /\ user = "program"
  /\ Next
  /\ UNCHANGED <<args, mac, file>>

(* What a part is when it is given: a pad is the key combined with 0x36 or *)
(* 0x5c, and "digest" is the array the inner SHA1Result wrote to.          *)
Part(what) ==
  CASE what \in {"ipad", "opad"} -> Term(what, <<key>>)
    [] what = "digest"           -> value
    [] OTHER                     -> Leaf(what)

(* What is in the array after SHA1Result, which writes nothing when it     *)
(* refuses.                                                                *)
Written == IF res' = shaSuccess THEN H(parts) ELSE value

CallReset ==
  /\ todo # <<>> /\ Head(todo) = Reset
  /\ SHA1Reset
  /\ parts' = <<>>
  /\ todo' = Tail(todo)
  /\ UNCHANGED <<args, key, value, file>>

CallInput ==
  /\ todo # <<>> /\ Head(todo).op = "SHA1Input"
  /\ IF Head(todo).len = 0 THEN SHA1InputNothing ELSE SHA1Input(Head(todo).len)
  /\ parts' = Append(parts, Part(Head(todo).what))
  /\ todo' = Tail(todo)
  /\ UNCHANGED <<args, key, value, file>>

(* After the key was hashed, key points to the digest.                     *)
CallResult ==
  /\ todo # <<>> /\ Head(todo).op = "SHA1Result"
  /\ SHA1Result
  /\ value' = Written
  /\ key' = IF Head(todo).what = "tmpkey" THEN value' ELSE key
  /\ todo' = Tail(todo)
  /\ UNCHANGED <<args, parts, file>>

-----------------------------------------------------------------------------
(* oauth_body_hash_file: no file, no hash.                                 *)
Fopen ==
  /\ user = "file" /\ stage = "open"
  /\ \/ SHA1Reset /\ stage' = "read"
     \/ stage' = "done" /\ UNCHANGED vars
  /\ UNCHANGED <<args, mac, offset, errors>>

(* fread gives a full block, the rest of the file, or, when it meets an    *)
(* error, what it had until then.                                          *)
Fread ==
  /\ user = "file" /\ stage = "read"
  /\ \E n \in 1..ReadLen :
       /\ offset + n <= size
       /\ \/ (n = ReadLen \/ offset + n = size) /\ UNCHANGED errors
          \/ errors < MaxErrors /\ errors' = errors + 1
       /\ SHA1Input(n)
       /\ offset' = offset + n
  /\ UNCHANGED <<args, mac, stage>>

FreadStopsAtShort ==
  /\ user = "file" /\ stage = "read"
  /\ offset + ReadLen > size \/ errors < MaxErrors
  /\ errors' = IF offset + ReadLen > size THEN errors ELSE errors + 1
  /\ SHA1Result
  /\ stage' = "done"
  /\ UNCHANGED <<args, mac, offset>>

(* It gives nothing at the end of the file, and on an error as well.       *)
FreadNothing ==
  /\ user = "file" /\ stage = "read"
  /\ offset = size \/ errors < MaxErrors
  /\ errors' = IF offset = size THEN errors ELSE errors + 1
  /\ SHA1Result
  /\ stage' = "done"
  /\ UNCHANGED <<args, mac, offset>>

(* The loop of a SHA1Input that a function of hash.c has called.           *)
ClientInput ==
  /\ user # "program"
  /\ InputOctet \/ InputReturns
  /\ UNCHANGED <<args, mac, file>>

ClientNext ==
  \/ Program
  \/ CallReset
  \/ CallInput
  \/ CallResult
  \/ ClientInput
  \/ Fopen
  \/ Fread
  \/ FreadNothing

ClientSpec == ClientInit /\ [][ClientNext]_clientVars

-----------------------------------------------------------------------------
(* hmac_sha1 looks at none of the answers it gets; all the same, what it   *)
(* writes is the HMAC of RFC 2104: the whole key, or its digest if it does *)
(* not fit into a block, in both pads, and the inner digest in the outer   *)
(* one (hash.c:19-57).                                                     *)
MacIsHmac ==
  user = "hmac" /\ todo = <<>> /\ pc = "ready" =>
    LET k == IF keylen <= BlockLen THEN Leaf("key") ELSE H(<<Leaf("key")>>) IN
    /\ value = H(<<Term("opad", <<k>>), H(<<Term("ipad", <<k>>), Leaf("in")>>)>>)
    /\ digest = Padded(BlockLen + DigestLen)

BodyHashed ==
  \/ user = "data" /\ todo = <<>> /\ pc = "ready"
  \/ user = "file" /\ stage = "done" /\ digest # <<>>

(* The hash of a body is that of all its octets, however a file is cut     *)
(* into blocks and short reads, unless a read failed (hash.c:72-119).      *)
BodyHashIsOfBody == BodyHashed /\ errors = 0 => digest = Padded(size)

(* oauth.h:490: "calculate body hash (sha1sum) of given file", or NULL if  *)
(* it cannot be read.                                                      *)
FileHashIsOfFile == user = "file" /\ BodyHashed => digest = Padded(size)

=============================================================================
