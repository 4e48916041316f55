------------------------------- MODULE Base64 -------------------------------
(***************************************************************************)
(* oauth_encode_base64 and oauth_decode_base64 (oauth.c).  Octets are      *)
(* numbers below 256 and characters are their ASCII codes.  Between the    *)
(* two calls a mail system or a header may have broken the text with       *)
(* characters that are not base64.                                         *)
(***************************************************************************)
EXTENDS Naturals, Sequences

CONSTANTS
  Sources,   \* the sequences of octets that are encoded
  Breaks,    \* codes of characters that are not base64
  MaxBreaks  \* bound on how many of them get into a text

Octets == 0..255
Pad    == 61     \* '='

ASSUME SourcesAssumption == Sources \subseteq Seq(Octets)

VARIABLES
  src,    \* the octets given to oauth_encode_base64
  size,   \* its size, 0 for "as long as the string is"
  pc,     \* "encode", "encoded", "filter", "decode", "decoded"
  i,      \* octets taken by the loop
  alloc,  \* bytes allocated for out
  out,    \* the characters written
  text,   \* the string given to oauth_decode_base64
  buf,    \* its base64 characters
  k,      \* characters taken, of text and then of buf
  dest    \* the octets written, and the '\0' after them

encodeVars == <<src, size, i, alloc, out>>
decodeVars == <<text, buf, k, dest>>
base64Vars == <<encodeVars, decodeVars, pc>>

-----------------------------------------------------------------------------
(* oauth_b64_encode: the character of six bits.                            *)
B64Encode(u) ==
  CASE u < 26            -> 65 + u
    [] u \in 26..51      -> 97 + (u - 26)
    [] u \in 52..61      -> 48 + (u - 52)
    [] u = 62            -> 43
    [] u = 63            -> 47

(* oauth_b64_decode; whatever is not one of the others is '/'.             *)
B64Decode(c) ==
  CASE c \in 65..90      -> c - 65
    [] c \in 97..122     -> c - 97 + 26
    [] c \in 48..57      -> c - 48 + 52
    [] c = 43            -> 62
    [] OTHER             -> 63

IsBase64(c) == c \in (65..90) \cup (97..122) \cup (48..57) \cup {43, 47, Pad}

ASSUME BreaksAssumption ==
  /\ Breaks \subseteq 1..255
  /\ \A c \in Breaks : ~ IsBase64(c)
  /\ MaxBreaks \in Nat

(* n is strlen(s).                                                         *)
IsStrlen(n, s) == s[n + 1] = 0 /\ \A m \in 1..n : s[m] # 0

AllocRoundedDown(n) == (n \div 3) * 4 + 4

Alloc(n) == (n * 4) \div 3 + 4

EncodeInit ==
  /\ src \in Sources
  /\ size \in {n \in 0..Len(src) : n = Len(src) \/ IsStrlen(n, src)}
  /\ i = 0
  /\ alloc = Alloc(size)
  /\ out = <<>>

Base64Init ==
  /\ EncodeInit
  /\ pc = "encode"
  /\ text = <<>>
  /\ buf = <<>>
  /\ k = 0
  /\ dest = <<>>

GroupPadsLast(b1, b2, b3, n) ==
  <<B64Encode(b1 \div 4),
    B64Encode((b1 % 4) * 16 + b2 \div 16),
    IF n >= 2 THEN B64Encode((b2 % 16) * 4 + b3 \div 64) ELSE Pad,
    IF n > 3 THEN B64Encode(b3 % 64) ELSE Pad>>

(* The four characters of up to three octets, n of them left.              *)
Group(b1, b2, b3, n) ==
  <<B64Encode(b1 \div 4),
    B64Encode((b1 % 4) * 16 + b2 \div 16),
    IF n >= 2 THEN B64Encode((b2 % 16) * 4 + b3 \div 64) ELSE Pad,
    IF n >= 3 THEN B64Encode(b3 % 64) ELSE Pad>>

EncodeGroup ==
  /\ pc = "encode"
  /\ i < size
  /\ out' = out \o Group(src[i + 1],
                         IF i + 1 < size THEN src[i + 2] ELSE 0,
                         IF i + 2 < size THEN src[i + 3] ELSE 0,
                         size - i)
  /\ i' = i + 3
  /\ UNCHANGED <<src, size, alloc, decodeVars, pc>>

EncodeReturns ==
  /\ pc = "encode"
  /\ i >= size
  /\ pc' = "encoded"
  /\ text' = out
  /\ UNCHANGED <<encodeVars, buf, k, dest>>

(* A line break, say, gets into the text on its way.                       *)
Break ==
  /\ pc = "encoded"
  /\ Len(text) < Len(out) + MaxBreaks
  /\ \E c \in Breaks, n \in 0..Len(text) :
       text' = SubSeq(text, 1, n) \o <<c>> \o SubSeq(text, n + 1, Len(text))
  /\ UNCHANGED <<encodeVars, buf, k, dest, pc>>

DecodeCall ==
  /\ pc = "encoded"
  /\ pc' = "filter"
  /\ UNCHANGED <<encodeVars, decodeVars>>

(* The first loop of oauth_decode_base64.                                  *)
Filter ==
  /\ pc = "filter"
  /\ k < Len(text)
  /\ buf' = IF IsBase64(text[k + 1]) THEN Append(buf, text[k + 1]) ELSE buf
  /\ k' = k + 1
  /\ UNCHANGED <<encodeVars, text, dest, pc>>

FilterEnds ==
  /\ pc = "filter"
  /\ k = Len(text)
  /\ k' = 0
  /\ pc' = "decode"
  /\ UNCHANGED <<encodeVars, text, buf, dest>>

(* One pass of the second: 'A' stands for what is missing at the end.      *)
DecodeGroup ==
  /\ pc = "decode"
  /\ k < Len(buf)
  /\ LET c(n) == IF k + n < Len(buf) THEN buf[k + n + 1] ELSE 65
         b(n) == B64Decode(c(n)) IN
     dest' = dest \o <<(b(0) * 4 + b(1) \div 16) % 256>>
                  \o (IF c(2) # Pad THEN <<(b(1) % 16) * 16 + b(2) \div 4>> ELSE <<>>)
                  \o (IF c(3) # Pad THEN <<(b(2) % 4) * 64 + b(3)>> ELSE <<>>)
  /\ k' = k + 4
  /\ UNCHANGED <<encodeVars, text, buf, pc>>

(* dest[p - dest] = '\0', after the last octet.                            *)
DecodeReturns ==
  /\ pc = "decode"
  /\ k >= Len(buf)
  /\ pc' = "decoded"
  /\ dest' = Append(dest, 0)
  /\ UNCHANGED <<encodeVars, text, buf, k>>

Base64Next ==
  \/ EncodeGroup
  \/ EncodeReturns
  \/ Break
  \/ DecodeCall
  \/ Filter
  \/ FilterEnds
  \/ DecodeGroup
  \/ DecodeReturns

Base64Spec == Base64Init /\ [][Base64Next]_base64Vars

-----------------------------------------------------------------------------
(* No buffer is written past its end: the characters and a '\0' fit into   *)
(* size * 4 / 3 + 4 bytes, with nothing to spare when one octet is left    *)
(* over (oauth.c:117), buf is no longer than the string it is filtered     *)
(* from (oauth.c:173), and decoding writes three octets at most for four   *)
(* characters and a '\0' (oauth.c:203): what a caller, who has nothing but  *)
(* the text, has to provide for (oauth.c:155).                             *)
BuffersFit ==
  /\ Len(out) + 1 <= alloc
  /\ Len(buf) <= Len(text)
  /\ 4 * Len(dest) <= 3 * (Len(text) + 3) + 4

(* Decoding gives back the octets that were encoded and ends them with a   *)
(* '\0', whatever the length leaves for the last group and wherever the    *)
(* text was broken.                                                        *)
RoundTrip == pc = "decoded" => dest = Append(SubSeq(src, 1, size), 0)

=============================================================================
