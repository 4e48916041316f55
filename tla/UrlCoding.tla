----------------------------- MODULE UrlCoding -----------------------------
(***************************************************************************)
(* oauth_url_escape and oauth_url_unescape (oauth.c), called on a string,  *)
(* the second also on what the first returned.  A character is its code, a *)
(* number below Base^2, and 0 is the '\0' no string contains.  '%XX' is    *)
(* Percent and two digits in base Base (16 in the code, where a digit has  *)
(* a second, lower-case form that unescaping accepts too).                 *)
(***************************************************************************)
EXTENDS Naturals, Sequences

CONSTANTS
  Base,        \* 16
  Unreserved,  \* codes of the characters that are not escaped
  Percent,     \* code of '%'
  MaxLen       \* bound on the length of the string

Chars    == 1..(Base * Base - 1)
Digits   == 1..Base          \* the codes of the digits
Digit(v) == v + 1
Value(d) == d - 1

ASSUME BaseAssumption == Base \in Nat \ {0, 1}
ASSUME CharsAssumption == Digits \subseteq Unreserved /\ Unreserved \subseteq Chars
ASSUME PercentAssumption == Percent \in Chars \ Unreserved
ASSUME MaxLenAssumption == MaxLen \in Nat

VARIABLES
  original,  \* the string of the first call
  back,      \* oauth_url_unescape was given what oauth_url_escape returned
  pc,        \* "call", "escape", "escaped", "unescape", "done"
  string,    \* the argument, without its '\0'
  taken,     \* characters of it that have been read
  alloc,     \* bytes allocated for ns
  newlen,    \* bytes the escaped string needs, as far as known
  count,     \* alloc of oauth_url_unescape, which that function counts down
  ns,        \* the characters written so far
  touched    \* how many bytes of ns have been written to, '\0's included

args == <<original, back, string>>
vars == <<args, pc, taken, alloc, newlen, count, ns, touched>>

strindex == Len(ns)
rest     == Len(string) - taken

Init ==
  /\ original \in UNION {[1..k -> Chars] : k \in 0..MaxLen}
  /\ back = FALSE
  /\ string = original
  /\ pc = "call"
  /\ taken = 0
  /\ alloc = 0
  /\ newlen = 0
  /\ count = 0
  /\ ns = <<>>
  /\ touched = 0

-----------------------------------------------------------------------------
Most(m, n) == IF m >= n THEN m ELSE n

Encoded(c) == <<Percent, Digit(c \div Base), Digit(c % Base)>>

EscapeCall ==
  /\ pc = "call"
  /\ alloc' = Len(string) + 1
  /\ newlen' = alloc'
  /\ pc' = "escape"
  /\ UNCHANGED <<args, taken, count, ns, touched>>

KeepEverything ==
  /\ pc = "escape"
  /\ rest > 0
  /\ ns' = Append(ns, string[taken + 1])
  /\ touched' = Most(touched, strindex + 1)
  /\ taken' = taken + 1
  /\ UNCHANGED <<args, pc, alloc, newlen, count>>

KeepCharacter ==
  /\ pc = "escape"
  /\ rest > 0
  /\ string[taken + 1] \in Unreserved
  /\ ns' = Append(ns, string[taken + 1])
  /\ touched' = Most(touched, strindex + 1)
  /\ taken' = taken + 1
  /\ UNCHANGED <<args, pc, alloc, newlen, count>>

EncodeBeforeGrowing ==
  /\ pc = "escape"
  /\ rest > 0
  /\ string[taken + 1] \notin Unreserved
  /\ newlen' = newlen + 2
  /\ alloc' = IF newlen > alloc THEN 2 * alloc ELSE alloc
  /\ ns' = ns \o Encoded(string[taken + 1])
  /\ touched' = Most(touched, strindex + 4)
  /\ taken' = taken + 1
  /\ UNCHANGED <<args, pc, count>>

EncodeOneDigit ==
  /\ pc = "escape"
  /\ rest > 0
  /\ string[taken + 1] \notin Unreserved
  /\ newlen' = newlen + 2
  /\ alloc' = IF newlen' > alloc THEN 2 * alloc ELSE alloc
  /\ ns' = ns \o <<Percent, Digit(string[taken + 1] % Base)>>
  /\ touched' = Most(touched, strindex + 4)
  /\ taken' = taken + 1
  /\ UNCHANGED <<args, pc, count>>

(* snprintf writes the three characters and a '\0'; the buffer is doubled  *)
(* first if they will not fit.                                             *)
EncodeCharacter ==
  /\ pc = "escape"
  /\ rest > 0
  /\ string[taken + 1] \notin Unreserved
  /\ newlen' = newlen + 2
  /\ alloc' = IF newlen' > alloc THEN 2 * alloc ELSE alloc
  /\ ns' = ns \o Encoded(string[taken + 1])
  /\ touched' = Most(touched, strindex + 4)
  /\ taken' = taken + 1
  /\ UNCHANGED <<args, pc, count>>

EscapeReturns ==
  /\ pc = "escape"
  /\ rest = 0
  /\ touched' = Most(touched, strindex + 1)
  /\ pc' = "escaped"
  /\ UNCHANGED <<args, taken, alloc, newlen, count, ns>>

(* oauth_url_unescape, of the first string or of the escaped one.          *)
UnescapeCall ==
  /\ pc \in {"call", "escaped"}
  /\ back' = (pc = "escaped")
  /\ string' = IF pc = "call" THEN original ELSE ns
  /\ alloc' = Len(string') + 1
  /\ count' = alloc'
  /\ newlen' = 0
  /\ ns' = <<>>
  /\ touched' = 0
  /\ taken' = 0
  /\ pc' = "unescape"
  /\ UNCHANGED original

(* '%' and two digits stand at the place read next; the '\0' after the     *)
(* last character is not a digit.                                          *)
EncodedAhead ==
  /\ string[taken + 1] = Percent
  /\ rest >= 3
  /\ string[taken + 2] \in Digits
  /\ string[taken + 3] \in Digits

CopyCharacter ==
  /\ pc = "unescape"
  /\ count > 1
  /\ ~ EncodedAhead
  /\ ns' = Append(ns, string[taken + 1])
  /\ touched' = Most(touched, strindex + 1)
  /\ taken' = taken + 1
  /\ count' = count - 1
  /\ UNCHANGED <<args, pc, alloc, newlen>>

DecodeSkipsFour ==
  /\ pc = "unescape"
  /\ count > 1
  /\ EncodedAhead
  /\ ns' = Append(ns, Base * Value(string[taken + 2]) + Value(string[taken + 3]))
  /\ touched' = Most(touched, strindex + 1)
  /\ taken' = taken + 4
  /\ count' = count - 3
  /\ UNCHANGED <<args, pc, alloc, newlen>>

DecodeCharacter ==
  /\ pc = "unescape"
  /\ count > 1
  /\ EncodedAhead
  /\ ns' = Append(ns, Base * Value(string[taken + 2]) + Value(string[taken + 3]))
  /\ touched' = Most(touched, strindex + 1)
  /\ taken' = taken + 3
  /\ count' = count - 3
  /\ UNCHANGED <<args, pc, alloc, newlen>>

UnescapeReturns ==
  /\ pc = "unescape"
  /\ count = 1
  /\ touched' = Most(touched, strindex + 1)
  /\ count' = 0
  /\ pc' = "done"
  /\ UNCHANGED <<args, taken, alloc, newlen, ns>>

Next ==
  \/ EscapeCall
  \/ KeepCharacter
  \/ EncodeCharacter
  \/ EscapeReturns
  \/ UnescapeCall
  \/ CopyCharacter
  \/ DecodeCharacter
  \/ UnescapeReturns

Spec == Init /\ [][Next]_vars

-----------------------------------------------------------------------------
(* Each variable holds a value of its type.                                *)
TypeOK ==
  /\ original \in Seq(Chars)
  /\ back \in BOOLEAN
  /\ pc \in {"call", "escape", "escaped", "unescape", "done"}
  /\ string \in Seq(Chars)
  /\ taken \in 0..Len(string)
  /\ alloc \in Nat
  /\ newlen \in Nat
  /\ count \in Nat
  /\ ns \in Seq(Nat)
  /\ touched \in Nat

(* Neither function writes past the block it allocated, although escaping  *)
(* can make a string three times as long and the block is only ever        *)
(* doubled, once per escaped character (oauth.c:272-277).                  *)
WritesStayInBlock == touched <= alloc

(* The count that oauth_url_unescape keeps of its buffer is also what      *)
(* stops it from reading past the end of its argument (oauth.c:314-325).   *)
CountIsTheRest == pc = "unescape" => count = rest + 1

(* Neither function leaves its bounds, of what it writes or of what it     *)
(* reads (oauth.c:272-277, 314-325).                                       *)
StaysInBounds == WritesStayInBlock /\ CountIsTheRest

(* An escaped string is made of unreserved characters and '%' only: it can *)
(* be put between '=' and '&' without being mistaken for them.             *)
EscapedIsClean ==
  pc = "escaped" => \A i \in 1..Len(ns) : ns[i] \in Unreserved \cup {Percent}

(* Unescaping gives back every string that was escaped.                    *)
RoundTrip == pc = "done" /\ back => ns = original

=============================================================================
