--------------------------- MODULE SignatureCheck ---------------------------
(***************************************************************************)
(* What is done with the text of a digest: it is decoded again (Base64),   *)
(* or compared with the text that came with a request by                   *)
(* oauth_time_independent_equals (oauth.c), which must not tell by the     *)
(* time it takes where the two differ.                                     *)
(***************************************************************************)
EXTENDS Base64

CONSTANT NULL

VARIABLES
  a, b,   \* the strings compared, or NULL
  ia, j,  \* places in a and in b
  diff,   \* diff # 0
  equal   \* what is returned

compareVars == <<a, b, ia, j, diff, equal>>
vars == <<base64Vars, compareVars>>

Init ==
  /\ Base64Init
  /\ a = NULL
  /\ b = NULL
  /\ ia = 0
  /\ j = 0
  /\ diff = FALSE
  /\ equal = FALSE

(* What may have come for the text s: nothing, the text, or the text with  *)
(* a character changed, left out or added, or given twice.                 *)
Received(s) ==
  {NULL, <<>>, s, s \o s, s \o <<Pad>>}
    \cup {[s EXCEPT ![n] = 65] : n \in DOMAIN s}
    \cup {SubSeq(s, 1, n) : n \in 0..Len(s)}

CompareCall ==
  /\ pc = "encoded"
  /\ a' \in {NULL, <<>>, out}
  /\ b' \in Received(out)
  /\ ia' = 0
  /\ j' = 0
  /\ IF a' = NULL \/ b' = NULL
       THEN pc' = "compared" /\ equal' = (a' = b') /\ UNCHANGED diff
       ELSE IF b' = <<>>
         THEN pc' = "compared" /\ equal' = (a' = <<>>) /\ UNCHANGED diff
         ELSE pc' = "compare" /\ diff' = (Len(a') # Len(b')) /\ UNCHANGED equal
  /\ UNCHANGED <<encodeVars, decodeVars>>

CompareLast ==
  /\ pc = "compare"
  /\ ia < Len(a)
  /\ diff' = (a[ia + 1] # b[j + 1])
  /\ ia' = ia + 1
  /\ j' = (j + 1) % Len(b)
  /\ UNCHANGED <<base64Vars, a, b, equal>>

CompareWithoutWrap ==
  /\ pc = "compare"
  /\ ia < Len(a)
  /\ diff' = (diff \/ a[ia + 1] # b[j + 1])
  /\ ia' = ia + 1
  /\ j' = j + 1
  /\ UNCHANGED <<base64Vars, a, b, equal>>

CompareOctet ==
  /\ pc = "compare"
  /\ ia < Len(a)
  /\ diff' = (diff \/ a[ia + 1] # b[j + 1])
  /\ ia' = ia + 1
  /\ j' = (j + 1) % Len(b)
  /\ UNCHANGED <<base64Vars, a, b, equal>>

CompareReturns ==
  /\ pc = "compare"
  /\ ia >= Len(a)
  /\ equal' = ~ diff
  /\ pc' = "compared"
  /\ UNCHANGED <<encodeVars, decodeVars, a, b, ia, j, diff>>

Next ==
  \/ Base64Next /\ UNCHANGED compareVars
  \/ CompareCall
  \/ CompareOctet
  \/ CompareReturns

Spec == Init /\ [][Next]_vars

-----------------------------------------------------------------------------
Strings == Seq(Nat) \cup {NULL}

(* Each variable holds a value of its type.                                *)
TypeOK ==
  /\ src \in Seq(Octets)
  /\ size \in 0..Len(src)
  /\ pc \in {"encode", "encoded", "filter", "decode", "decoded", "compare", "compared"}
  /\ i \in Nat
  /\ alloc \in Nat
  /\ out \in Seq(Nat) /\ text \in Seq(Nat) /\ buf \in Seq(Nat)
  /\ k \in Nat
  /\ dest \in Seq(Octets)
  /\ a \in Strings /\ b \in Strings
  /\ ia \in Nat
  /\ pc = "compare" => j \in 0..(Len(b) - 1)
  /\ diff \in BOOLEAN
  /\ equal \in BOOLEAN

(* The answer is that of string equality, though b is read round and round *)
(* and no difference ends the loop (oauth.c:995-1018).                     *)
EqualsIsEquality == pc = "compared" => equal = (a = b)

=============================================================================
