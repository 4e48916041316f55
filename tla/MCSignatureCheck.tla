-------------------------- MODULE MCSignatureCheck --------------------------
(***************************************************************************)
(* Every single octet, and two and three octets, and four and five, with   *)
(* none, all, the first or the last of their bits set.                     *)
(***************************************************************************)
EXTENDS SignatureCheck

MCSome == {0, 1, 128, 255}
MCSources == [1..1 -> Octets] \cup UNION {[1..n -> MCSome] : n \in {0, 2, 3}}
               \cup UNION {[1..n -> {1, 255}] : n \in {4, 5}}

=============================================================================
