---------------------------- MODULE MCSignArray ----------------------------
(***************************************************************************)
(* Instances of SignArray: URLs with and without a space and a scheme, and *)
(* parameters of up to three characters, protocol parameters among them.   *)
(***************************************************************************)
EXTENDS SignArray

MCUrls == {<<Host>>, <<Host, Space, A>>, <<A>>}

MCPairs == {<<A, Eq, A>>, <<A, Eq, Amp>>, <<A, Eq>>, <<Eq, A>>, <<A, Amp, Eq, Z>>,
            <<A, Eq, Eq, Comma>>, <<Z, Eq, Quote>>, <<A, A, Eq, Mark>>}
MCBare  == {<<A>>, <<Z, Space>>}
MCOAuth == {<<Nonce, Eq, Z>>, <<Nonce, A, Eq>>, <<Version>>, <<Signature, Eq, A>>}
MCParams == MCPairs \cup MCBare \cup MCOAuth

MCArrays == {<<u>> : u \in MCUrls} \cup {<<u, p>> : u \in MCUrls, p \in MCParams}
            \cup {<<<<Host>>, p, q>> : p \in MCParams, q \in MCParams}

(* The second key just fits into oarg, the third is cut by one character.  *)
MCKeys   == {<<A, Eq>>, <<A, A, A, A>>, <<A, A, A, A, A>>}
MCTokens == {NULL, <<Amp, Z>>}

=============================================================================
