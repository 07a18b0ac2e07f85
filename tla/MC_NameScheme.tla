--------------------------- MODULE MC_NameScheme ---------------------------
(***************************************************************************)
(* Checks NameScheme!NameToDisfix against an index-based reference        *)
(* definition over every digest up to MaxDigestLen bytes drawn from Bytes. *)
(* The variable walks the digests by appending or dropping a byte, so each *)
(* digest of the bound is a reachable state.                               *)
(***************************************************************************)
EXTENDS NameScheme

CONSTANTS Bytes,        \* byte alphabet, containing the zero byte
          MaxDigestLen  \* longest digest enumerated

ASSUME 0 \in Bytes /\ MaxDigestLen \in Nat

VARIABLE bz

Init == bz = <<>>

Extend == /\ Len(bz) < MaxDigestLen
          /\ \E x \in Bytes : bz' = Append(bz, x)

Shorten == /\ bz # <<>>
           /\ bz' = Tail(bz)

Next == Extend \/ Shorten

Spec == Init /\ [][Next]_bz

TypeOK == bz \in Seq(Bytes) /\ Len(bz) <= MaxDigestLen

\* Index of the first non-zero byte at or after position from, 0 if none.
FirstNonZero(s, from) ==
    LET I == {k \in from..Len(s) : s[k] # 0}
    IN  IF I = {} THEN 0 ELSE CHOOSE k \in I : \A j \in I : k <= j

\* The name scheme as the spec states it: Disamb is the 3 bytes starting at
\* the first non-zero byte of the digest; Prefix is the 4 bytes starting at
\* the first non-zero byte after them; the scheme fails if either segment
\* cannot be filled.
RefDisfix(s) ==
    LET a == FirstNonZero(s, 1)
        b == IF a = 0 THEN 0 ELSE FirstNonZero(s, a + DisambBytesLen)
    IN  IF a = 0 \/ a + DisambBytesLen - 1 > Len(s)
              \/ b = 0 \/ b + PrefixBytesLen - 1 > Len(s)
        THEN NameToDisfixPanic
        ELSE [disamb |-> [k \in 1..DisambBytesLen |-> s[a + k - 1]],
              prefix |-> [k \in 1..PrefixBytesLen |-> s[b + k - 1]]]

\* nameToDisfix (codec.go) computes exactly the reference tag for every
\* digest, panicking exactly when the reference cannot fill a segment; in
\* particular neither the Disamb nor the Prefix starts with the 0x00 byte
\* that decodeCDCInterface reads as a nil interface value.
MatchesReference == NameToDisfix(bz) = RefDisfix(bz)

=============================================================================
