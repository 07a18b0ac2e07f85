---------------------------- MODULE SignerValues ----------------------------
(***************************************************************************)
(* How a signature becomes the R, S, V of signed data and is checked      *)
(* again: SignatureValues of the Frontier, Homestead and EIP155 signers    *)
(* (src/types/sign.go) and ValidateSignatureValues (src/crypto/crypto.go). *)
(*                                                                         *)
(* A 65-byte signature is [len, v, r, s]: v is its byte 64, r and s say   *)
(* where the big-endian values of bytes 0..31 and 32..63 lie against the  *)
(* curve order N: "zero", "low" (1..N/2), "high" (N/2..N-1) or "overN"     *)
(* (N..2^256-1).  The comparisons of the code are made on these classes.  *)
(* A signer is [kind, param]: its type and its signParam (0 for the        *)
(* Frontier and Homestead signers, which have none).                       *)
(***************************************************************************)
EXTENDS SigDispatch

RSClasses == {"zero", "low", "high", "overN"}

Signer(kind, p) == [kind |-> kind, param |-> p]

\* What SignatureValues returns; panicked when it panics instead.
Values(r, s, v) == [panicked |-> FALSE, r |-> r, s |-> s, v |-> v]
Panicked == [panicked |-> TRUE, r |-> "zero", s |-> "zero", v |-> 0]

\* STDFrontierSigner.SignatureValues: panics unless the signature is 65
\* bytes; V = sig[64] + 27 computed as a byte.
FrontierSignatureValues(sig) ==
    IF sig.len # 65 THEN Panicked
    ELSE Values(sig.r, sig.s, Byte(sig.v + 27))

\* STDHomesteadSigner.SignatureValues: the Frontier signer's.
HomesteadSignatureValues(sig) == FrontierSignatureValues(sig)

\* Mutant of EIP155SignatureValues: the Homestead offset 27 kept for a
\* protected signer.
EIP155SignatureValuesOffset27(p, sig) ==
    LET hv == HomesteadSignatureValues(sig) IN
    IF hv.panicked \/ p = 0 THEN hv
    ELSE [hv EXCEPT !.v = Byte(sig.v + 27) + 2 * p]

\* STDEIP155Signer.SignatureValues: the Homestead values; with a non-zero
\* signParam, V = byte(sig[64] + 35) + signParamMul (2 * signParam).
EIP155SignatureValues(p, sig) ==
    LET hv == HomesteadSignatureValues(sig) IN
    IF hv.panicked \/ p = 0 THEN hv
    ELSE [hv EXCEPT !.v = Byte(sig.v + 35) + 2 * p]

SignatureValues(signer, sig) ==
    CASE signer.kind = "frontier"  -> FrontierSignatureValues(sig)
      [] signer.kind = "homestead" -> HomesteadSignatureValues(sig)
      [] OTHER                     -> EIP155SignatureValues(signer.param, sig)

\* ValidateSignatureValues(v, r, s, homestead): r and s at least 1; for a
\* secp256k1 v (0, 1) both below N and, under homestead, s at most N/2;
\* otherwise v must be one of the two sm2 values.
ValidateSignatureValues(v, r, s, homestead) ==
    /\ r # "zero" /\ s # "zero"
    /\ IF v \in {0, 1}
       THEN /\ ~(homestead /\ s \in {"high", "overN"})
            /\ r # "overN" /\ s # "overN"
       ELSE v \in {SM2Magic, SM2Magic + 1}

=============================================================================
