----------------------------- MODULE MC_ElGamal -----------------------------
(***************************************************************************)
(* Checks the symmetric-key wrapping of regulation/crypto.go for every     *)
(* regulator key string Y a caller can pass (regY), every seed and k the  *)
(* random scalars can take, and every private-key string.                 *)
(***************************************************************************)
EXTENDS ElGamal

VARIABLE regY   \* the Y handed to GenerateAndEncryptSymmetricKey

Init == regY \in PointStrings

Next == regY' \in PointStrings \ {regY}

Spec == Init /\ [][Next]_regY

-----------------------------------------------------------------------------
(* Properties.                                                             *)

\* GenerateAndEncryptSymmetricKey fails exactly on a Y that is no point;
\* otherwise the sender, from C2, Y and k, gets back the symmetric key,
\* and the regulator, from C1, C2 and a private-key string, gets it back
\* exactly when the string is the private key of Y (for k # 0; with k = 0
\* C1 is the identity and every string gives C2 back).
KeyRecovery ==
    \A seed, k \in Points :
        LET e == GenerateAndEncryptSymmetricKey(regY, seed, k) IN
        /\ e.err = ~Decodes(regY)
        /\ ~e.err =>
              /\ GetSymmetricKeyWithK(e.C2, regY, e.k) = Ok(e.symk)
              /\ \A x \in ScalarStrings :
                    k # 0 =>
                      (GetSymmetricKeyWithX(e.C1, e.C2, x) = Ok(e.symk)
                          <=> GenerateRegulationKey(ScalarOf(x)).Y = regY)

\* The wrapped key is hidden: for a valid Y and a non-zero k, C2 is not
\* the symmetric key itself.
KeyHidden ==
    Decodes(regY) =>
        \A seed \in Points, k \in Points \ {0} :
            LET e == GenerateAndEncryptSymmetricKey(regY, seed, k) IN
            e.C2 # e.symk

=============================================================================
