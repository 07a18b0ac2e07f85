------------------------------- MODULE ElGamal -------------------------------
(***************************************************************************)
(* The regulator's ElGamal wrapping of a symmetric key                     *)
(* (src/crypto/regulation/crypto.go) over the ristretto group.            *)
(*                                                                         *)
(* The group is modelled as the integers mod Order under addition, with    *)
(* generator G = 1 and identity 0: a prime-order cyclic group, as          *)
(* ristretto255 is.  A 32-byte string is a group element, naming the      *)
(* point it encodes (BytesInto writes it, Point.SetBytes reads it back),  *)
(* or one of BadPoints, which Point.SetBytes rejects.  The identity       *)
(* encodes as 32 zero bytes.  A scalar string is a natural below           *)
(* 2 * Order, so that strings that are not reduced occur; Scalar.SetBytes *)
(* reads it mod the group order.  A result is [err, symk]: the error flag *)
(* and the 32 bytes returned.                                              *)
(***************************************************************************)
EXTENDS Naturals

CONSTANTS
    Order,      \* the order l of the group
    BadPoints,  \* 32-byte strings that encode no point
    NilBytes    \* a nil *[32]byte

Points == 0 .. Order - 1
Identity == 0
PointStrings == Points \cup BadPoints
ScalarStrings == 0 .. 2 * Order - 1

\* Point.SetBytes succeeds.
Decodes(b) == b \in Points

\* Scalar.SetBytes: the string read mod l.
ScalarOf(b) == b % Order

\* PublicScalarMultBase, PublicScalarMult, Add and Sub of ristretto.Point.
MultBase(s) == s % Order
Mult(p, s) == (p * s) % Order
PAdd(p, q) == (p + q) % Order
PSub(p, q) == (p + Order - q) % Order

Ok(symk) == [err |-> FALSE, symk |-> symk]
Failed == [err |-> TRUE, symk |-> NilBytes]

\* GenerateRegulationKey: a random scalar x and Y = x * G.
GenerateRegulationKey(x) == [x |-> x, Y |-> MultBase(x)]

\* GenerateAndEncryptSymmetricKey(Y), with the scalars seed and k it draws:
\* M = seed * G is the symmetric key, C1 = k * G; if Y is no point the
\* call returns its error with k, C1 and symk already set and C2 nil;
\* otherwise C2 = M + k * Y.
GenerateAndEncryptSymmetricKey(Y, seed, k) ==
    LET M == MultBase(seed)
        C1 == MultBase(k)
    IN  IF ~Decodes(Y)
        THEN [err |-> TRUE, k |-> k, C1 |-> C1, C2 |-> NilBytes, symk |-> M]
        ELSE [err |-> FALSE, k |-> k, C1 |-> C1, C2 |-> PAdd(M, Mult(Y, k)), symk |-> M]

\* GetSymmetricKeyWithK: M = C2 - k * Y, by the sender who kept k.
GetSymmetricKeyWithK(C2, Y, k) ==
    IF ~Decodes(C2) \/ ~Decodes(Y) THEN Failed
    ELSE Ok(PSub(C2, Mult(Y, ScalarOf(k))))

\* Mutant of GetSymmetricKeyWithX: x applied to C2 instead of C1.
GetSymmetricKeyWithXOnC2(C1, C2, x) ==
    IF ~Decodes(C1) \/ ~Decodes(C2) THEN Failed
    ELSE Ok(PSub(C2, Mult(C2, ScalarOf(x))))

\* GetSymmetricKeyWithX: M = C2 - x * C1, by the regulator.
GetSymmetricKeyWithX(C1, C2, x) ==
    IF ~Decodes(C1) \/ ~Decodes(C2) THEN Failed
    ELSE Ok(PSub(C2, Mult(C1, ScalarOf(x))))

=============================================================================
