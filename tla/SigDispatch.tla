----------------------------- MODULE SigDispatch -----------------------------
(***************************************************************************)
(* The dispatch of a signature to its curve by its length and V byte in   *)
(* src/crypto: VerifySignature and ecrecover (api.go), makeSignatureGM,  *)
(* ParseSignatureGM and NewSignatureGM (signature.go), and the shape of   *)
(* the signatures each key type's Sign produces.                          *)
(*                                                                         *)
(* A signature slice is [len, v]: its length and its byte 64 (0 when it   *)
(* has none).  R and S are not looked at by the dispatch and are left out; *)
(* the curve routines are outside the repository, so a route names the    *)
(* curve and the recovery id handed to it.  Bytes are naturals mod 256.   *)
(***************************************************************************)
EXTENDS Naturals

SM2Magic == 8
SignatureGMSize == 65
SignatureEd25519Size == 64

Byte(x) == x % 256

Route(curve, v) == [curve |-> curve, v |-> v]

\* Mutant of MakeSignatureGM: V written without the SM2Magic offset.
MakeSignatureGMNoMagic(v) == [len |-> SignatureGMSize, v |-> Byte(v)]

\* makeSignatureGM(r, s, v): 65 bytes, the last SM2Magic + byte(v).
MakeSignatureGM(v) == [len |-> SignatureGMSize, v |-> Byte(SM2Magic + Byte(v))]

\* ParseSignatureGM: only a 65-byte slice; v = sig[64] - SM2Magic in byte
\* arithmetic.
ParseSignatureGM(sig) ==
    IF sig.len # SignatureGMSize THEN [ok |-> FALSE, v |-> 0]
    ELSE [ok |-> TRUE, v |-> Byte(sig.v + 256 - SM2Magic)]

\* NewSignatureGM accepts exactly 65 bytes.
NewSignatureGMOk(sig) == sig.len = SignatureGMSize

\* What Sign returns: secp256k1 [R || S || V] with V the recovery id (0 or
\* 1); sm2 makeSignatureGM of sm2.SignExt's v; ed25519 64 bytes.
SignatureOf(type, v) ==
    CASE type = "secp256k1" -> [len |-> 65, v |-> v]
      [] type = "gm"        -> MakeSignatureGM(v)
      [] OTHER              -> [len |-> SignatureEd25519Size, v |-> 0]

\* Mutant of VerifyRoute: the second sm2 V value taken as SM2Magic + 2.
VerifyRouteOffByOne(sig) ==
    CASE sig.len = 65 /\ sig.v \in {0, 1} -> Route("secp256k1", 0)
      [] sig.len = 65 /\ sig.v \in {SM2Magic, SM2Magic + 2} ->
             IF NewSignatureGMOk(sig) THEN Route("gm", ParseSignatureGM(sig).v)
             ELSE Route("reject", 0)
      [] sig.len = 65 -> Route("reject", 0)
      [] OTHER -> Route("ed25519", 0)

\* VerifySignature(pubkey, hash, signature): a 65-byte signature goes by V
\* to secp256k1 (V 0, 1) or sm2 (V SM2Magic, SM2Magic+1, through
\* NewSignatureGM and PubKeyGM.VerifyBytes, which parses V back), any other
\* V is rejected; every other length is taken as ed25519.
VerifyRoute(sig) ==
    CASE sig.len = 65 /\ sig.v \in {0, 1} -> Route("secp256k1", 0)
      [] sig.len = 65 /\ sig.v \in {SM2Magic, SM2Magic + 1} ->
             IF NewSignatureGMOk(sig) THEN Route("gm", ParseSignatureGM(sig).v)
             ELSE Route("reject", 0)
      [] sig.len = 65 -> Route("reject", 0)
      [] OTHER -> Route("ed25519", 0)

\* ecrecover(hash, sig): reads sig[64] whatever the length (an index panic
\* below 65 bytes); sm2 V values go through ParseSignatureGM, 0 and 1 to
\* secp256k1.RecoverPubkey (which fails unless the length is 65); any other
\* V panics ("Unknow V").
Ecrecover(sig) ==
    CASE sig.len < 65 -> Route("panic", 0)
      [] sig.v \in {SM2Magic, SM2Magic + 1} ->
             IF ParseSignatureGM(sig).ok THEN Route("gm", ParseSignatureGM(sig).v)
             ELSE Route("error", 0)
      [] sig.v \in {0, 1} ->
             IF sig.len = 65 THEN Route("secp256k1", sig.v) ELSE Route("error", 0)
      [] OTHER -> Route("panic", 0)

=============================================================================
