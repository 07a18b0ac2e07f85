------------------------------ MODULE SigVerify ------------------------------
(***************************************************************************)
(* Signing, verification and recovery end to end in src/crypto: what      *)
(* PrivKey.Sign and PrivKey.PubKey().Raw() produce, VerifySignature's      *)
(* three branches (api.go), the public keys they build (pub_key.go), and  *)
(* Ecrecover / Sender.                                                     *)
(*                                                                         *)
(* Byte strings are symbolic.  A public key is [curve, key, len]: the      *)
(* point of secret key on curve, 32 bytes for ed25519 and the 65-byte      *)
(* uncompressed point elliptic.Marshal writes for secp256k1 and sm2.  A    *)
(* signature is [len, v, by]: its length, byte 64 (0 when it has none),   *)
(* and by, the signing that produced its first 64 bytes (R || S, or the    *)
(* ed25519 signature), or Junk.  The curve libraries are outside the       *)
(* repository; they are taken to be correct: a check accepts exactly the   *)
(* signatures its key made over that hash, and a recovery with another     *)
(* hash or recovery id yields a key nobody holds (Stranger) or an error.   *)
(* sm2.VerifyExt is taken not to depend on v, as secp256k1's check, which  *)
(* is handed R || S only, does not.                                        *)
(***************************************************************************)
EXTENDS SigDispatch

CONSTANT Nil

PubKeyEd25519Size == 32

Curves == {"secp256k1", "gm", "ed25519"}

Junk == [curve |-> "none", key |-> Nil, hash |-> Nil, rid |-> 0]

\* The bytes of a key of another curve, or of no key, handed in as one.
EmptyPub == [curve |-> "empty", key |-> Nil, len |-> 0]
Stranger(c) == [curve |-> c, key |-> "stranger", len |-> 65]

\* A call that returned no key: Outcome("error") or Outcome("panic").
Outcome(x) == [curve |-> x, key |-> Nil, len |-> 0]

Verdict(b) == IF b THEN "accept" ELSE "reject"

\* PubKey().Raw() of a key: makePubKeySecp256k1 and makePubKeyGM marshal
\* the point uncompressed; ed25519's PubKey is its 32 bytes.
PubRaw(t, k) ==
    [curve |-> t, key |-> k, len |-> IF t = "ed25519" THEN PubKeyEd25519Size ELSE 65]

\* Sign(hash) of key k of type t, the curve having picked recovery id rid:
\* the shape SigDispatch!SignatureOf gives, over the signing [t, k, h, rid].
Signed(t, k, h, rid) ==
    [len |-> SignatureOf(t, rid).len, v |-> SignatureOf(t, rid).v,
     by |-> [curve |-> t, key |-> k, hash |-> h, rid |-> rid]]

\* The curve's check: sig was made by the secret of pub over h.
Made(pub, h, sig, c) ==
    /\ pub.curve = c /\ sig.by.curve = c
    /\ sig.by.key = pub.key /\ sig.by.hash = h

\* NewSignatureEd25519: the first 64 bytes of data, zero-padded.
NewSignatureEd25519(data) ==
    [len |-> SignatureEd25519Size, v |-> 0,
     by |-> IF data.len >= SignatureEd25519Size THEN data.by ELSE Junk]

\* The ed25519 branch: pubkey copied into a PubKeyEd25519 (a longer or
\* shorter slice is not a key's bytes), then VerifyBytes.
EdVerify(pub, h, sig) ==
    /\ pub.len = PubKeyEd25519Size
    /\ Made(pub, h, NewSignatureEd25519(sig), "ed25519")

\* Mutant of SecpVerify: the whole 65-byte signature handed to the check.
SecpVerifyWhole(pub, h, sig) ==
    /\ sig.len = SignatureEd25519Size
    /\ pub.len = 65 /\ Made(pub, h, sig, "secp256k1")

\* secp256k1.VerifySignature(pubkey, hash, signature[:64]): the check
\* takes a 64-byte R || S and a 33- or 65-byte point.
SecpVerify(pub, h, sig) ==
    LET rs == [sig EXCEPT !.len = SignatureEd25519Size] IN
    /\ rs.len = SignatureEd25519Size
    /\ pub.len = 65 /\ Made(pub, h, rs, "secp256k1")

\* fromRaw of a PubKeyGM: panics on empty Data; elliptic.Unmarshal yields
\* no point (nil X, Y) for bytes that are not an sm2 point, which fromRaw
\* stores without a check.
GMFromRaw(pub) ==
    CASE pub.len = 0 -> "panic"
      [] pub.curve = "gm" /\ pub.len = 65 -> "point"
      [] OTHER -> "nil"

\* PubKeyGMFromBytes: the key over the caller's bytes, parsed at once.
PubKeyGMFromBytes(pub) == GMFromRaw(pub)

\* PubKeyGM.VerifyBytes after NewSignatureGM: ParseSignatureGM, then
\* sm2.VerifyExt, whose outcome on a nil point the library decides (a nil
\* dereference or a rejection).
GMVerifyBytes(pub, h, sig) ==
    CASE PubKeyGMFromBytes(pub) = "panic" -> {"panic"}
      [] PubKeyGMFromBytes(pub) = "nil" -> {"reject", "panic"}
      [] ~ParseSignatureGM(sig).ok -> {"reject"}
      [] OTHER -> {Verdict(Made(pub, h, sig, "gm"))}

\* VerifySignature(pubkey, hash, signature): the outcomes it can have,
\* the branch chosen by SigDispatch!VerifyRoute.
VerifySignature(pub, h, sig) ==
    CASE VerifyRoute(sig).curve = "secp256k1" -> {Verdict(SecpVerify(pub, h, sig))}
      [] VerifyRoute(sig).curve = "gm"        -> GMVerifyBytes(pub, h, sig)
      [] VerifyRoute(sig).curve = "ed25519"   -> {Verdict(EdVerify(pub, h, sig))}
      [] OTHER                                -> {"reject"}

\* Ecrecover(hash, sig): the branch of SigDispatch!Ecrecover, then
\* secp256k1.RecoverPubkey or sm2.Ecrecover with the recovery id it reads;
\* the result is the uncompressed point (pubKey.Raw()).
Recover(h, sig) ==
    LET r == Ecrecover(sig) IN
    IF r.curve \notin {"secp256k1", "gm"} THEN {Outcome(r.curve)}
    ELSE IF /\ sig.by.curve = r.curve /\ sig.by.hash = h
            /\ sig.by.rid = r.v
         THEN {PubRaw(r.curve, sig.by.key)}
         ELSE {Stranger(r.curve), Outcome("error")}

\* PubKey.Address: Keccak256 of the point without its 0x04 prefix, last
\* 20 bytes, for secp256k1 and sm2; Ripemd160 of the 32 bytes for ed25519.
\* Both hashes are taken to be injective.
Address(pub) ==
    [hash |-> IF pub.len = PubKeyEd25519Size THEN "ripemd160" ELSE "keccak256",
     of |-> pub]

\* Sender(hash, sig): PubkeyToAddress of the recovered key, or ecrecover's
\* error or panic.
Sender(h, sig) ==
    {IF r.key = Nil THEN [hash |-> r.curve, of |-> r] ELSE Address(r) :
        r \in Recover(h, sig)}

=============================================================================
