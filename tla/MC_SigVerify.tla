---------------------------- MODULE MC_SigVerify ----------------------------
(***************************************************************************)
(* A key signs a hash; the message [pub, hash, sig] (the signer's          *)
(* PubKey().Raw(), the hash and Sign's bytes) then reaches a verifier,     *)
(* possibly changed on the way: V rewritten, bytes appended, another       *)
(* public key or hash put in.  The verifier calls VerifySignature and      *)
(* Ecrecover on what it holds.                                             *)
(***************************************************************************)
EXTENDS SigVerify

CONSTANTS
    Secrets,   \* key material
    Hashes,    \* 32-byte hashes
    VBytes,    \* values a V byte is rewritten to
    MaxSigLen  \* bound on the length of a signature with bytes appended

VARIABLES
    msg,        \* [pub, hash, sig]: what the verifier holds
    signed,     \* [type, key, sig]: the signing that made msg
    tampered,   \* msg differs from what the signer sent
    verdict,    \* VerifySignature's latest result on msg, or "none"
    recovered   \* Ecrecover's latest result on msg, or Outcome("none")

vars == <<msg, signed, tampered, verdict, recovered>>

Pubs == {PubRaw(t, k) : t \in Curves, k \in Secrets} \cup {EmptyPub}

SignStep(t, k, h, rid) ==
    /\ msg' = [pub |-> PubRaw(t, k), hash |-> h, sig |-> Signed(t, k, h, rid)]
    /\ signed' = [type |-> t, key |-> k, sig |-> Signed(t, k, h, rid)]
    /\ tampered' = FALSE
    /\ verdict' = "none" /\ recovered' = Outcome("none")

\* A change on the way; the verifier's results are for the old message.
Tamper(m) ==
    /\ m # msg
    /\ msg' = m /\ tampered' = TRUE
    /\ verdict' = "none" /\ recovered' = Outcome("none")
    /\ UNCHANGED signed

SetV(b) == msg.sig.len >= 65 /\ Tamper([msg EXCEPT !.sig.v = b])

AppendByte(b) ==
    /\ msg.sig.len < MaxSigLen
    /\ Tamper([msg EXCEPT !.sig.len = @ + 1,
                          !.sig.v = IF msg.sig.len = 64 THEN b ELSE @])

SwapPub(p) == Tamper([msg EXCEPT !.pub = p])

SwapHash(h) == Tamper([msg EXCEPT !.hash = h])

Verify ==
    /\ verdict' \in VerifySignature(msg.pub, msg.hash, msg.sig)
    /\ UNCHANGED <<msg, signed, tampered, recovered>>

Recovery ==
    /\ recovered' \in Recover(msg.hash, msg.sig)
    /\ UNCHANGED <<msg, signed, tampered, verdict>>

Init ==
    \E t \in Curves, k \in Secrets, h \in Hashes, rid \in {0, 1} :
        /\ msg = [pub |-> PubRaw(t, k), hash |-> h, sig |-> Signed(t, k, h, rid)]
        /\ signed = [type |-> t, key |-> k, sig |-> Signed(t, k, h, rid)]
        /\ tampered = FALSE /\ verdict = "none" /\ recovered = Outcome("none")

Next ==
    \/ \E t \in Curves, k \in Secrets, h \in Hashes, rid \in {0, 1} :
          SignStep(t, k, h, rid)
    \/ \E b \in VBytes : SetV(b) \/ AppendByte(b)
    \/ \E p \in Pubs : SwapPub(p)
    \/ \E h \in Hashes : SwapHash(h)
    \/ Verify
    \/ Recovery

Spec == Init /\ [][Next]_vars

-----------------------------------------------------------------------------
(* Properties.                                                             *)

\* What a key signs goes through: VerifySignature accepts the signer's
\* public key, hash and signature as Sign and PubKey().Raw() produced them,
\* and for secp256k1 and sm2 keys Ecrecover returns exactly that public
\* key, so Sender returns the signer's PubkeyToAddress.
SignedVerifies ==
    ~tampered =>
        /\ verdict \in {"none", "accept"}
        /\ signed.type # "ed25519" =>
               /\ recovered \in {Outcome("none"), msg.pub}
               /\ recovered = msg.pub =>
                      Sender(msg.hash, msg.sig) = {Address(PubRaw(signed.type, signed.key))}

\* VerifySignature and Ecrecover agree on who made a signature: when
\* VerifySignature accepts a message and Ecrecover recovers a key from
\* it, the key is the one VerifySignature checked against.
VerifiedIsRecovered ==
    (verdict = "accept" /\ recovered.key # Nil) => recovered = msg.pub

\* A signature is accepted only as its signer's Sign produced it: no
\* rewritten V or appended bytes pass VerifySignature.
NonMalleable == verdict = "accept" => msg.sig = signed.sig

\* VerifySignature answers true or false for every public key and
\* signature it is handed, and never panics.
VerifyTotal == verdict # "panic"

=============================================================================
