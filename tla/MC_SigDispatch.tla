--------------------------- MODULE MC_SigDispatch ---------------------------
(***************************************************************************)
(* Checks the signature dispatch over every signature slice whose length  *)
(* is in SigLens, with every value of its V byte.  The variable visits    *)
(* every such slice, changing its length or stepping its V byte.           *)
(***************************************************************************)
EXTENDS SigDispatch

CONSTANT SigLens   \* slice lengths around the 64 and 65 byte formats

VARIABLE sig

Init == sig = [len |-> 0, v |-> 0]

Resize == \E l \in SigLens : sig' = [sig EXCEPT !.len = l]

NextV == sig' = [sig EXCEPT !.v = Byte(@ + 1)]

Next == Resize \/ NextV

Spec == Init /\ [][Next]_sig

-----------------------------------------------------------------------------
(* Properties.                                                             *)

\* What a key of each type signs is dispatched back to that type: for both
\* recovery ids, ecrecover routes a secp256k1 or sm2 signature to its own
\* curve with the id it was made with, and VerifySignature to its own
\* curve (with the id for sm2; secp256k1 is given signature[:64] and no
\* id); VerifySignature routes an ed25519 signature to ed25519.
SignedIsRecoverable ==
    /\ \A t \in {"secp256k1", "gm"}, v \in {0, 1} :
          /\ Ecrecover(SignatureOf(t, v)) = Route(t, v)
          /\ VerifyRoute(SignatureOf(t, v)) = Route(t, IF t = "gm" THEN v ELSE 0)
    /\ VerifyRoute(SignatureOf("ed25519", 0)).curve = "ed25519"

\* The two dispatches agree: whenever ecrecover recovers a key from a
\* signature, VerifySignature checks that signature on the same curve, and
\* for sm2 (whose verifier is handed a recovery id) with the same id.
DispatchConsistent ==
    Ecrecover(sig).curve \in {"secp256k1", "gm"} =>
        /\ VerifyRoute(sig).curve = Ecrecover(sig).curve
        /\ Ecrecover(sig).curve = "gm" => VerifyRoute(sig).v = Ecrecover(sig).v

\* ecrecover (and so Ecrecover and Sender) returns a key or an error for
\* every signature it is handed and never panics.
EcrecoverTotal == Ecrecover(sig).curve # "panic"

=============================================================================
