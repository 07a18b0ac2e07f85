-------------------------- MODULE MC_SymmetricAES --------------------------
(***************************************************************************)
(* Checks AesCipher over every plaintext slice buf[:n] of a backing array  *)
(* of up to MaxCap bytes and every ciphertext of up to MaxCipher bytes,    *)
(* with every key.  The variables walk the inputs by appending or          *)
(* dropping a byte and by re-slicing.                                      *)
(***************************************************************************)
EXTENDS SymmetricAES

CONSTANTS
    MaxCap,     \* capacity of the largest backing array
    MaxCipher   \* length of the longest ciphertext

Bytes == 0..ByteMax

VARIABLES buf, n, c

vars == <<buf, n, c>>

Init == buf = <<>> /\ n = 0 /\ c = <<>>

GrowBuf == /\ Len(buf) < MaxCap
           /\ \E b \in Bytes : buf' = Append(buf, b)
           /\ UNCHANGED <<n, c>>

ShrinkBuf == /\ buf # <<>>
             /\ buf' = Tail(buf)
             /\ n' = IF n < Len(buf) THEN n ELSE n - 1
             /\ UNCHANGED c

Reslice == /\ n' \in 0..Len(buf)
           /\ UNCHANGED <<buf, c>>

GrowCipher == /\ Len(c) < MaxCipher
              /\ \E b \in Bytes : c' = Append(c, b)
              /\ UNCHANGED <<buf, n>>

ShrinkCipher == /\ c # <<>>
                /\ c' = Tail(c)
                /\ UNCHANGED <<buf, n>>

Next == GrowBuf \/ ShrinkBuf \/ Reslice \/ GrowCipher \/ ShrinkCipher

Spec == Init /\ [][Next]_vars

-----------------------------------------------------------------------------
(* Properties.                                                             *)

\* Decrypt undoes Encrypt: with a key aes.NewCipher accepts, decrypting the
\* ciphertext of buf[:n] gives back exactly buf[:n] (the padding is one to
\* BlockSize bytes, all equal to its length, and UnPadding strips it);
\* with any other key both fail with an error.
RoundTrip ==
    \A k \in Keys :
        LET e == Encrypt(buf, n, k)
        IN  IF k \in ValidKeys
            THEN /\ e.res = "ok" /\ FullBlocks(e.val)
                 /\ Decrypt(e.val, k) = [res |-> "ok", val |-> SubSeq(buf, 1, n)]
            ELSE e.res = "error" /\ Decrypt(e.val, k).res = "error"

\* Decrypt is total on the ciphertexts a peer can send: whatever the
\* bytes, it returns a plaintext or an error and never panics.
DecryptTotal ==
    \A k \in Keys : Decrypt(c, k).res # "panic"

\* Encrypt does not write to the caller's memory: the backing array of
\* the plaintext slice is the same after the call.
EncryptKeepsBuffer ==
    \A k \in Keys : Encrypt(buf, n, k).buf = buf

=============================================================================
