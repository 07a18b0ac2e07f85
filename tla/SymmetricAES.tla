---------------------------- MODULE SymmetricAES ----------------------------
(***************************************************************************)
(* AesCipher of src/crypto/regulation/symmetric_aes.go: Encrypt, Decrypt,  *)
(* PKCS5Padding and PKCS5UnPadding.                                        *)
(*                                                                         *)
(* A byte slice is a sequence of naturals in 0..ByteMax.  A plaintext is   *)
(* the slice buf[:n] of a backing array buf whose capacity is Len(buf), so *)
(* that the effect of append on the backing array is visible.  AES-CBC    *)
(* with the fixed CommonIV is outside the repository: it is replaced by a  *)
(* keyed bijection on full-block byte strings (bytewise addition of the    *)
(* key), which, like CBC, maps every full-block string to exactly one and  *)
(* keeps its length.  cipher.CryptBlocks panics on a length that is not a  *)
(* multiple of the block size; aes.NewCipher fails on a key that is not   *)
(* 16, 24 or 32 bytes long (the keys outside ValidKeys).  A result is a    *)
(* record: res is "ok", "error" or "panic".                                *)
(***************************************************************************)
EXTENDS Naturals, Sequences

CONSTANTS
    BlockSize,  \* encrypter.BlockSize() (aes.BlockSize)
    ByteMax,    \* the largest byte value
    Keys,       \* secrets, as the offsets of the stand-in cipher
    ValidKeys   \* the secrets aes.NewCipher accepts

ASSUME BlockSize \in 1..ByteMax /\ ValidKeys \subseteq Keys

Byte(x) == x % (ByteMax + 1)

\* The stand-in for CryptBlocks with a CBC encrypter / decrypter.
Enc(k, t) == [i \in DOMAIN t |-> Byte(t[i] + k)]
Dec(k, t) == [i \in DOMAIN t |-> Byte(t[i] + (ByteMax + 1) - Byte(k))]

FullBlocks(t) == Len(t) % BlockSize = 0

\* Mutant of PKCS5Padding: no padding block added to aligned text.
PKCS5PaddingNoFullBlock(buf, n, blockSize) ==
    LET padding == (blockSize - (n % blockSize)) % blockSize
    IN  [text |-> SubSeq(buf, 1, n) \o [i \in 1..padding |-> padding],
         buf  |-> IF n + padding <= Len(buf)
                  THEN [i \in DOMAIN buf |-> IF n < i /\ i <= n + padding
                                             THEN padding ELSE buf[i]]
                  ELSE buf]

\* PKCS5Padding(buf[:n], blockSize): padding bytes of value padding are
\* appended.  When the backing array has room (n + padding <= cap), append
\* writes them into it; otherwise it copies to a new array.
PKCS5Padding(buf, n, blockSize) ==
    LET padding == blockSize - (n % blockSize)
    IN  [text |-> SubSeq(buf, 1, n) \o [i \in 1..padding |-> padding],
         buf  |-> IF n + padding <= Len(buf)
                  THEN [i \in DOMAIN buf |-> IF n < i /\ i <= n + padding
                                             THEN padding ELSE buf[i]]
                  ELSE buf]

\* PKCS5UnPadding: the last byte is the padding length; only its bound is
\* checked.  plainText[length-1] on an empty slice is an index panic.
PKCS5UnPadding(t) ==
    IF Len(t) = 0 THEN [res |-> "panic", val |-> <<>>]
    ELSE LET number == t[Len(t)]
         IN  IF number > Len(t) THEN [res |-> "error", val |-> <<>>]
             ELSE [res |-> "ok", val |-> SubSeq(t, 1, Len(t) - number)]

\* AesCipher.Encrypt(buf[:n], secret), and the backing array afterwards.
Encrypt(buf, n, k) ==
    IF k \notin ValidKeys THEN [res |-> "error", val |-> <<>>, buf |-> buf]
    ELSE LET p == PKCS5Padding(buf, n, BlockSize)
         IN  [res |-> "ok", val |-> Enc(k, p.text), buf |-> p.buf]

\* AesCipher.Decrypt(cipherText, secret).
Decrypt(c, k) ==
    CASE k \notin ValidKeys -> [res |-> "error", val |-> <<>>]
      [] ~FullBlocks(c)     -> [res |-> "panic", val |-> <<>>]
      [] OTHER              -> PKCS5UnPadding(Dec(k, c))

=============================================================================
