----------------------------- MODULE CryptoKeys -----------------------------
(***************************************************************************)
(* The private keys of src/crypto/priv_key.go and their creation through  *)
(* the plugins of src/crypto/plugin.go and GeneratePrivKeyFromSecret.      *)
(*                                                                         *)
(* A secret (the raw key bytes) is a model value; Zero is the all-zero     *)
(* secret Reset leaves behind.  Which secrets a curve accepts is a          *)
(* constant: secp256k1 wants 32 bytes with 0 < D < N, sm2 only a scalar    *)
(* whose base multiple has an X coordinate.  A public key or a signature   *)
(* is named by the secret it was made with.  Each key lives in a slot (a   *)
(* variable of the caller); secp256k1 and sm2 keys cache their parsed key  *)
(* (pk), filled by the constructors or lazily by fromRaw, and never        *)
(* cleared.  PrivKeyEd25519 is a [64]byte value and has no cache.          *)
(***************************************************************************)
EXTENDS Naturals

CONSTANTS
    Slots,      \* caller variables holding a key
    Secrets,    \* key material
    Zero,       \* the secret of a zeroed key
    Nil,
    ValidSecp,  \* secrets secp256k1 accepts (fromRaw, secp256k1.Sign)
    ValidGM     \* secrets sm2 accepts (fromRaw)

Types == {"secp256k1", "gm", "ed25519"}

\* The crypto types GeneratePrivKeyFromSecret may be asked for: the keys
\* of the cryptos map, and one it does not hold.
TypeArgs == Types \cup {"rsa"}

AllSecrets == Secrets \cup {Zero}

VARIABLES
    keys,    \* [Slots -> key record or Nil]
    former,  \* [Slots -> the secret the key was created with]
    wiped    \* [Slots -> BOOLEAN]: Reset has been called on the key

vars == <<keys, former, wiped>>

Key(t, raw, pk) == [type |-> t, raw |-> raw, pk |-> pk]

\* fromRaw: parse the raw bytes when nothing is cached; a rejected secret
\* leaves the cache empty.
FromRaw(k) ==
    IF k.pk # Nil THEN k
    ELSE IF k.raw \in (IF k.type = "gm" THEN ValidGM ELSE ValidSecp)
         THEN [k EXCEPT !.pk = k.raw]
         ELSE k

\* PubKey(): ed25519 derives it from the bytes; secp256k1 through
\* toECDSA (fromRaw's error dropped, then a nil dereference); sm2 through
\* key() (panics on fromRaw's error).
PubOf(k) ==
    IF k.type = "ed25519" THEN k.raw
    ELSE IF FromRaw(k).pk = Nil THEN "panic" ELSE FromRaw(k).pk

\* Mutant of SignBy: sm2 signs with the raw bytes rather than key().
SignByRawGM(k) ==
    CASE k.type = "ed25519" -> k.raw
      [] k.type = "secp256k1" -> IF k.raw \in ValidSecp THEN k.raw ELSE "error"
      [] OTHER -> IF k.raw \in ValidGM THEN k.raw ELSE "panic"

\* Sign(): ed25519 signs with the bytes; secp256k1.Sign is handed Raw()
\* and fails on a rejected secret; sm2 signs with key().
SignBy(k) ==
    CASE k.type = "ed25519" -> k.raw
      [] k.type = "secp256k1" -> IF k.raw \in ValidSecp THEN k.raw ELSE "error"
      [] OTHER -> IF FromRaw(k).pk = Nil THEN "panic" ELSE FromRaw(k).pk

Create(s, k, sec) ==
    /\ keys' = [keys EXCEPT ![s] = k]
    /\ former' = [former EXCEPT ![s] = sec]
    /\ wiped' = [wiped EXCEPT ![s] = FALSE]

-----------------------------------------------------------------------------

\* plugin.GenerateKey(): GenPrivKeyEd25519 / GenPrivKeySecp256k1 /
\* GenPrivKeyGM draw a fresh key the curve accepts and cache it.
GenerateKey(s, t) ==
    /\ keys[s] = Nil
    /\ \E sec \in Secrets :
          /\ t = "ed25519" \/ sec \in (IF t = "gm" THEN ValidGM ELSE ValidSecp)
          /\ Create(s, Key(t, sec, IF t = "ed25519" THEN Nil ELSE sec), sec)

\* GeneratePrivKeyFromSecret(secret, t): ErrInvalidCryptoType for a type
\* with no plugin; ed25519 hashes the secret into a seed (named by the
\* secret); secp256k1 returns the key even when fromRaw fails; sm2 returns
\* nil on fromRaw's error.
GeneratePrivKeyFromSecret(s, sec, t) ==
    /\ keys[s] = Nil
    /\ t \in Types
    /\ t = "gm" => sec \in ValidGM
    /\ Create(s, FromRaw(Key(t, sec, Nil)), sec)

\* PrivKeyFromBytes: the decoded key holds its bytes and no cache.
PrivKeyFromBytes(s, t, sec) ==
    /\ keys[s] = Nil
    /\ Create(s, Key(t, sec, Nil), sec)

\* PubKey() and Sign() on secp256k1 and sm2 keys fill the cache.
UseKey(s) ==
    /\ keys[s] # Nil /\ keys[s].type # "ed25519"
    /\ keys' = [keys EXCEPT ![s] = FromRaw(@)]
    /\ UNCHANGED <<former, wiped>>

\* Mutant of Reset: the raw bytes dropped (set to nil) instead of zeroed.
ResetToNil(s) ==
    /\ keys[s] # Nil
    /\ keys' = IF keys[s].type = "ed25519" THEN keys
               ELSE [keys EXCEPT ![s].raw = Nil]
    /\ wiped' = [wiped EXCEPT ![s] = TRUE]
    /\ UNCHANGED former

\* Reset(): secp256k1 and sm2 zero their raw bytes (the cache stays); the
\* ed25519 method has a value receiver and zeroes a copy.
Reset(s) ==
    /\ keys[s] # Nil
    /\ keys' = IF keys[s].type = "ed25519" THEN keys
               ELSE [keys EXCEPT ![s].raw = Zero]
    /\ wiped' = [wiped EXCEPT ![s] = TRUE]
    /\ UNCHANGED former

Init ==
    /\ keys = [s \in Slots |-> Nil]
    /\ former = [s \in Slots |-> Nil]
    /\ wiped = [s \in Slots |-> FALSE]

Next ==
    \E s \in Slots :
        \/ \E t \in Types : GenerateKey(s, t)
        \/ \E sec \in AllSecrets, t \in TypeArgs : GeneratePrivKeyFromSecret(s, sec, t)
        \/ \E t \in Types, sec \in AllSecrets : PrivKeyFromBytes(s, t, sec)
        \/ UseKey(s)
        \/ Reset(s)

Spec == Init /\ [][Next]_vars

-----------------------------------------------------------------------------

TypeOK ==
    /\ keys \in [Slots -> [type : Types, raw : AllSecrets, pk : AllSecrets \cup {Nil}]
                          \cup {Nil}]
    /\ former \in [Slots -> AllSecrets \cup {Nil}]
    /\ wiped \in [Slots -> BOOLEAN]

\* Whatever the order of decoding, first use and Reset, a key that both
\* signs and yields a public key signs with the secret of that public key:
\* the lazily filled cache and the raw bytes never make Sign and PubKey
\* disagree.
SignMatchesPubKey ==
    \A s \in Slots :
        keys[s] # Nil /\ SignBy(keys[s]) \in AllSecrets /\ PubOf(keys[s]) \in AllSecrets
            => SignBy(keys[s]) = PubOf(keys[s])

\* Reset wipes the key: once it has been called, the key neither signs
\* with nor reports the public key of the secret it held.
ResetWipes ==
    \A s \in Slots :
        wiped[s] => /\ SignBy(keys[s]) # former[s]
                    /\ PubOf(keys[s]) # former[s]

=============================================================================
