--------------------------- MODULE MC_Components ---------------------------
(***************************************************************************)
(* The component models other than the type registry, checked together:   *)
(*   names    nameToDisfix (MC_NameScheme)                                 *)
(*   structs  parseStructInfo / typeToTyp3 (MC_FieldIntrospector)          *)
(*   receipts ReceiptList / HashList / Receipts.Hash (MC_Receipts)         *)
(*   aes      AesCipher and PKCS5 padding (MC_SymmetricAES)                *)
(*   keys     private keys, their cache and Reset (CryptoKeys)             *)
(*   sigs     signature dispatch by length and V (MC_SigDispatch)          *)
(*   verify   Sign, VerifySignature, Ecrecover and Sender (MC_SigVerify)   *)
(*   values   SignatureValues, ValidateSignatureValues (MC_SignerValues)   *)
(*   elgamal  the regulator's ElGamal key wrapping (MC_ElGamal)           *)
(* The components share no state.  A behaviour picks one of them (part)  *)
(* and runs only its steps; the others stay at their initial state, so    *)
(* the states of the model are the states of each component side by side, *)
(* not their product.  Each property is its component's, asked in the     *)
(* behaviours of that component.                                           *)
(***************************************************************************)
EXTENDS Integers

CONSTANTS
    Bytes, MaxDigestLen,                                   \* names
    UpperNames, FieldNames, Kinds, ElemKinds, JSONTags,    \* structs
    BinTags, AminoTags, MaxFields,
    Params, Nil,                                           \* values, keys
    Zones, ReceiptsIn, MinLen, MaxLen,                     \* receipts
    BlockSize, ByteMax, Keys, ValidKeys, MaxCap, MaxCipher, \* aes
    Slots, Secrets, Zero, ValidSecp, ValidGM,              \* keys
    SigLens,                                               \* sigs
    Hashes, VBytes, MaxSigLen,                             \* verify
    Order, BadPoints, NilBytes                             \* elgamal

VARIABLES
    part,
    bz,                                          \* names
    fields,                                      \* structs
    m,                                           \* receipts
    buf, n, c,                                   \* aes
    keys, former, wiped,                         \* keys
    sig,                                         \* sigs
    msg, signed, tampered, verdict, recovered,   \* verify
    signer,                                      \* values
    regY                                         \* elgamal

Scheme   == INSTANCE MC_NameScheme
Structs  == INSTANCE MC_FieldIntrospector
Rcpt     == INSTANCE MC_Receipts
AES      == INSTANCE MC_SymmetricAES
PrivKeys == INSTANCE CryptoKeys
Sigs     == INSTANCE MC_SigDispatch
Ver      == INSTANCE MC_SigVerify
Vals     == INSTANCE MC_SignerValues
Reg      == INSTANCE MC_ElGamal

\* The inputs of MC_FieldIntrospector and MC_Receipts,
\* restated here: an instance cannot take a constant's value from itself.
MCJSONTags == {<<"">>, <<"-">>, <<"j", "omitempty">>, <<"", "omitempty">>}

MCZones == {-1, 1}

MCReceiptsIn == [z \in Zones |-> {"ra", "rb"}]

Parts == {"names", "structs", "receipts", "aes", "keys", "sigs", "verify", "values",
          "elgamal"}

nV == <<bz>>
fV == <<fields>>
rV == <<m>>
aV == <<buf, n, c>>
kV == <<keys, former, wiped>>
gV == <<sig>>
vV == <<msg, signed, tampered, verdict, recovered>>
xV == <<signer>>
eV == <<regY>>
vars == <<part, nV, fV, rV, aV, kV, gV, vV, xV, eV>>

\* Outside its own behaviours the verifier holds one ed25519 signing.
Init ==
    /\ part \in Parts
    /\ Scheme!Init /\ Structs!Init /\ Rcpt!Init
    /\ AES!Init /\ PrivKeys!Init /\ Sigs!Init /\ Ver!Init
    /\ Vals!Init /\ Reg!Init
    /\ part # "verify" => /\ signed.type = "ed25519" /\ msg.sig.by.rid = 0
                          /\ signed.key = CHOOSE k \in Secrets : TRUE
                          /\ msg.hash = CHOOSE h \in Hashes : TRUE
    /\ part # "values" => signer = Vals!Signer("frontier", 0)
    /\ part # "elgamal" => regY = Reg!Identity

Next ==
    \/ part = "names"    /\ Scheme!Next   /\ UNCHANGED <<part, fV, rV, aV, kV, gV, vV, xV, eV>>
    \/ part = "structs"  /\ Structs!Next  /\ UNCHANGED <<part, nV, rV, aV, kV, gV, vV, xV, eV>>
    \/ part = "receipts" /\ Rcpt!Next     /\ UNCHANGED <<part, nV, fV, aV, kV, gV, vV, xV, eV>>
    \/ part = "aes"      /\ AES!Next      /\ UNCHANGED <<part, nV, fV, rV, kV, gV, vV, xV, eV>>
    \/ part = "keys"     /\ PrivKeys!Next /\ UNCHANGED <<part, nV, fV, rV, aV, gV, vV, xV, eV>>
    \/ part = "sigs"     /\ Sigs!Next     /\ UNCHANGED <<part, nV, fV, rV, aV, kV, vV, xV, eV>>
    \/ part = "verify"   /\ Ver!Next      /\ UNCHANGED <<part, nV, fV, rV, aV, kV, gV, xV, eV>>
    \/ part = "values"   /\ Vals!Next     /\ UNCHANGED <<part, nV, fV, rV, aV, kV, gV, vV, eV>>
    \/ part = "elgamal"  /\ Reg!Next      /\ UNCHANGED <<part, nV, fV, rV, aV, kV, gV, vV, xV>>

Spec == Init /\ [][Next]_vars

-----------------------------------------------------------------------------
(* Properties: each is stated, with the code behaviour it is about, where *)
(* it is defined; here it is asked of its component's behaviours.          *)

\* nameToDisfix yields the reference Disamb and Prefix of every digest (or
\* panics exactly when the reference cannot fill a segment).
DisfixMatchesReference == part = "names" => Scheme!MatchesReference

\* parseStructInfo numbers, skips and tags every struct's fields as the
\* reference does, and panics exactly where it does.
FieldsMatchReference == part = "structs" => Structs!MatchesReference

\* typeToTyp3 agrees with the Typ3 table under the last field's options.
Typ3MatchesReference == part = "structs" => Structs!Typ3MatchesReference

\* ReceiptList.Hash of every zone's list is the left-heavy tree of its
\* receipts in order.
ListHashShape == part = "receipts" => Rcpt!ListHashShape

AESRoundTrip == part = "aes" => AES!RoundTrip

\* The keys' state keeps its type: Reset leaves zeroed, not missing, bytes.
KeysTypeOK == part = "keys" => PrivKeys!TypeOK

\* A key that both signs and yields a public key signs with the secret of
\* that public key, whatever the order of decoding, first use and Reset.
SignMatchesPubKey == part = "keys" => PrivKeys!SignMatchesPubKey

\* What each key type signs, ecrecover and VerifySignature dispatch back to
\* that curve with the recovery id it was made with.
SignedIsRecoverable == part = "sigs" => Sigs!SignedIsRecoverable

\* Whenever ecrecover recovers a key from a signature slice,
\* VerifySignature checks it on the same curve with the same id.
DispatchConsistent == part = "sigs" => Sigs!DispatchConsistent

\* What a key signs, untouched, VerifySignature accepts, and for secp256k1
\* and sm2 Ecrecover recovers the signer's public key and Sender its
\* address.
SignedVerifies == part = "verify" => Ver!SignedVerifies

\* Every signer's SignatureValues of what an account key signs has a V from
\* which the EIP155 rule and ecrecover get back the curve and recovery id,
\* and ValidateSignatureValues accepts it.
SignatureValuesSound == part = "values" => Vals!SignatureValuesSound

\* The symmetric key GenerateAndEncryptSymmetricKey wraps for a valid Y is
\* recovered by the sender from k and by the regulator from exactly the
\* private key of Y; an invalid Y is refused.
KeyRecovery == part = "elgamal" => Reg!KeyRecovery

=============================================================================
