--------------------------- MODULE MC_SignerValues ---------------------------
(***************************************************************************)
(* Checks SignatureValues and ValidateSignatureValues against what the     *)
(* account keys sign.  The variable visits every signer: Frontier,         *)
(* Homestead, and EIP155 with no signParam or one of Params.  Each         *)
(* property quantifies over the signatures a secp256k1 or sm2 key makes.  *)
(***************************************************************************)
EXTENDS Integers, SignerValues

CONSTANT Params   \* signParams of the EIP155 signers

Signers ==
    {Signer("frontier", 0), Signer("homestead", 0)}
        \cup {Signer("eip155", p) : p \in {0} \cup Params}

AccountTypes == {"secp256k1", "gm"}

\* Sign of an account key: SigDispatch!SignatureOf's length and V, with the
\* R and S the curve library produced.
AccountSig(t, rid, r, s) ==
    [len |-> 65, v |-> SignatureOf(t, rid).v, r |-> r, s |-> s]

\* The R and S each library produces: both in 1..N-1; libsecp256k1 also
\* normalises S to the lower half.
LibraryRS(t) ==
    IF t = "secp256k1" THEN [r : {"low", "high"}, s : {"low"}]
    ELSE [r : {"low", "high"}, s : {"low", "high"}]

\* Reference: byte 64 read back from V by the EIP155 rule (V - 27 without
\* a chain parameter, V - 35 - 2 * signParam with one).
RecoveryByte(signer, v) ==
    IF signer.kind = "eip155" /\ signer.param # 0 THEN v - 35 - 2 * signer.param
    ELSE v - 27

VARIABLE signer

Init == signer \in Signers

Next == signer' \in Signers \ {signer}

Spec == Init /\ [][Next]_signer

-----------------------------------------------------------------------------
(* Properties.                                                             *)

\* Every signer turns what an account key signs into R, S, V without
\* panicking: R and S are the signature's, V read back by the EIP155 rule
\* gives byte 64, from which ecrecover routes to the curve and recovery id
\* that made the signature, and ValidateSignatureValues accepts that byte
\* with R and S under both the Frontier and the Homestead rule.
SignatureValuesSound ==
    \A t \in AccountTypes, rid \in {0, 1}, hs \in BOOLEAN : \A rs \in LibraryRS(t) :
        LET sig == AccountSig(t, rid, rs.r, rs.s)
            sv == SignatureValues(signer, sig)
            b == RecoveryByte(signer, sv.v)
        IN  /\ ~sv.panicked /\ sv.r = rs.r /\ sv.s = rs.s
            /\ Ecrecover([len |-> 65, v |-> b]) = Route(t, rid)
            /\ ValidateSignatureValues(b, sv.r, sv.s, hs)

\* V tells signings apart: two EIP155 signers with a signParam give the
\* same V only for the same signParam, key type and recovery id.
VDeterminesSigning ==
    signer.kind = "eip155" /\ signer.param # 0 =>
        \A p2 \in Params, t1, t2 \in AccountTypes, r1, r2 \in {0, 1} :
            SignatureValues(signer, AccountSig(t1, r1, "low", "low")).v
                = SignatureValues(Signer("eip155", p2), AccountSig(t2, r2, "low", "low")).v
                => p2 = signer.param /\ t1 = t2 /\ r1 = r2

=============================================================================
