---------------------------- MODULE MC_Registry ----------------------------
(***************************************************************************)
(* Instantiates Registry for TLC: three concrete types, two interfaces and *)
(* three names, two of which (n1, n2) collide on their Prefix while their  *)
(* Disambs differ, and whose digests start with zero bytes.                *)
(***************************************************************************)
EXTENDS Registry, TLC

CONSTANTS I1, I2, A, B, C, n1, n2, n3, T1, T2

\* B implements both interfaces, A only I1, C only I2.
MCImplements == (A :> {I1}) @@ (B :> {I1, I2}) @@ (C :> {I2})

\* n1 -> Disamb <<1,2,1>>, Prefix <<2,1,1,2>>; n2 -> <<2,2,2>>, <<2,1,1,2>>;
\* n3 -> <<1,1,1>>, <<1,1,1,1>>.
MCDigest == (n1 :> <<0, 1, 2, 1, 0, 2, 1, 1, 2, 1>>)
         @@ (n2 :> <<2, 2, 2, 2, 1, 1, 2, 0, 0, 0>>)
         @@ (n3 :> <<1, 1, 1, 0, 0, 1, 1, 1, 1, 0>>)

RI(i, P) == [kind |-> "RegisterInterface", iface |-> i, prio |-> P]
RC(c, n, f) == [kind |-> "RegisterConcrete", type |-> c, name |-> n, form |-> f]
ED(i, v) == [kind |-> "EncodeDecode", iface |-> i, val |-> v]
JS(c) == [kind |-> "JSONRoundTrip", type |-> c]
SealOp == [kind |-> "Seal"]

\* Calls of the concurrent run: registrations that collide (A/n1 with B/n2
\* under I1, covered only by a Priority of {n2}), an unsafe float type (C),
\* a pointer-to-pointer registration, sealing, and traffic on the
\* interface, JSON and typed paths.
ConcurrentOps ==
    {RI(I1, {}), RI(I1, {n2}), RI(I2, {}),
     RC(A, n1, "value"), RC(B, n2, "pointer"), RC(C, n3, "value"),
     RC(A, n1, "pointerToPointer"),
     SealOp, ED(I1, A), ED(I1, Nil), JS(A), JS(C),
     [kind |-> "TypedRoundTrip", type |-> A, into |-> A]}
MCThreadOpsConcurrent == [t \in {T1, T2} |-> ConcurrentOps]

\* Calls of the round-trip run: besides the above, B registered under the
\* name n1 that A may already hold, and B's values on both interfaces.
RoundTripOps ==
    {RI(I1, {n1, n2}), RI(I2, {}),
     RC(A, n1, "value"), RC(B, n2, "pointer"), RC(B, n1, "value"),
     SealOp, ED(I1, A), ED(I1, Nil), ED(I2, B), JS(B),
     [kind |-> "TypedRoundTrip", type |-> A, into |-> A]}
MCThreadOpsRoundTrip == [t \in {T1, T2} |-> RoundTripOps]

\* One thread registers A and B while another decodes A's tagged bytes
\* into a B.
MCThreadOpsTyped ==
    (T1 :> {RC(A, n1, "value"), RC(B, n2, "value")})
    @@ (T2 :> {[kind |-> "TypedRoundTrip", type |-> A, into |-> B]})

\* One thread registers A while another seals the codec.
MCThreadOpsSealRace == (T1 :> {RC(A, n1, "value")}) @@ (T2 :> {SealOp})

\* One thread marshals an A to JSON while another registers A.
MCThreadOpsLazyCache == (T1 :> {JS(A)}) @@ (T2 :> {RC(A, n1, "value")})

\* A single thread registers both interfaces and concretes of colliding
\* Prefix (C/n1 and B/n2), B implementing both interfaces.
MCThreadOpsRollback ==
    (T1 :> {RI(I1, {}), RI(I2, {}), RC(C, n1, "value"), RC(B, n2, "value")})
    @@ (T2 :> {})

=============================================================================
