--------------------------- MODULE MC_RegistryRuns ---------------------------
(***************************************************************************)
(* The passing checks of the type registry, in one model.  A behaviour     *)
(* picks one question (part) and runs Registry under that question's      *)
(* calls and panic handling:                                               *)
(*   roundtrip   two threads, panics abort, MC_Registry!RoundTripOps;       *)
(*   catalog     one registrar, panics abort, up to 6 registration calls,  *)
(*               checked against the abstract Catalog.                     *)
(* The parts share the registry's variables: each starts from its own     *)
(* Init and only its own steps are taken.                                  *)
(***************************************************************************)
EXTENDS Naturals, TLC

CONSTANTS I1, I2, A, B, C, n1, n2, n3, T1, T2, NoInfo, None, Nil

VARIABLES
    part,
    sealed, cinfo, iinfo, impls, interfaceInfos, concreteInfos,
    disfixMap, nameMap, pc, op, opsDone, wire, jsonOut, res, aborted

vars == <<part, sealed, cinfo, iinfo, impls, interfaceInfos, concreteInfos,
          disfixMap, nameMap, pc, op, opsDone, wire, jsonOut, res, aborted>>

\* The types, names and digests of MC_Registry.
MCInterfaces == {I1, I2}
MCConcretes == {A, B, C}
MCNames == {n1, n2, n3}
MCImplements == (A :> {I1}) @@ (B :> {I1, I2}) @@ (C :> {I2})
MCDigest == (n1 :> <<0, 1, 2, 1, 0, 2, 1, 1, 2, 1>>)
         @@ (n2 :> <<2, 2, 2, 2, 1, 1, 2, 0, 0, 0>>)
         @@ (n3 :> <<1, 1, 1, 0, 0, 1, 1, 1, 1, 0>>)

\* The call sets of MC_Registry and MC_RegistryCatalog, read from a
\* registry whose threads make no calls.
Lib == INSTANCE MC_RegistryCatalog WITH
    Interfaces <- MCInterfaces, Concretes <- MCConcretes, Names <- MCNames,
    Implements <- MCImplements, Digest <- MCDigest, Threads <- {T1},
    ThreadOps <- [t \in {T1} |-> {}], MaxOps <- 0, RecoverPanics <- FALSE,
    FloatUnsafe <- {}

RT == INSTANCE MC_RegistryCatalog WITH
    Interfaces <- MCInterfaces, Concretes <- MCConcretes, Names <- MCNames,
    Implements <- MCImplements, Digest <- MCDigest, Threads <- {T1, T2},
    ThreadOps <- [t \in {T1, T2} |-> Lib!RoundTripOps], MaxOps <- 3,
    RecoverPanics <- FALSE, FloatUnsafe <- {C}

Cat == INSTANCE MC_RegistryCatalog WITH
    Interfaces <- MCInterfaces, Concretes <- MCConcretes, Names <- MCNames,
    Implements <- MCImplements, Digest <- MCDigest, Threads <- {T1},
    ThreadOps <- [t \in {T1} |-> Lib!MCRegistrarOps], MaxOps <- 6,
    RecoverPanics <- FALSE, FloatUnsafe <- {}

Init ==
    \/ part = "roundtrip"  /\ RT!Init
    \/ part = "catalog"    /\ Cat!Init

Next ==
    \/ part = "roundtrip"  /\ RT!Next   /\ UNCHANGED part
    \/ part = "catalog"    /\ Cat!Next  /\ UNCHANGED part

Spec == Init /\ [][Next]_vars

-----------------------------------------------------------------------------
(* Properties: each is stated, with the code behaviour it is about, where *)
(* it is defined in Registry or MC_RegistryCatalog; here it is asked of    *)
(* the behaviours of its question.                                         *)

\* When panics abort, every completed binary round trip through an
\* interface returns the value that was encoded.
RoundTrip == part = "roundtrip" => RT!RoundTrip

\* Each registration commit of a lone registrar is an atomic catalog step
\* with the outcome the catalog rules give: MC_RegistryCatalog's
\* Abstract!Spec, stated as its initial condition and its step relation
\* for the behaviours of the catalog question.
CatalogRefinement ==
    /\ part = "catalog" => Cat!Abstract!Init
    /\ [][part = "catalog" => [Cat!Abstract!Next]_(Cat!Abstract!vars)]_vars

=============================================================================
