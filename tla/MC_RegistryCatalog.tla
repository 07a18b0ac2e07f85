------------------------ MODULE MC_RegistryCatalog ------------------------
(***************************************************************************)
(* Registry shown to implement Catalog.  The refinement mapping:           *)
(*   - sealed is cdc.sealed;                                               *)
(*   - a type's catalog name is the name nameToTypeInfo maps to it (the    *)
(*     index set only by a registration that got past every check);        *)
(*   - an interface's priority is its TypeInfo's Priority;                 *)
(*   - halted is the process having stopped on a panic;                    *)
(*   - a thread's call is the op it is making, done when it is back to    *)
(*     idle (or stopped by its panic), with the result it returned.        *)
(* Begin steps, lookups and traffic leave all four unchanged: they are     *)
(* stuttering steps of Catalog.                                            *)
(***************************************************************************)
EXTENDS MC_Registry

\* Registration calls of one registrar thread: an interface without a
\* priority, with one covering n1 and n2 and with one covering only n2, the
\* second interface, A and B (one prefix), A again (same name, and in an
\* unsupported form), C under A's name, and Seal.  Each type is registered
\* under one name only (see MCThreadOpsRename).
MCRegistrarOps ==
    {RI(I1, {}), RI(I1, {n2}), RI(I1, {n1, n2}), RI(I2, {}),
     RC(A, n1, "value"), RC(B, n2, "pointer"), RC(C, n1, "value"),
     RC(A, n1, "pointerToPointer"), SealOp}

MCThreadOpsRegistrar == [t \in Threads |-> MCRegistrarOps]

\* A registered again under a second name, then B under that name.
MCThreadOpsRename ==
    [t \in Threads |-> {RI(I1, {}), RC(A, n1, "value"), RC(A, n3, "value"),
                        RC(B, n3, "value")}]

\* The catalog name of c: the name nameToTypeInfo maps to c, if any.
CatalogName(c) ==
    IF \E n \in Names : nameMap[n] = c
    THEN CHOOSE n \in Names : nameMap[n] = c
    ELSE None

Abstract == INSTANCE Catalog WITH
    names        <- [c \in Concretes |-> CatalogName(c)],
    prio         <- iinfo,
    halted       <- aborted,
    call         <- [t \in Threads |->
                       [op   |-> op[t],
                        done |-> pc[t] \in {"idle", "panicked"},
                        res  |-> IF pc[t] \in {"idle", "panicked"} THEN res[t]
                                 ELSE "none"]],
    Calls        <- UNION {ThreadOps[t] : t \in Threads},
    NoCall       <- NoOp,
    PrefixOfName <- [n \in Names |-> PrefixOf(n)],
    DisfixOfName <- [n \in Names |-> Disfix(n)],
    SupportedForms <- {"value", "pointer"}

\* Every behaviour of the registry is one of the catalog: each commit is
\* an atomic registration with the specified outcome (success, no-op or a
\* fatal failure that leaves the catalog as it was), never a rejection the
\* catalog would not make, nor an acceptance it forbids.
CatalogRefinement == Abstract!Spec

=============================================================================
