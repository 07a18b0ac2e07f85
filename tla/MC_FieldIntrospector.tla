------------------------- MODULE MC_FieldIntrospector -------------------------
(***************************************************************************)
(* Checks FieldIntrospector's operators against reference definitions     *)
(* written from the field-introspection and Typ3 rules, over every struct *)
(* of up to MaxFields fields drawn from Fields.  The variable walks the    *)
(* structs by appending or dropping a field.                               *)
(***************************************************************************)
EXTENDS FieldIntrospector, FiniteSets

CONSTANTS FieldNames,  \* field names, some in UpperNames
          Kinds,       \* kinds of a field's own type
          ElemKinds,   \* kinds of a list or pointer element
          JSONTags,    \* json tags, split at commas
          BinTags,     \* binary tags
          AminoTags,   \* amino tags
          MaxFields    \* most fields in a struct

\* The json tags enumerated: none, "-", "j,omitempty" and ",omitempty".
MCJSONTags == {<<"">>, <<"-">>, <<"j", "omitempty">>, <<"", "omitempty">>}

\* Go sets PkgPath exactly for the fields whose name is not exported.
Fields ==
    {f \in [name : FieldNames, pkgPath : {"", "pkg"}, kind : Kinds,
            elem : ElemKinds \cup {"none"}, jsonTag : JSONTags,
            binTag : BinTags, aminoTag : AminoTags] :
        /\ (f.pkgPath = "") = (f.name \in UpperNames)
        /\ (f.elem = "none") = (f.kind \notin Lists \cup {"ptr"})}

VARIABLE fields

Init == fields = <<>>

Extend == /\ Len(fields) < MaxFields
          /\ \E f \in Fields : fields' = Append(fields, f)

Shorten == /\ fields # <<>>
           /\ fields' = Tail(fields)

Next == Extend \/ Shorten

Spec == Init /\ [][Next]_fields

-----------------------------------------------------------------------------
(* Reference definitions.                                                  *)

\* Typ3 classification as a table: integers of 64 (32) bits are fixed
\* 8 (4) bytes only when fixed64 (fixed32) is asked for; floats are always
\* fixed; strings, lists, structs, maps and interfaces are length-delimited.
RefTyp3(k, opts) ==
    LET fixed == [int64 |-> 8, uint64 |-> 8, int32 |-> 4, uint32 |-> 4]
    IN  IF k \in {"interface", "array", "slice", "string", "struct", "map"}
        THEN Typ3ByteLength
        ELSE IF k = "float64" THEN Typ38Byte
        ELSE IF k = "float32" THEN Typ34Byte
        ELSE IF k \in DOMAIN fixed
        THEN IF fixed[k] = 8 /\ opts.binFixed64 THEN Typ38Byte
             ELSE IF fixed[k] = 4 /\ opts.binFixed32 THEN Typ34Byte
             ELSE Typ3Varint
        ELSE IF k \in {"int16", "int8", "int", "uint16", "uint8", "uint", "bool"}
        THEN Typ3Varint
        ELSE "panic"

\* Positions of the fields that survive: visible and not json:"-".
Survivors(fs) == {i \in 1..Len(fs) : fs[i].name \in UpperNames
                                     /\ fs[i].jsonTag # <<"-">>}

\* The k-th surviving position.
NthSurvivor(fs, k) ==
    CHOOSE i \in Survivors(fs) :
        Cardinality({j \in Survivors(fs) : j <= i}) = k

RefOpts(f, k) ==
    [jsonName      |-> IF f.jsonTag[1] = "" THEN f.name ELSE f.jsonTag[1],
     jsonOmitEmpty |-> \E p \in DOMAIN f.jsonTag : p = 2 /\ f.jsonTag[p] = "omitempty",
     binFixed64    |-> f.binTag = "fixed64",
     binFixed32    |-> f.binTag = "fixed32",
     unsafe        |-> f.aminoTag = "unsafe",
     binFieldNum   |-> k]

\* The descriptor list: survivors numbered 1..N in declaration order; a
\* surviving float field without the unsafe opt-in, or a list of an
\* unclassifiable element, fails.
RefStructInfo(fs) ==
    LET N == Cardinality(Survivors(fs))
        bad(f) == \/ f.kind \in Floats /\ f.aminoTag # "unsafe"
                  \/ f.kind \in Lists /\ RefTyp3(f.elem, RefOpts(f, 0)) = "panic"
    IN  IF \E i \in Survivors(fs) : bad(fs[i])
        THEN "panic"
        ELSE [k \in 1..N |->
                LET i == NthSurvivor(fs, k)
                    f == fs[i]
                IN  [name |-> f.name, index |-> i - 1, kind |-> f.kind,
                     elem |-> f.elem,
                     unpackedList |-> f.kind \in Lists /\ f.elem # "uint8"
                                      /\ RefTyp3(f.elem, RefOpts(f, k))
                                           = Typ3ByteLength,
                     fopts |-> RefOpts(f, k)]]

-----------------------------------------------------------------------------
(* Properties.                                                             *)

\* parseStructInfo skips exactly the unexported and json:"-" fields,
\* numbers the rest 1..N in order (BinFieldNum), derives every option from
\* the tags, marks unpacked lists by their element's Typ3, and panics
\* exactly on an unguarded float field or an unsupported list element.
MatchesReference == ParseStructInfo(fields) = RefStructInfo(fields)

\* typeToTyp3 agrees with the Typ3 table for every kind and tag of the
\* struct's last field: the fixed64/fixed32 options widen only the integer
\* kinds of that width.
Typ3MatchesReference ==
    fields # <<>> =>
        LET f == fields[Len(fields)]
            opts == ParseFieldOptions(f).fopts
        IN  \A k \in (Kinds \cup ElemKinds) \ {"ptr"} :
                TypeToTyp3(k, opts) = RefTyp3(k, opts)

\* The encoding defines no safe representation of floats: no struct with a
\* float reachable from a surviving field (directly, through a pointer or
\* as a list element) without amino:"unsafe" is accepted by parseStructInfo.
NoUnguardedFloat ==
    LET r == ParseStructInfo(fields)
    IN  r # "panic" =>
            \A k \in DOMAIN r : (r[k].kind \in Floats \/ r[k].elem \in Floats)
                                    => r[k].fopts.unsafe

=============================================================================
