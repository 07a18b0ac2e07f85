-------------------------- MODULE FieldIntrospector --------------------------
(***************************************************************************)
(* The struct field introspection of src/bal/codec.go: parseStructInfo,   *)
(* parseFieldOptions, isExported, typeToTyp3 and checkUnsafe, as pure      *)
(* operators over a struct type given as the sequence of its fields.       *)
(*                                                                         *)
(* A field is a record: its name (a model value; UpperNames are the names  *)
(* whose first rune is upper case), its PkgPath, the reflect.Kind of its   *)
(* type, the kind of its element after dereferencing pointers (for arrays, *)
(* slices and pointers), and its three struct tags.  The json tag is given *)
(* as the result of strings.Split(jsonTag, ","), the only form in which    *)
(* parseFieldOptions reads it; the tag "-" is the single part <<"-">>.     *)
(* The outcome of a panic is the string "panic".                          *)
(***************************************************************************)
EXTENDS Naturals, Sequences

CONSTANT UpperNames   \* field names whose first rune is upper case

\* The Typ3 constants, by name (their numeric values 0, 1, 2, 5 are only
\* written by the opaque encoder).
Typ3Varint     == "Varint"
Typ38Byte      == "8Byte"
Typ3ByteLength == "ByteLength"
Typ34Byte      == "4Byte"

Floats == {"float32", "float64"}
Lists  == {"array", "slice"}

\* Mutant of TypeToTyp3: the fixed64 and fixed32 options swapped.
TypeToTyp3SwappedFixed(k, opts) ==
    CASE k \in {"interface", "array", "slice", "string", "struct", "map"}
              -> Typ3ByteLength
      [] k \in {"int64", "uint64"} -> IF opts.binFixed32 THEN Typ38Byte
                                      ELSE Typ3Varint
      [] k \in {"int32", "uint32"} -> IF opts.binFixed64 THEN Typ34Byte
                                      ELSE Typ3Varint
      [] k \in {"int16", "int8", "int", "uint16", "uint8", "uint", "bool"}
              -> Typ3Varint
      [] k = "float64" -> Typ38Byte
      [] k = "float32" -> Typ34Byte
      [] OTHER -> "panic"

\* typeToTyp3(rt, opts), for rt not a pointer; other kinds panic.
TypeToTyp3(k, opts) ==
    CASE k \in {"interface", "array", "slice", "string", "struct", "map"}
              -> Typ3ByteLength
      [] k \in {"int64", "uint64"} -> IF opts.binFixed64 THEN Typ38Byte
                                      ELSE Typ3Varint
      [] k \in {"int32", "uint32"} -> IF opts.binFixed32 THEN Typ34Byte
                                      ELSE Typ3Varint
      [] k \in {"int16", "int8", "int", "uint16", "uint8", "uint", "bool"}
              -> Typ3Varint
      [] k = "float64" -> Typ38Byte
      [] k = "float32" -> Typ34Byte
      [] OTHER -> "panic"

\* isExported: PkgPath empty and the first rune of the name upper case.
IsExported(f) == f.pkgPath = "" /\ f.name \in UpperNames

\* parseFieldOptions: json:"-" skips the field; otherwise the JSON name
\* (the field's own name when the first part is empty), omitempty from the
\* second part, fixed64/fixed32 from the binary tag, unsafe from the amino tag.
ParseFieldOptions(f) ==
    LET parts == f.jsonTag
    IN  [skip  |-> parts = <<"-">>,
         fopts |-> [jsonName      |-> IF parts[1] = "" THEN f.name
                                      ELSE parts[1],
                    jsonOmitEmpty |-> Len(parts) > 1 /\ parts[2] = "omitempty",
                    binFixed64    |-> f.binTag = "fixed64",
                    binFixed32    |-> f.binTag = "fixed32",
                    unsafe        |-> f.aminoTag = "unsafe",
                    binFieldNum   |-> 0]]

\* Whether an array or slice field is encoded one element per unit: its
\* element (pointers dereferenced) is not a byte and is length-delimited.
\* Outside a list the answer is "no"; an unsupported element panics.
UnpackedList(f, fopts) ==
    IF f.kind \notin Lists \/ f.elem = "uint8" THEN "no"
    ELSE CASE TypeToTyp3(f.elem, fopts) = "panic" -> "panic"
           [] TypeToTyp3(f.elem, fopts) = Typ3ByteLength -> "yes"
           [] OTHER -> "no"

\* Mutant of FieldNum: field numbers counted from 0.
FieldNumFromZero(infos) == Len(infos)

\* `fopts.BinFieldNum = uint32(len(infos) + 1)`.
FieldNum(infos) == Len(infos) + 1

\* checkUnsafe: a field of float kind without amino:"unsafe" panics.
CheckUnsafe(fi) == fi.fopts.unsafe \/ fi.kind \notin Floats

\* The loop of parseStructInfo from the i-th field on, with the FieldInfos
\* built so far.
RECURSIVE ParseFrom(_, _, _)
ParseFrom(fs, i, infos) ==
    IF i > Len(fs) THEN infos
    ELSE LET f  == fs[i]
             po == ParseFieldOptions(f)
             ul == UnpackedList(f, po.fopts)
             fi == [name |-> f.name, index |-> i - 1, kind |-> f.kind,
                    elem |-> f.elem, unpackedList |-> ul = "yes",
                    fopts |-> [po.fopts EXCEPT !.binFieldNum = FieldNum(infos)]]
         IN  CASE ~IsExported(f) \/ po.skip -> ParseFrom(fs, i + 1, infos)
               [] ul = "panic" \/ ~CheckUnsafe(fi) -> "panic"
               [] OTHER -> ParseFrom(fs, i + 1, Append(infos, fi))

\* parseStructInfo(rt) for a struct type with fields fs.
ParseStructInfo(fs) == ParseFrom(fs, 1, <<>>)

=============================================================================
