CONSTANTS
  UpperNames = {"Up"}
  FieldNames = {"Up", "low"}
  Kinds = {"int64", "int32", "bool", "float64", "string", "struct", "slice", "ptr"}
  ElemKinds = {"uint8", "float32", "struct", "int32", "func"}
  JSONTags <- MCJSONTags
  BinTags = {"", "fixed64", "fixed32"}
  AminoTags = {"", "unsafe"}
  MaxFields = 2
SPECIFICATION Spec
INVARIANTS
  NoUnguardedFloat
