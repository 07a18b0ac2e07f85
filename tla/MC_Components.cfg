CONSTANTS
    Bytes = {0, 1, 2}
    MaxDigestLen = 9
    UpperNames = {"Up"}
    FieldNames = {"Up", "low"}
    Kinds = {"int64", "int32", "bool", "float64", "string", "struct", "slice", "ptr"}
    ElemKinds = {"uint8", "float32", "struct", "int32", "func"}
    JSONTags <- MCJSONTags
    BinTags = {"", "fixed64", "fixed32"}
    AminoTags = {"", "unsafe"}
    MaxFields = 2
    Params = {1, 3, 5, 9}
    Nil = Nil
    Zones <- MCZones
    ReceiptsIn <- MCReceiptsIn
    MinLen = 1
    MaxLen = 3
    BlockSize = 2
    ByteMax = 3
    Keys = {0, 1, 2}
    ValidKeys = {1, 2}
    MaxCap = 3
    MaxCipher = 4
    Slots = {s1, s2}
    Secrets = {k1, k2}
    Zero = Zero
    ValidSecp = {k1}
    ValidGM = {k1, k2, Zero}
    SigLens = {0, 64, 65, 66}
    Hashes = {h1, h2}
    VBytes = {0, 1, 8, 27}
    MaxSigLen = 66
    Order = 5
    BadPoints = {bad}
    NilBytes = NilBytes
SPECIFICATION Spec
INVARIANTS
    DisfixMatchesReference
    FieldsMatchReference
    Typ3MatchesReference
    ListHashShape
    
    AESRoundTrip
    KeysTypeOK
    SignMatchesPubKey
    SignedIsRecoverable
    DispatchConsistent
    SignedVerifies
    SignatureValuesSound
    KeyRecovery
CHECK_DEADLOCK FALSE
