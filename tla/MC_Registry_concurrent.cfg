CONSTANTS
  I1 = I1  I2 = I2  A = A  B = B  C = C  n1 = n1  n2 = n2  n3 = n3
  T1 = T1  T2 = T2
  NoInfo = NoInfo  None = None  Nil = Nil
  Interfaces = {I1, I2}
  Concretes = {A, B, C}
  Names = {n1, n2, n3}
  Threads = {T1, T2}
  FloatUnsafe = {C}
  MaxOps = 3
  RecoverPanics = TRUE
  Implements <- MCImplements
  Digest <- MCDigest
  ThreadOps <- MCThreadOpsConcurrent
SPECIFICATION Spec
INVARIANTS
  TypeOK
  NoUnresolvedConflict
  JSONRoundTrip
