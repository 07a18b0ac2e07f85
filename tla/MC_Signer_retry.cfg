CONSTANTS
    Threads = {t1}
    Data = {d1}
    Params = {1, 3, 5, 9}
    SignerParam = 1
    Nil = Nil
    MaxCalls = 2
SPECIFICATION Spec
INVARIANT
    VerdictStable
CHECK_DEADLOCK FALSE
