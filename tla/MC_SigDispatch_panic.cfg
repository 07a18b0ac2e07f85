CONSTANTS
    SigLens = {0, 64, 65, 66}
SPECIFICATION Spec
INVARIANT
    EcrecoverTotal
