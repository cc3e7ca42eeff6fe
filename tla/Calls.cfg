SPECIFICATION Spec
CONSTANTS
    c1 = c1
    c2 = c2
    r1 = r1
    Call <- Calls
    Root <- Roots
    None = None
    Noop = Noop
    Anyone = Anyone
    Operations <- AllOperations
    Unbound <- UnboundOperations
    Forgetful <- ForgetfulOperations
    Guarded <- GuardedOperations
    ErrorsOnly <- ErrorsOnlyOperations
    Quiet <- QuietOperations
CHECK_DEADLOCK FALSE
INVARIANTS CallersContext  SilentUpload
SYMMETRY Symmetric
