SPECIFICATION Spec
CONSTANTS
    Plugin <- Plugins
    Instr <- Instrs
    Module <- Modules
    Core <- CoreOnes
    Owner <- Owners
    Wants <- Wanted
CHECK_DEADLOCK FALSE
INVARIANTS TypeOK WrappedOnce NothingLeft SeenIsPatched
PROPERTIES FailsAlone
