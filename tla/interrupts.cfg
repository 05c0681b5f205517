SPECIFICATION Spec
CONSTANTS
    Programs <- MCPrograms
    Vector <- MCVector
    MaxWait = 2
    MaxStall = 20
    Lines = {l1}
    WRAP = 32
    PERIOD = 16
    SETS = 2
    LINE = 2
INVARIANTS CoreTypeOK OwnInstruction NothingBetween HandlerOrder InterruptOnce PipelineRuns
PROPERTIES ImplementsCore
