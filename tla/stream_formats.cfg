SPECIFICATION Spec
CONSTANTS
    Names = {1, 2}
    ClassicValues <- Classic
    ManagedValues <- DotNet
    MaxOps = 2
INVARIANTS TypeOK ReadBack OwnValues InStep
