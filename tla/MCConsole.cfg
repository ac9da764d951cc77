SPECIFICATION Spec
CONSTANTS
    Rows = 3
    Cols = 4
    Prompt <- PromptGlyphs
    LeftEnd = 2
    BufSize = 3
    MaxRaced = 2
    MaxLeft = 2
    Outputs <- LineOutputs
INVARIANTS TypeOK LineShown NothingBehind
PROPERTY LeftEndKept
