SPECIFICATION Spec
CONSTANTS
    Builtins <- MCBuiltins
    IncludeName <- MCIncludeName
    IncludePath <- MCIncludePath
    MaxIncludeDepth = 15
    CollapseAbove = 3
    Jobs <- MCCommands
    ToolResults <- MCToolResults
INVARIANTS
    SuccessMeansBuilt
