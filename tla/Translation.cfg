SPECIFICATION Spec
CONSTANTS
    Builtins <- MCBuiltins
    IncludeName <- MCIncludeName
    IncludePath <- MCIncludePath
    MaxIncludeDepth = 15
    CollapseAbove = 3
    Jobs <- MCJobs
    ToolResults <- MCToolResults
INVARIANTS
    GroupsAreKept
    ExpandsByTheRules
    LinesAreKept
    BuildsWhatWasAsked
    UnitsStandAlone
