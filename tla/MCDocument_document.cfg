SPECIFICATION Spec
CONSTANTS
    NULL = NULL
    KeyOrder <- MCKeyOrder
    Jobs <- MCJobs
    Keys = {"a", "z"}
INVARIANTS CopyIsSame EquivalentIffSame WritingIsSound OlderVersionKeeps NothingStaleIsRead ReadIsWhole
