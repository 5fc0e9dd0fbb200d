SPECIFICATION Spec
CONSTANTS
    NULL = NULL
    Stacks <- MCStacks
    Addresses <- MCAddresses
INVARIANTS ShowsTheTopmost TransitionsStay MemoryIsSound
