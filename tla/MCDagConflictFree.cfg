\* Three intents that meet on two accounts.
CONSTANTS
    NodeCount = 3
    Accounts = {a1, a2}
    Priorities = {0, 1}
SPECIFICATION Spec
SYMMETRY AccountSymmetry
INVARIANT
    LayersAreConflictFree
