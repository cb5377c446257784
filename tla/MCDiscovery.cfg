SPECIFICATION MCSpec
CONSTANTS
    Machines <- MCMachines
    Loops = {0, 1, 2, 3}
INVARIANT ListedEntriesAreWhole
PROPERTY ImplementsBootMenu
