SPECIFICATION Spec
CONSTANTS
    Platforms <- MCPlatforms
    Files <- MCFiles
\* An object that was not constructed takes no calls.
CHECK_DEADLOCK FALSE
INVARIANTS InfoInv OpenedAsWhatItIs
