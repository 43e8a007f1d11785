\* Encoded tiles whose buffer grows more than once.
CONSTANTS
    Levels = 4
    Margin = 7
    HeaderBytes = 4
    MarkerBytes = 4
    Overhead = 2
    StripRows = 2
    ProfileLimit = 6
    EmbedICC = TRUE
    Workload <- MCWorkload
SPECIFICATION Spec
CHECK_DEADLOCK TRUE
INVARIANTS
    EncodedIntact
