\* Requests on ten small images, and on up to three paths.
CONSTANTS
    Levels = 4
    Margin = 7
    HeaderBytes = 4
    MarkerBytes = 4
    Overhead = 2
    StripRows = 2
    ProfileLimit = 6
    EmbedICC = TRUE
    Workload <- MCWorkload
SPECIFICATION FairSpec
INVARIANTS
  EncoderInput
  HistogramUsed
  Honoured
  Aligned
  SentIntact
  PartsMatchPaths
PROPERTIES
  RequestServed
