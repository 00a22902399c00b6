CONSTANTS
  Args <- MCArgs
  Texts <- MCTexts
  Outputs <- MCOutputs
  DefaultProcessor <- MCDefault
  U8Max = 3
  I64Max = 7
  DEFAULT_MEMORY_SIZE = 4
SPECIFICATION FairSpec
INVARIANTS OnlyVerifiedText ExitTellsTheTruth RoundTrip TextStable EmitAccepted
PROPERTY Terminates
