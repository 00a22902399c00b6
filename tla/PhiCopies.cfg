CONSTANTS
  Labels = {"p", "q"}
  MaxCopies = 4
  VRegs = 4
  Consts = {7}
  Inputs <- MCInputs
SPECIFICATION FairSpec
INVARIANTS TypeOK ParallelSemantics OneTempPerCycle TempsUnshared
PROPERTY Terminates
