CONSTANTS
  IntBits = 5
  MAXARG_C = 7
  MAXARG_Bx = 31
  MAXARG_vC = 3
  MAXINDEXRK = 1
  MAX_FSTACK = 84
  StackSize = 60
  Fuel = 100
  Programs <- MCPrograms
  Code <- MCCode
  Expected <- MCMeaning
  Globals <- MCGlobals
SPECIFICATION Spec
INVARIANTS CompiledMeansProgram CodeIsWellFormed OpenUpvaluesAreLive
CHECK_DEADLOCK FALSE
