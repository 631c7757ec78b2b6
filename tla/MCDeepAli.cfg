CONSTANTS
  P = 241
  Beta = 11
  Cap = 256
  Native = 61703
  MaxQuotient = 255
  PerCell = 2
  Regs <- MCRegs
  ComboBegin <- MCComboBegin
  ComboTaps <- MCComboTaps
  Block <- MCBlock
  Rets <- MCRets
  Po2 = 2
  BackOne = 177
  Gen = 44
  Fold = 4
  Rounds = 1
  Traces <- MCTraces
  AccumReg = 1
  AccumTraces <- MCAccumTraces
  GlobalsOut <- MCGlobals
  Sums <- MCSums
SPECIFICATION Spec
INVARIANTS
  TypeOK
  DrawnIsSqueezed
  MixIsSum
  EquationHolds
  Sound
  Bound
  DigestBinds
  Complete
CHECK_DEADLOCK FALSE
