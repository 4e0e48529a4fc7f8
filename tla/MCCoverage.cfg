SPECIFICATION Spec
CONSTANTS
  e1 = e1
  e2 = e2
  None = None
  Edges = {e1, e2}
  Traces <- MCTraces
  Settings <- MCSettings
  CalCycles = 1
  CalCyclesLong = 2
  CalChances = 2
  KeepHang = 1
  KeepCrash = 2
  MaxFinds = 1
INVARIANTS
  SeenIsShown
  FaultsKept
  TracesRepresented
