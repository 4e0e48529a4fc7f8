SPECIFICATION LifeSpec
CONSTANTS
  ok = ok
  crash = crash
  hang = hang
  Inputs <- AllInputs
  NoInput = NoInput
  Behaviour <- AllBehaviours
  Pids = {p1, p2}
  NoPid = NoPid
  Persistent = {TRUE, FALSE}
  Cycles = 2
  KillSignal = "KILL"
  Confs <- AllConfs
  Bins = {"main", "san", "cmplog"}
  MAP_SIZE = 4
  DEFAULT_SHMEM_SIZE = 12
  Unit = 2
  IjonMap = 2
  IjonBytes = 2
INVARIANTS NoneLeftBehind StartedRight RefusedForCause
PROPERTIES AnswersItsRequest RunReturns StartupEnds
