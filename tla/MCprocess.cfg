CONSTANTS
  sent = sent
  attempts = attempts
  s = s
  p = p
  Tick = Tick
  Loop = Loop
  Thread = {s, p, Tick, Loop}
  Owner = {s, p, Tick, Loop}
  Job = {s, p}
  PollerJob = {p}
  Key = {sent}
  Instrument = {attempts}
  Name <- OneName
  MaxCount = 2
  NoThread = NoThread
  NoKey = NoKey
  PoolSize = 2
SPECIFICATION FairSpec
INVARIANTS TypeOK ExportsConserved NoSessionLeft WaitsForThread
PROPERTIES Tally LoopComesBack ShutdownEnds
