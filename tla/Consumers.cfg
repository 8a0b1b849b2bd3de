SPECIFICATION Spec
CONSTANTS
  Callers = {1, 2}
  Subject = {1, 2, 3}
  MaxConcurrentSubjects = 2
  MaxLoops = 3
  MaxCalls = 3
  MaxStarts = 3
  MaxUses = 3
  Key = {1, 2}
  MaxMsg = 3
  MaxWorkers = 3
  ChannelBuf = 1
INVARIANTS MapMatchesLoops FIFOWithinKey
PROPERTIES StopIsTerminal AcceptedIsHandled
