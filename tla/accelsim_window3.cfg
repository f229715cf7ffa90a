SPECIFICATION FairSpec
CONSTANTS
  s1 = s1
  s2 = s2
  Streams = {s1, s2}
  Memcpy = Memcpy
  CommandLists <- KernelLast
  WindowSize = 3
  MaxConcurrent = 3
  MaxCommands = 4
INVARIANT NoKernelDropped
