SPECIFICATION FairSpec
CONSTANTS
  s1 = s1
  s2 = s2
  Streams = {s1, s2}
  Memcpy = Memcpy
  CommandLists <- KernelLast
  WindowSize = 2
  MaxConcurrent = 2
  MaxCommands = 4
INVARIANTS
  TypeOK
  NoKernelDropped
PROPERTIES
  ImplementsStreamOrder
  AllKernelsRun
