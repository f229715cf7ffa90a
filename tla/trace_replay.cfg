SPECIFICATION FairSpec
CONSTANTS
  WARP_SIZE = 4
  AddrBits = 3
  StrideBits = 2
  Imms = {1, 12}
  Slots = {1, 2}
  IBufferSize = 2
  Kernels <- AllKernels
INVARIANTS
  ReplayExact
  NoEmptyWarp
PROPERTY KernelReplayed
CHECK_DEADLOCK FALSE
