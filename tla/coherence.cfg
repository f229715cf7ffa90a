SPECIFICATION Spec
CONSTANTS
    Llcs = {0, 1, 2}
    Threads = {0, 1, 2}
    Addrs = {"x", "y", "z"}
    Systems <- AllSystems
INVARIANTS SingleWriter DirectoryKnowsCopies NoAssertionFails PairFresh QuietMeansServed
