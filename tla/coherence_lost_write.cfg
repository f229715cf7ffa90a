SPECIFICATION Spec
CONSTANTS
    Llcs = {0, 1, 2}
    Threads = {0, 1, 2}
    Addrs = {"x"}
    Systems <- OneSystem
INVARIANT CopiesFresh
