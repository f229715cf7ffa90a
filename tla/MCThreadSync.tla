---------------------------- MODULE MCThreadSync ----------------------------
(* Instances of ThreadSync: small applications of three threads. *)
EXTENDS ThreadSync

CONSTANTS a, b    \* futex words

App(names, n, words, lengths, quanta, last) ==
    [calls |-> names \cup {"create"}, maxCalls |-> n, words |-> words, timeouts |-> lengths,
     maxTime |-> quanta, lastMayExit |-> last, joinsUnstarted |-> FALSE]

Locking == App({"lock", "trylock", "cond"}, 3, {a}, {1}, 1, TRUE)
Phases == App({"join", "barrier", "sleep"}, 3, {a}, {1}, 1, TRUE)
Waiting == App({"futex", "sleep"}, 2, {a}, {1, Never}, 2, FALSE)
Moving == App({"futex", "wakeop", "requeue"}, 2, {a, b}, {1, Never}, 1, TRUE)

AllPrograms == {Locking, Phases, Waiting, Moving}
Joining == {[App({"join"}, 2, {a}, {}, 2, TRUE) EXCEPT !.joinsUnstarted = TRUE]}
=============================================================================
