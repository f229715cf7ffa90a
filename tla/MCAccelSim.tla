------------------------------- MODULE MCAccelSim -------------------------------
(***************************************************************************)
(* Small instances of AccelSim: every command list up to a length over two *)
(* streams and copies.  Lists that end in a copy are kept apart: on those  *)
(* the assertion in cleanup fails.                                         *)
(***************************************************************************)
EXTENDS AccelSim

CONSTANT MaxCommands      \* bound on the length of a command list

AnyList == UNION {[1 .. n -> Streams \cup {Memcpy}] : n \in 1 .. MaxCommands}
KernelLast == {l \in AnyList : l[Len(l)] # Memcpy}
=============================================================================
