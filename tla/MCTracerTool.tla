---------------------------- MODULE MCTracerTool ----------------------------
(* Instances of TracerTool: each environment comes with the bounds on the      *)
(* program that is traced under it.                                          *)
EXTENDS TracerTool

(* Instruction "s" of a kernel "a" is a spinlock. *)
SpinA == [n \in Names |-> IF n = "a" THEN {"s"} ELSE {}]

Everything == {[start |-> 0, end |-> 0, names |-> Names]}
FirstOnly == {[start |-> 1, end |-> 1, names |-> Names]}
(* "1-1 3-3" and "2-@a". *)
TwoRanges == {[start |-> 1, end |-> 1, names |-> Names],
              [start |-> 3, end |-> 3, names |-> Names]}
NamedRange == {[start |-> 2, end |-> 0, names |-> {"a"}]}

(* Kernels that push several records of two warps, up to a kernel limit. *)
Records == [ranges |-> FirstOnly, fromStart |-> TRUE, terminate |-> TRUE,
            kernels |-> 2, records |-> 3, graphs |-> 0]
(* Regions that open and close. *)
Regions == [ranges |-> TwoRanges, fromStart |-> TRUE, terminate |-> TRUE,
            kernels |-> 4, records |-> 1, graphs |-> 0]
Named == [ranges |-> NamedRange, fromStart |-> TRUE, terminate |-> FALSE,
          kernels |-> 3, records |-> 1, graphs |-> 0]
(* Graph launches, with tracing switched by cuProfilerStart and Stop. *)
Graphs == [ranges |-> Everything, fromStart |-> FALSE, terminate |-> FALSE,
           kernels |-> 2, records |-> 1, graphs |-> 2]

AllEnvironments == {Records, Regions, Named, Graphs}
=============================================================================
