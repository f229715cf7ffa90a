--------------------------- MODULE MCTraceReplay ---------------------------
(* Instances of TraceReplay: every instruction by itself, and small kernels. *)
EXTENDS TraceReplay

NoAddrs == [s \in Lanes |-> 0]
Plain(imm) == [op |-> "DEPBAR", is_mem |-> FALSE, mask |-> Lanes, addrs |-> NoAddrs, imm |-> imm]
At(mask, a) == [s \in Lanes |-> IF s \in mask THEN a + s ELSE 0]
Load(mask) == [op |-> "LDG", is_mem |-> TRUE, mask |-> mask, addrs |-> At(mask, 2), imm |-> 0]
Copy(mask, a) == [op |-> "LDGSTS", is_mem |-> TRUE, mask |-> mask, addrs |-> At(mask, a),
                  shared |-> At(mask, 0), imm |-> 0]

(* Inactive lanes have no addresses. *)
Accesses == UNION {{[op |-> "LDG", is_mem |-> TRUE, mask |-> m, imm |-> 12,
                     addrs |-> [s \in Lanes |-> IF s \in m THEN f[s] ELSE 0]] :
                       f \in [m -> Words]} : m \in SUBSET Lanes}

Kernel(code, compress, lineinfo) ==
  [blocks |-> Len(code), warps |-> Len(code[1]), code |-> code,
   compress |-> compress, lineinfo |-> lineinfo]

(* Uncompressed addresses are printed one by one, whatever they are. *)
Single == {Kernel(<< << <<i>> >> >>, TRUE, FALSE) : i \in Accesses}
          \cup {Kernel(<< << <<i>> >> >>, c, FALSE) :
                   i \in {Load(m) : m \in SUBSET Lanes} \cup {Plain(n) : n \in Imms}, c \in BOOLEAN}

(* Pairs of LDGSTS lines of two warps and two blocks, interleaved. *)
Grouping == Kernel(<< << <<Copy(Lanes, 1), Plain(1)>>, <<Load({1})>> >>,
                      << <<Plain(12)>>, <<Copy({0}, 2), Copy({1}, 3)>> >> >>, TRUE, FALSE)
(* More blocks than slots, of different lengths. *)
Reuse == Kernel(<< << <<Load({0}), Plain(1)>> >>, << <<Copy(Lanes, 3)>> >>, << <<Plain(1), Load({1})>> >> >>,
                TRUE, FALSE)
Lines == Kernel(<< << <<Load({0, 1}), Plain(12)>> >>, << <<Plain(1)>> >> >>, FALSE, TRUE)

AllKernels == Single \cup {Grouping, Reuse, Lines}

(* Line numbers and LDGSTS do not go together: README, section 4. *)
CopyWithLines == {Kernel(<< << <<Copy(Lanes, 1)>> >> >>, TRUE, TRUE)}
(* A warp of which nothing was recorded. *)
EmptyWarp == {Kernel(<< << <<Plain(1)>>, << >> >> >>, TRUE, FALSE)}
=============================================================================
