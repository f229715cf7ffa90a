----------------------------- MODULE TraceReplay -----------------------------
(***************************************************************************)
(* A kernel from its execution on a GPU to its replay by a simulated core: *)
(* the tracer's receive thread writes one line per record in the order the *)
(* warps happened to push them (tracer_tool.cu, recv_thread_fun), the      *)
(* post-processing regroups the lines by thread block and warp             *)
(* (post-traces-processing.cpp, group_per_block), the parser hands one     *)
(* block after the other to the blocks that start on the core              *)
(* (trace_parser.cc, get_next_threadblock_traces) and the core's warps     *)
(* step through them (trace_driven.cc).  What a line says is TraceCodec's. *)
(*                                                                         *)
(* An instruction that copies from global to shared memory (LDGSTS) has    *)
(* two memory references and is recorded twice, the shared address first.  *)
(***************************************************************************)
EXTENDS TraceCodec

CONSTANTS
  Kernels,      \* what may be traced: the code every warp executes, and the tracer's options
  Slots,        \* blocks the core has room for
  IBufferSize   \* bound: instructions of a warp between fetch and completion

ASSUME ReplayAssumption ==
  /\ IBufferSize \in Nat \ {0}
  /\ \A k \in Kernels : /\ {k.compress, k.lineinfo} \subseteq BOOLEAN
                        /\ k.blocks \in Nat \ {0} /\ k.warps \in Nat \ {0}

VARIABLES
  kernel,       \* the kernel and the options it is traced with
  left,         \* of every block and warp: the records not yet in the trace file
  trace,        \* the lines of the trace file; removed by run_hw_trace.py once grouped
  traceg,       \* the sections of the grouped file that have not been read
  grouped,      \* whether post-processing has run
  issued,       \* blocks of the grid that have started on the core
  slot,         \* what each slot of the core holds
  replayed,     \* history: what every block's warps fetched so far
  completed,    \* blocks that have ended
  failed        \* an assertion of the simulator failed

vars == <<kernel, left, trace, traceg, grouped, issued, slot, replayed, completed, failed>>

Blocks == 1 .. kernel.blocks       \* in the order of tb_id; x runs fastest
Warps == 1 .. kernel.warps

\* A warp's part of a slot: trace_shd_warp_t, and what the pipeline still holds.
Warp(traces) == [traces |-> traces, trace_pc |-> 0, inPipeline |-> 0, exited |-> FALSE]
Free == [block |-> 0, warps |-> << >>]

-----------------------------------------------------------------------------
(* The tracer *)

\* The records of one instruction: instrument_inst is called once for every
\* memory reference, for LDGSTS with reference 0 and then with reference 1.
Records(inst) ==
  IF inst.op = "LDGSTS" THEN <<[inst EXCEPT !.addrs = inst.shared], inst>> ELSE <<inst>>

RecordsOf(code) == FlattenSeq([i \in DOMAIN code |-> Records(code[i])])

Init ==
  /\ kernel \in Kernels
  /\ left = [b \in Blocks |-> [w \in Warps |-> RecordsOf(kernel.code[b][w])]]
  /\ trace = << >> /\ traceg = << >> /\ grouped = FALSE
  /\ issued = 0
  /\ slot = [s \in Slots |-> Free]
  /\ replayed = [b \in Blocks |-> [w \in Warps |-> << >>]]
  /\ completed = {} /\ failed = FALSE

\* The next record of some warp reaches the receive thread.
Line(b, w, r) == [block |-> b, warp |-> w, op |-> r.op, mask |-> r.mask,
                  tokens |-> Dump(r, kernel.compress)]

recv_thread(b, w) ==
  /\ left[b][w] # << >>
  /\ trace' = Append(trace, Line(b, w, Head(left[b][w])))
  /\ left' = [left EXCEPT ![b][w] = Tail(@)]
  /\ UNCHANGED <<kernel, traceg, grouped, issued, slot, replayed, completed, failed>>

-----------------------------------------------------------------------------
(* The post-processing *)

\* The opcode is looked for after two tokens, a number of destinations and
\* the destinations.  With line numbers the tokens are one further: the mask
\* is read as the number of destinations, and only that of lane 0 alone, 1,
\* leads to the opcode (an LDGSTS has no destination).
SeenAsLdgsts(l) == l.op = "LDGSTS" /\ (kernel.lineinfo => l.mask = {0})

\* Mutant: the flag is never turned over.
LeftOutAlways(lines, i) == SeenAsLdgsts(lines[i])

\* Of the lines of a warp seen as LDGSTS every other one is left out (ldgsts_flags).
LeftOut(lines, i) ==
  /\ SeenAsLdgsts(lines[i])
  /\ Cardinality({j \in 1 .. i : SeenAsLdgsts(lines[j])}) % 2 = 1


LinesOf(b, w) == SelectSeq(trace, LAMBDA l : l.block = b /\ l.warp = w)

WarpInsts(b, w) ==
  LET lines == LinesOf(b, w)
      kept == SetToSortSeq({i \in DOMAIN lines : ~ LeftOut(lines, i)}, <)
  IN  [k \in DOMAIN kept |-> lines[kept[k]]]

\* A block of which the trace has no line has no section.
Initialized == {b \in Blocks : \E i \in DOMAIN trace : trace[i].block = b}

group_per_block ==
  /\ \A b \in Blocks, w \in Warps : left[b][w] = << >>
  /\ ~ grouped /\ grouped' = TRUE
  /\ LET tbs == SetToSortSeq(Initialized, <)
     IN  traceg' = [n \in DOMAIN tbs |-> [w \in Warps |-> WarpInsts(tbs[n], w)]]
  /\ trace' = << >>
  /\ UNCHANGED <<kernel, left, issued, slot, replayed, completed, failed>>

-----------------------------------------------------------------------------
(* The simulator *)

Parsed(l) ==
  [op |-> l.op, mask |-> l.mask, addrs |-> Parse(l.tokens, l.mask).addrs,
   imm |-> Parse(l.tokens, l.mask).imm]

\* The warps of the block that starts get the next section of the file,
\* whatever block it is of; at the end of the file they stay empty.
NextSection ==
  IF traceg = << >> THEN [w \in Warps |-> << >>]
  ELSE [w \in Warps |-> [i \in DOMAIN Head(traceg)[w] |-> Parsed(Head(traceg)[w][i])]]

\* Mutant: clear() forgets the cursor.
LoadedNotRewound(s) ==
  [w \in Warps |-> [Warp(NextSection[w]) EXCEPT !.trace_pc =
     IF slot[s].warps = << >> THEN 0 ELSE slot[s].warps[w].trace_pc]]

\* clear() and get_next_threadblock_traces, for the warps of slot s.
Loaded(s) == [w \in Warps |-> Warp(NextSection[w])]

\* init_warps of the next block of the grid.  get_start_trace_pc asserts that
\* every warp has an instruction.
init_traces(s) ==
  /\ grouped /\ ~ failed
  /\ slot[s].block = 0 /\ issued < kernel.blocks
  /\ issued' = issued + 1
  /\ slot' = [slot EXCEPT ![s] = [block |-> issued + 1, warps |-> Loaded(s)]]
  /\ traceg' = IF traceg = << >> THEN << >> ELSE Tail(traceg)
  /\ failed' = \E w \in Warps : NextSection[w] = << >>
  /\ UNCHANGED <<kernel, left, trace, grouped, replayed, completed>>

\* get_next_inst while the warp has instructions left; get_next_trace_inst
\* returns the one at the cursor and moves the cursor on.
get_next_trace_inst(s, w) ==
  /\ slot[s].block # 0 /\ ~ failed
  /\ LET warp == slot[s].warps[w]
     IN  /\ warp.trace_pc < Len(warp.traces)
         /\ warp.inPipeline < IBufferSize
         /\ slot' = [slot EXCEPT ![s].warps[w].trace_pc = @ + 1,
                                 ![s].warps[w].inPipeline = @ + 1]
         /\ replayed' = [replayed EXCEPT ![slot[s].block][w] =
                           Append(@, warp.traces[warp.trace_pc + 1])]
  /\ UNCHANGED <<kernel, left, trace, traceg, grouped, issued, completed, failed>>

\* An instruction of the warp leaves the pipeline, its stores and writes done.
Complete(s, w) ==
  /\ slot[s].block # 0 /\ ~ failed /\ slot[s].warps[w].inPipeline > 0
  /\ slot' = [slot EXCEPT ![s].warps[w].inPipeline = @ - 1]
  /\ UNCHANGED <<kernel, left, trace, traceg, grouped, issued, replayed, completed, failed>>

trace_done(warp) == warp.trace_pc = Len(warp.traces)

\* Mutant: the warp waits for the end before it looks at the pipeline.
MayExitOnce(warp) == trace_done(warp) /\ warp.inPipeline = 1

\* get_next_inst at the end of the traces: with nothing of the warp in the
\* pipeline its threads are set completed.
MayExit(warp) == trace_done(warp) /\ warp.inPipeline = 0

WarpExits(s, w) ==
  /\ slot[s].block # 0 /\ ~ failed
  /\ ~ slot[s].warps[w].exited /\ MayExit(slot[s].warps[w])
  /\ slot' = [slot EXCEPT ![s].warps[w].exited = TRUE]
  /\ UNCHANGED <<kernel, left, trace, traceg, grouped, issued, replayed, completed, failed>>

\* All threads of the block have ended; the warps keep their traces and
\* cursors until the slot is used again.
BlockEnds(s) ==
  /\ slot[s].block # 0 /\ ~ failed
  /\ \A w \in Warps : slot[s].warps[w].exited
  /\ completed' = completed \cup {slot[s].block}
  /\ slot' = [slot EXCEPT ![s].block = 0]
  /\ UNCHANGED <<kernel, left, trace, traceg, grouped, issued, replayed, failed>>

-----------------------------------------------------------------------------
Tracer == \E b \in Blocks, w \in Warps : recv_thread(b, w)

Core == \E s \in Slots :
  \/ init_traces(s)
  \/ \E w \in Warps : get_next_trace_inst(s, w) \/ Complete(s, w) \/ WarpExits(s, w)
  \/ BlockEnds(s)

Next == Tracer \/ group_per_block \/ Core

Spec == Init /\ [][Next]_vars

\* The receive thread goes on, then the post-processing, then the core is
\* clocked; no two of them have a step at the same time.
FairSpec == Spec /\ WF_vars(Next)

-----------------------------------------------------------------------------
(* Properties *)

\* What is replayed of an instruction: its active lanes, with the addresses
\* in global memory, and the immediate where it has one.  Immediates on lines
\* with addresses are not all read back: README, section 4.
SameInst(inst, p) ==
  /\ p.op = inst.op /\ p.mask = inst.mask
  /\ IF inst.is_mem THEN p.addrs = inst.addrs ELSE p.imm = inst.imm

\* Every warp of a block replays what the warp of that number in that block of
\* the traced program executed, in that order, each instruction once with its
\* addresses, and a block that has ended has replayed all of it: whatever
\* order the records were pushed in, whatever format a line has and whatever
\* the slot held before (recv_thread_fun to get_next_trace_inst).
ReplayExact ==
  \A b \in Blocks, w \in Warps :
    LET code == kernel.code[b][w]
        seen == replayed[b][w]
    IN  /\ Len(seen) <= Len(code)
        /\ \A i \in DOMAIN seen : SameInst(code[i], seen[i])
        /\ b \in completed => Len(seen) = Len(code)

\* No block starts with an empty warp (get_start_trace_pc): the grouped file
\* has a section for every block of the grid and lines for each of its warps.
NoEmptyWarp == ~ failed

\* Every block of the kernel ends: no warp waits for ever for its traces or
\* for the pipeline, and slots are used again (get_next_inst).
KernelReplayed == <>(completed = Blocks)

\* Immediates on the lines of memory instructions.  Not so, see README, section 4.
ImmediatesReplayed ==
  \A b \in Blocks, w \in Warps : \A i \in DOMAIN replayed[b][w] :
    replayed[b][w][i].imm = kernel.code[b][w][i].imm
=============================================================================
