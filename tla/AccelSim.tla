-------------------------------- MODULE AccelSim --------------------------------
(***************************************************************************)
(* The trace-driven front end of Accel-Sim (gpu-simulator/accel-sim.cc):   *)
(* simulation_loop with the functions it calls.  It reads commands into a  *)
(* window of kernels, launches those whose stream is free, lets the GPU    *)
(* model run until a kernel ends, and cleans up.                           *)
(*                                                                         *)
(* The GPU model, GPGPU-Sim, is a submodule and external: it is described  *)
(* by what the calls of accel-sim.cc can observe of it.  A kernel is named *)
(* by its position in the command list, which serves as its uid.           *)
(***************************************************************************)
EXTENDS Naturals, SequencesExt

CONSTANTS
  Streams,        \* CUDA streams
  Memcpy,         \* marks a host-to-device copy in a command list
  CommandLists,   \* the command lists considered
  WindowSize,     \* window_size
  MaxConcurrent   \* the GPU's limit of concurrent kernels

ASSUME CommandAssumption ==
  /\ Memcpy \notin Streams
  /\ CommandLists \subseteq Seq(Streams \cup {Memcpy})

\* accel_sim_framework::init: the GPU's limit with -gpgpu_concurrent_kernel_sm,
\* one kernel at a time without.
ASSUME WindowAssumption ==
  /\ MaxConcurrent \in Nat \ {0}
  /\ WindowSize \in {1, MaxConcurrent}

VARIABLES
  \* accel_sim_framework
  pc,                 \* where simulation_loop is
  commandlist,        \* for each command, its stream, or Memcpy
  commandlist_index,  \* the next command to read
  kernels_info,       \* the window: kernels read and not yet cleaned up
  was_launched,       \* the kernels with their launched flag set
  busy_streams,       \* streams with a launched kernel; never pushed twice
  cursor,             \* position of the launch loop, then of the cleanup loop
  seen,               \* cleanup: the variable k is not NULL
  finished_uid,       \* simulate's result; 0 for none
  \* the GPU
  running,            \* kernels it executes
  finished_list,      \* kernels it completed and has not reported
  draining,           \* memory traffic outlives the kernels
  max_hit,            \* cycle_insn_cta_max_hit
  \* history variables, read only by the properties
  done,               \* kernels the GPU completed
  erased              \* kernels cleanup removed from the window

frontEnd == <<commandlist, commandlist_index, kernels_info, was_launched, busy_streams>>
loopVars == <<cursor, seen, finished_uid>>
gpu      == <<running, finished_list, draining, max_hit>>
ghosts   == <<done, erased>>
vars     == <<pc, frontEnd, loopVars, gpu, ghosts>>

Locations == {"loop", "parse", "launch", "simulate", "cleanup", "after", "exit", "abort"}
Kernels == {k \in DOMAIN commandlist : commandlist[k] # Memcpy}
Stream(k) == commandlist[k]

Init ==
  /\ pc = "loop"
  /\ commandlist \in CommandLists
  /\ commandlist_index = 1
  /\ kernels_info = << >>
  /\ was_launched = {} /\ busy_streams = {}
  /\ cursor = 1 /\ seen = FALSE /\ finished_uid = 0
  /\ running = {} /\ finished_list = {} /\ draining = FALSE /\ max_hit = FALSE
  /\ done = {} /\ erased = {}

-----------------------------------------------------------------------------
(* The GPU *)

active == ~ max_hit /\ (running # {} \/ draining)

can_start_kernel == Cardinality(running) < MaxConcurrent

-----------------------------------------------------------------------------
(* simulation_loop's condition *)

MoreCommands == commandlist_index <= Len(commandlist)

EnterLoop ==
  /\ pc = "loop"
  /\ MoreCommands \/ kernels_info # << >>
  /\ pc' = "parse"
  /\ UNCHANGED <<frontEnd, loopVars, gpu, ghosts>>

LeaveLoop ==
  /\ pc = "loop"
  /\ ~ MoreCommands /\ kernels_info = << >>
  /\ pc' = "exit"
  /\ UNCHANGED <<frontEnd, loopVars, gpu, ghosts>>

-----------------------------------------------------------------------------
(* parse_commandlist *)

\* Mutant: one kernel more than the window holds.
WindowOpenLate == Len(kernels_info) <= WindowSize /\ MoreCommands

WindowOpen == Len(kernels_info) < WindowSize /\ MoreCommands

\* perf_memcpy_to_gpu warms the caches at once and leaves nothing running.
ParseMemcpy ==
  /\ pc = "parse"
  /\ WindowOpen
  /\ commandlist[commandlist_index] = Memcpy
  /\ commandlist_index' = commandlist_index + 1
  /\ UNCHANGED <<pc, commandlist, kernels_info, was_launched, busy_streams,
                 loopVars, gpu, ghosts>>

ParseKernel ==
  /\ pc = "parse"
  /\ WindowOpen
  /\ commandlist[commandlist_index] # Memcpy
  /\ kernels_info' = Append(kernels_info, commandlist_index)
  /\ commandlist_index' = commandlist_index + 1
  /\ UNCHANGED <<pc, commandlist, was_launched, busy_streams, loopVars, gpu, ghosts>>

ParseDone ==
  /\ pc = "parse"
  /\ ~ WindowOpen
  /\ pc' = "launch"
  /\ cursor' = 1
  /\ UNCHANGED <<frontEnd, seen, finished_uid, gpu, ghosts>>

-----------------------------------------------------------------------------
(* The launch loop *)

\* Mutant: the busy streams are not consulted.
CanLaunchAnyStream(k) == can_start_kernel /\ k \notin was_launched

CanLaunch(k) ==
  /\ Stream(k) \notin busy_streams
  /\ can_start_kernel
  /\ k \notin was_launched

LaunchKernel ==
  /\ pc = "launch"
  /\ cursor <= Len(kernels_info)
  /\ CanLaunch(kernels_info[cursor])
  /\ running' = running \cup {kernels_info[cursor]}
  /\ was_launched' = was_launched \cup {kernels_info[cursor]}
  /\ busy_streams' = busy_streams \cup {Stream(kernels_info[cursor])}
  /\ cursor' = cursor + 1
  /\ UNCHANGED <<pc, commandlist, commandlist_index, kernels_info, seen,
                 finished_uid, finished_list, draining, max_hit, ghosts>>

PassKernel ==
  /\ pc = "launch"
  /\ cursor <= Len(kernels_info)
  /\ ~ CanLaunch(kernels_info[cursor])
  /\ cursor' = cursor + 1
  /\ UNCHANGED <<pc, frontEnd, seen, finished_uid, gpu, ghosts>>

LaunchDone ==
  /\ pc = "launch"
  /\ cursor > Len(kernels_info)
  /\ pc' = "simulate"
  /\ UNCHANGED <<frontEnd, loopVars, gpu, ghosts>>

-----------------------------------------------------------------------------
(* simulate *)

EnterCleanup ==
  /\ pc' = "cleanup"
  /\ cursor' = 1
  /\ seen' = FALSE

\* Nothing to simulate: the loop ends at once, with no kernel reported even
\* if the GPU still holds one it completed.
SimulateInactive ==
  /\ pc = "simulate"
  /\ ~ active
  /\ finished_uid' = 0
  /\ EnterCleanup
  /\ UNCHANGED <<frontEnd, gpu, ghosts>>

\* One cycle: any of the running kernels complete, memory may stay busy, the
\* limit on cycles or instructions may be reached; then one completed kernel
\* is asked for.  The loop goes on while the GPU is active and reports none.
SimulateCycle ==
  /\ pc = "simulate"
  /\ active
  /\ \E F \in SUBSET running :
       /\ running' = running \ F
       /\ done' = done \cup F
       /\ LET reports == finished_list \cup F
          IN  IF reports = {}
              THEN finished_uid' = 0 /\ finished_list' = {}
              ELSE \E uid \in reports :
                     finished_uid' = uid /\ finished_list' = reports \ {uid}
  /\ draining' \in BOOLEAN
  /\ max_hit' \in BOOLEAN
  /\ IF active' /\ finished_uid' = 0
     THEN UNCHANGED <<pc, cursor, seen>>
     ELSE EnterCleanup
  /\ UNCHANGED <<frontEnd, erased>>

-----------------------------------------------------------------------------
(* cleanup.  simulate returns with a kernel reported or the GPU inactive,  *)
(* so the caller's condition for calling it always holds.                  *)

\* Mutant: kernels the GPU did not report are left to a later cleanup.
MustEraseReported(k) == k = finished_uid

MustErase(k) == k = finished_uid \/ ~ active

FreeStream(k) == busy_streams' = busy_streams \ {Stream(k)}

\* The kernel moving up into the erased position is looked at as well.
\* Mutant: the increment is compensated, as erasing in a loop usually asks for.
AfterEraseNoSkip ==
  /\ pc' = IF active THEN "after" ELSE pc
  /\ UNCHANGED cursor

\* With the GPU active the loop breaks; otherwise it increments its position
\* all the same, so the kernel that moved up is not looked at.
AfterErase ==
  /\ pc' = IF active THEN "after" ELSE pc
  /\ cursor' = IF active THEN cursor ELSE cursor + 1

EraseKernel ==
  /\ pc = "cleanup"
  /\ cursor <= Len(kernels_info)
  /\ MustErase(kernels_info[cursor])
  /\ FreeStream(kernels_info[cursor])
  /\ erased' = erased \cup {kernels_info[cursor]}
  /\ kernels_info' = RemoveAt(kernels_info, cursor)
  /\ seen' = TRUE
  /\ AfterErase
  /\ UNCHANGED <<commandlist, commandlist_index, was_launched, finished_uid, gpu, done>>

KeepKernel ==
  /\ pc = "cleanup"
  /\ cursor <= Len(kernels_info)
  /\ ~ MustErase(kernels_info[cursor])
  /\ cursor' = cursor + 1
  /\ seen' = TRUE
  /\ UNCHANGED <<pc, frontEnd, finished_uid, gpu, ghosts>>

\* assert(k) after the loop
CleanupDone ==
  /\ pc = "cleanup"
  /\ cursor > Len(kernels_info)
  /\ pc' = IF seen THEN "after" ELSE "abort"
  /\ UNCHANGED <<frontEnd, loopVars, gpu, ghosts>>

\* The rest of the loop body: leave when the simulation limit was reached.
EndOfBody ==
  /\ pc = "after"
  /\ pc' = IF max_hit THEN "exit" ELSE "loop"
  /\ UNCHANGED <<frontEnd, loopVars, gpu, ghosts>>

\* main has returned, or the assertion has stopped the program.
Terminated == pc \in {"exit", "abort"} /\ UNCHANGED vars

Next ==
  \/ EnterLoop \/ LeaveLoop
  \/ ParseMemcpy \/ ParseKernel \/ ParseDone
  \/ LaunchKernel \/ PassKernel \/ LaunchDone
  \/ SimulateInactive \/ SimulateCycle
  \/ EraseKernel \/ KeepKernel \/ CleanupDone \/ EndOfBody
  \/ Terminated

Spec == Init /\ [][Next]_vars

\* One thread runs everything.  What is assumed of the GPU is what its
\* deadlock_check enforces: cycled again and again, it completes a kernel it
\* is running, and its memory system drains.
KernelCompletes == SimulateCycle /\ running' # running
MemoryDrains == SimulateCycle /\ ~ draining'

FairSpec ==
  /\ Spec
  /\ WF_vars(Next)
  /\ SF_vars(KernelCompletes)
  /\ SF_vars(MemoryDrains)

-----------------------------------------------------------------------------
(* Properties *)

Window == ToSet(kernels_info)

\* Every variable keeps its type, and the window its size.
TypeOK ==
  /\ pc \in Locations
  /\ commandlist \in CommandLists
  /\ commandlist_index \in 1 .. Len(commandlist) + 1
  /\ kernels_info \in Seq(Kernels) /\ Len(kernels_info) <= WindowSize
  /\ was_launched \subseteq Kernels
  /\ busy_streams \subseteq Streams
  /\ cursor \in Nat \ {0} /\ seen \in BOOLEAN
  /\ finished_uid \in Kernels \cup {0}
  /\ running \subseteq Kernels /\ finished_list \subseteq Kernels
  /\ draining \in BOOLEAN /\ max_hit \in BOOLEAN
  /\ done \subseteq Kernels /\ erased \subseteq Kernels

\* cleanup removes only kernels the GPU has completed, unless the simulation
\* limit ends everything (simulation_loop: "cleanup finished kernel").
NoKernelDropped == ~ max_hit => erased \subseteq done

\* At the head of the loop the busy streams are those of the launched kernels
\* in the window, no two of which share a stream.
BusyStreamsExact ==
  pc = "loop" /\ ~ max_hit =>
    LET live == Window \cap was_launched
    IN  /\ busy_streams = {Stream(k) : k \in live}
        /\ \A k, l \in live : Stream(k) = Stream(l) => k = l

\* The assertion at the end of cleanup holds: there was a kernel to look at.
NeverAborts == pc # "abort"

\* A copy takes effect after every kernel before it in the command list has
\* completed: what reading one command at a time gives with a window of one.
MemcpyInOrder ==
  ~ max_hit =>
    \A m \in 1 .. commandlist_index - 1 :
      commandlist[m] = Memcpy => \A k \in Kernels : k < m => k \in done

\* The simulation ends, and unless its limit was reached every kernel of the
\* command list has run.
AllKernelsRun == <>(pc = "exit" /\ (max_hit \/ done = Kernels))

\* The front end implements StreamOrder: a kernel is done when the GPU has
\* completed it, running from its launch on.
Status ==
  [k \in DOMAIN commandlist |->
     IF k \in done THEN "done"
     ELSE IF k \in was_launched THEN "running" ELSE "waiting"]

Order == INSTANCE StreamOrder WITH status <- Status

\* Kernels of one stream run in command-list order, each at most once.
ImplementsStreamOrder == Order!Spec
=============================================================================
