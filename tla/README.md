# A TLA+ verification of the HBM thermal pipeline, Accel-Sim's front end and tracer, and their tools

The repository joins a GPU simulator (Accel-Sim over GPGPU-Sim), a thermal
simulator (HotSpot) and a Python pipeline that closes the loop between them:
memory accesses become power, power becomes temperatures, temperatures become
throttling, DVFS and low-power decisions for the next interval. It also holds the
tracer that records what Accel-Sim replays, the tool that runs many simulations
at once, and the sources of a many-core simulator (Sniper). This directory models
the parts of it that have a protocol: state that survives from one step to the
next, files that survive a process, kernels, threads and messages that overlap,
two programs that must agree on a format.

Paths below are relative to the repository root.

## 1. Inventory

| Component | Source | State | Operations | Hard behaviour |
|---|---|---|---|---|
| DTM policies | `pipeline/dtm_policies.py` | none (a `DTMAction` passed in) | `evaluate` of throttling, DVFS, low-power mode, composite | thresholds met exactly; a chain of policies that must not undo one another |
| Bank layout | `pipeline/config.py` | constants | bank to channel and back | a channel owns banks in both halves of the stack |
| Power model | `pipeline/hbm_power_model.py` | last temperatures | `compute_power_trace`, `set_bank_temperatures` | leakage feedback with stale temperatures |
| HotSpot interface | `pipeline/hotspot_interface.py` | the output directory | `setup`, `run`, `get_bank_temperatures` | child failures, kills, files of an earlier run |
| Pipeline runner | `pipeline/pipeline_runner.py` | the knobs, the history | `set_dtm_policy`, `run` | one failing stage of four; order of effects |
| Command line | `run_pipeline.py` | none | builds policy and runner | - |
| Access-trace parser | `pipeline/accelsim_trace_parser.py` | none | parses counts | - |
| HotSpot process | `hotspot_tool/hotspot.c` | header, line counter, bank modes, its files | `main` | two permutations of the columns; ends with status 0 on missing input; uninitialised loop counter |
| HotSpot solver | `hotspot_tool/temperature.c`, `temperature_grid.c`, ... | power vector, grid temperatures | `compute_temp`, dumps | which bank a figure belongs to; temperatures kept from line to line. The numerics themselves are outside |
| Accel-Sim front end | `gpu-simulator/accel-sim.cc`, `.h` | window of kernels, busy streams, command index | `simulation_loop`, `parse_commandlist`, `simulate`, `cleanup` | concurrent kernels, completion order, erasing while iterating |
| Tracer | `util/tracer_nvbit/tracer_tool/tracer_tool.cu` | kernel counter, region flags, result file, channel | launch callbacks, receive thread | two threads, no lock; records in batches; graphs; compression |
| Trace post-processing | `.../traces-processing/post-traces-processing.cpp` | one file's blocks and warps | `group_per_block` | lines of warps in any order; one of each pair of lines dropped |
| Trace parser | `gpu-simulator/trace-parser/` | kernel list, file streams | parse lines, headers, blocks | formats agreed with another program |
| Trace-driven core | `gpu-simulator/trace-driven/` | replay cursor of each warp | `init_traces`, `get_next_trace_inst`, exit of warps | slots used again; the file's sections against the grid's blocks |
| Process manager | `util/job_launching/procman.py` | queued, active, complete jobs; state files | submit, start, tick, save | several managers sharing files without a lock |
| Coherence protocol | `common/core/memory_subsystem/pr_l1_pr_l2_dram_directory_msi`, `parametric_dram_directory_msi` | directory entries and request queues; cache lines and waiters | every message handler of both controllers | messages that cross evictions, upgrades and replacements |
| Thread manager, sync and syscall servers | `common/system/thread_manager.cc`, `sync_server.cc`, `syscall_server.cc` | thread states; queues of mutexes, conditions, barriers, futexes, sleepers | pthread and futex calls, periodic hook | a thread resumed before it waits; timeouts against wake-ups; requeueing |
| GPGPU-Sim | submodule, empty here | - | - | external |
| The rest | rest of `common/`, `config/`, `util/plotting`, `util/accelwattch`, `util/hw_stats`, ISA tables | - | - | - |

How they interact: the runner calls the power model, starts HotSpot as a child
and talks to it only through files of the output directory; an Accel-Sim run may
be a child as well, whose standard output is parsed. The tracer writes trace
files and a command list, post-processing regroups them, and the trace parser and
the front end read them, each in another process and at another time. The front
end drives GPGPU-Sim by calls. Process managers are processes that see each other
only through their state files. In the many-core simulator the controllers of the
memory hierarchy exchange messages, and the two servers stall and resume threads
through the thread manager.

What makes each correct: the knobs follow the temperatures and push against them;
HotSpot continues from the state it stopped in, and each figure stays with its
bank; traces and history describe the same intervals; kernels run once each, in
stream order, none is dropped; what the simulator replays is what the program
did; a job is launched once; a line has one writer and its readers see the last
write; a thread is stalled exactly as long as it is queued.

The hazards this leaves to a model checker, each with its line, are listed in
`PROJECT.json`.

## 2. Modules

| Module | Models | Kind |
|---|---|---|
| `DTMPolicies` | layout and policies | pure operators |
| `ThermalPipeline` | runner, HotSpot interface, power model, output directory | state machine, extends `DTMPolicies` |
| `HotSpotRun` | the HotSpot process and solver's bookkeeping, in the loop that starts it | state machine |
| `StreamOrder` | what the front end promises about kernels | abstract specification |
| `AccelSim` | `simulation_loop` and the functions it calls | state machine, implements `StreamOrder` |
| `TracerTool` | the tracer's two host threads, the GPU and the channel | state machine |
| `TraceCodec` | one instruction from tracer to simulator | pure operators |
| `TraceReplay` | a kernel from its records to its replay, through three programs | state machine, extends `TraceCodec` |
| `ProcMan` | process managers and their files | state machine |
| `DramDirectory` | the directory controller | operators from a directory to a directory |
| `CacheCoherence` | the cache controllers, the messages, and the directory between them | state machine, extends `DramDirectory` |
| `ThreadSync` | thread manager, sync server, syscall server | state machine |
| `MC...` | the instances of the module named after `MC` | |
| `ThermalPipelineProofs`, `AccelSimProofs`, `ProcManProofs`, `HotSpotRunProofs`, `TracerToolProofs`, `CacheCoherenceProofs`, `CoherenceServiceProofs`, `ThreadSyncProofs` | theorems (those about `DTMPolicies` are in the first) | |

### ThermalPipeline

`phase` is the place in `run()`; one action per stage. `ComputePower` is stages
1 and 2 (access trace, throttle, power row, `append_power_line`),
`HotSpotSucceeds`, `HotSpotEndsEarly` and `HotSpotFails` the child, `Propagate`
the rest of `HotSpotInterface.run`, `ApplyDTM` everything from
`get_bank_temperatures` to `_write_bank_state`, `Setup` and `Finish` the two ends
of `run`. `NewProcess` is a kill at any point, or an ordinary exit, followed by a
new runner on the same output directory, started in the same place or another.

Where the pipeline is started matters: HotSpot opens `BankStateData.txt` in its
working directory, which `run` leaves to be the pipeline's own
(`hotspot_interface.py:101`), while the pipeline writes that file into its output
directory. `cwd` is the output directory or another one, with or without such a
file (`hotspot_tool/` holds one). Where there is none, before the first reading of a
fresh output directory or in every interval elsewhere, the child ends with status 0
after its header (`temperature.c:26`, `HotSpotEndsEarly`): nothing is dumped, a dump
that is there already is copied, the header line goes to the full traces, and the
temperatures are read as zeros.

A file's content is the interval `<<run, step>>` whose output it is, or `NoFile`,
`Torn`, `External`, `Header`; the two files whose numbers matter also carry their
row. `run`, `lastGood`, `decidedBy` and `moved` are history variables, as is the
`ok` of a history entry.

Data abstractions: temperatures are integers, throttle factors ten-thousandths
(the code rounds to four decimals), scales hundredths; an access costs one unit
of energy; leakage is a function given as a constant; all banks of a trace
receive the same counts (they differ by temperature). The logic-core columns are
left out. HotSpot is its contract only: it reports any temperatures (none of them
0 degrees), ends early, or fails having left its outputs as they were, truncated, or
torn; its dump may be whole when it fails after writing it, or is killed. A child that
outlives a killed pipeline is taken to have stopped where it was at the kill.

### HotSpotRun

`ThermalPipeline` takes HotSpot as a contract; this is the program behind it.
`Start` is `hotspot.c` up to the header, `PowerLine` one turn of its loop (read a
line, permute the columns into the power vector, `compute_temp`, permute the
temperatures back, write a row), `PowerLineEnds` a turn that ends the process, be it
the first or a later one (a malformed line, `hotspot.c:651`; a name no floorplan has;
no `BankStateData.txt`), `EndOfTrace` the end of the trace with its dump or with a
fatal before it (no line; no convergence of the steady state with leakage,
`temperature.c:933` and `942`, reached from `hotspot.c:764`; an output that cannot be
opened), `Killed` a signal at any point, and `Return` the rest of
`HotSpotInterface.run` with the file of bank states that the pipeline writes before
the next run. So a run may fail after it has heated the stack and written rows, and
after it has dumped. The directory the two are started in is again `cwd`; a
`BankStateData.txt` found elsewhere has all banks active, as the one in
`hotspot_tool/`. A power figure is the
`<<run, line, column>>` it was read from, so a figure that lands on the wrong
bank shows; a temperature is the sequence of power lines that heated the stack,
so one that is lost, or a line that is skipped, shows. The bank index that the
solver computes from layer and unit (`temperature.c`) and the offsets that count
all layers in one place and powered layers in another are kept as they are; the
running sums `base` and `count` of the loops over the layers are the numbers of
blocks of the layers below (`Base`, `Count`). `StackIs3Dmem` is what
`temperature.c:1013` and `1020` take for granted of the stack: the logic layer is
the fourth and has no bank, every second layer from the sixth on is memory, and its
banks are numbered in that order.

### AccelSim

`pc` is the place in `simulation_loop`; each iteration of the parse, launch,
simulate and cleanup loops is a step, so the positions kept while a vector is
erased are real. A kernel is its position in the command list. `busy_streams`
is a vector in the code; a stream is pushed only when it is not in it, so it is
a set here. GPGPU-Sim is external and as loose as its calls allow: in a cycle
any subset of running kernels completes, memory may go on being busy, the limit
on cycles may be reached, and `finished_kernel` reports any one completed
kernel (its list is in completion order; the model allows more).
`Terminated` is the program having ended, so that deadlock checking stays on.

`StreamOrder` knows only whether a kernel is waiting, running or done; `Status`
in `AccelSim` is the mapping.

### TracerTool

One context. The application thread runs the callbacks (`Launch`, `Capture`,
`GraphLaunch`, `FlushChannel`, `leave_kernel_launch`, `MemcpyHtoD`, `Profiler`,
`CtxTerm`, `Join`), a running kernel pushes records (`Push`), the receive thread
takes a batch of any length and goes through it (`Receive`, `ReceiveRecord`,
`ReceiveFlush`). `recv_thread_receiving`, the result file and the name of the
current kernel are shared without a lock, so each is read and written in the step
of the code that does it. A record carries its kernel, its number, its warp and
its instruction; `pushed` is a history of what the GPU did. The spinlock instructions
counted for a warp are fixed at its first record after a flush (`indices`), so records of
graph launches are counted by those of whatever kernel was entered last. `Environments` says
what the environment variables say and how long the traced program is.

### TraceCodec, TraceReplay

`TraceCodec`: the tracer's choice of format, the tokens it prints with their
radix, and what the parser makes of them, radix state and over-reading included.
Widths are parameters: 64-bit addresses and 32-bit strides become 3 and 2 bits,
which keeps wrap-around, sign extension and differences that no stride can hold.

`TraceReplay` puts it between the three programs: `recv_thread` writes the line of
the next record of any warp, `group_per_block` is the post-processing (one step:
it runs alone), `init_traces` gives the next section of the file to the block that
starts on the core, `get_next_trace_inst`, `Complete`, `WarpExits` and `BlockEnds`
are a warp's replay. A kernel is the code its warps execute and the options it is
traced with. Two assumptions on the tracer's side: the two records of an LDGSTS
reach the channel in order, with no other record of the warp between them (no
divergence inside the pair), and `TRACE_CORE` is off. `TracerTool` shows that the
file holds what the kernel pushed; this module starts from there.

### ProcMan

The user's commands, one at a time (`Submit`, `StartCopies`, `SpawnProcMan`,
`ClearMain`, `SaveMain`), and any number of managers, each at its own place of
`tick` (`Load`, `RemoveTmp`, `Poll`, `CountOthers`, `Launch` and `LaunchFails` once
for every job, `TruncateState`, `WriteState`, `RemoveState`). A file is missing, torn (truncated by `open`, not
yet written) or whole; opening for writing and writing are separate steps, and so
is reading each of the other managers' files. A manager that reads a torn file
dies on `EOFError`, as the code does; one whose next job has no output file to open,
or no command to start (`procman.py:256`), dies with that job popped and the others
still queued, and what it had launched before runs on. `JobEnds` is a job's process ending or
being killed.

### DramDirectory, CacheCoherence

`DramDirectory` is the home node: `processExReqFromL2Cache`, `processShReq...`,
`processUpgradeReq...`, the four replies, `processDRAMReply` and
`processNullifyReq`, with the request queue per address, the replacement of
entries, the limited number of sharers and the forwarder of MESIF. A handler is an
operator on a record that collects messages and the first failing assertion;
`Settle` goes on with the next request, as the handlers do at their ends, and for
as long as that one is done at once (`GoesOn`), which is twice at most.
`CacheCoherence` is everything else: user threads that hit, miss or queue
(`WriteHit`, `Miss`), one network thread per cache (`DataReply`, `UpgradeReply`,
`Invalidate`, `FlushLine`, `WriteBack`), FIFO channels in both directions, and
DRAM, which answers when it likes. Data is `Fresh` (the last value stored), `Stale`
or an uninitialised buffer: a store turns every other copy stale wherever it is.
The private levels before a last-level cache are one cache with it; NUCA slices,
prefetches, set locks and all timing are left out.

### ThreadSync

`status` is `m_thread_state[].status`, `host` the place of the host thread:
`stallThread` sets the status, calls the barrier while it holds `m_thread_lock`
and gives the lock up only inside `Thread::wait`, so a thread is "stalling" in
between, and `Periodic` (`barrierRelease` calling `HOOK_PERIODIC`) may resume it
there, before it waits. Every pthread and futex call of the two servers is an
action: create, join, exit, lock, try-lock, unlock, condition wait, signal,
broadcast, barrier, sleep, futex wait, wake, wake-op, compare-requeue. The
application's own store to a futex word is an action without any lock. A program
is the set of calls it makes and how many of them.

## 3. Runs

| Run | Instance | Result |
|---|---|---|
| `pipeline_loop` | 2 channels of 2 banks, 3 temperatures, 3 intervals, one run, started in the output directory | pass: `KnobsFollowReading`, `CriticalBankIsQuiet`, `LowPowerHistoryExact`, `HotterNeverLoosens` |
| `pipeline_files` | 2 banks, 1 temperature, 3 intervals, 2 runs on one directory by processes started anywhere, board with `mem.init` | pass: `TypeOK`, `StartsFromKnownState`, `TracesMatchHistory`, `BankStateFollowsKnobs`, `RunReturns` |
| `pipeline_hysteresis` | 2 banks, 3 temperatures | violation of `LPMHysteresis` |
| `hotspot` | 2 memory layers of 2 banks on a logic layer, 9 layers in all, up to 2 power lines, 3 runs in any directory, with and without leakage | pass: `ColumnsFollowNames`, `IdleBanksLeakOnly`, `ReadingIsThisRuns`, `CarriesOn` |
| `accelsim_window2` | window 2, command lists up to 4 over 2 streams and copies | pass: `TypeOK`, `NoKernelDropped`, `ImplementsStreamOrder`, `AllKernelsRun` |
| `accelsim_window3` | window 3, the same lists | violation of `NoKernelDropped` |
| `tracer` | four environments: one kernel of 3 records, ranges that open and close, ranges with names, graphs | pass: `ClosedFilesExact`, `RecordsAtMostOnce`, `MatchingKernelsTraced`, `LaunchReturns` |
| `trace_replay` | 4 lanes, 3-bit addresses, 2-bit strides: every mask with every address as a kernel of its own, and kernels of 2 and 3 blocks on 2 slots | pass: `ReplayExact`, `NoEmptyWarp`, `KernelReplayed` |
| `procman` | 2 managers, 2 jobs, one core | pass: `LaunchedOnce`, `OwnLimit`, `SleepersPublished`, `EveryJobCompletes` |
| `coherence` | five systems of 3 threads: a shared cache, a limited directory, MESIF, evictions of cache lines and directory entries, room for all that is used | pass: `SingleWriter`, `DirectoryKnowsCopies`, `NoAssertionFails`, `PairFresh`, `QuietMeansServed` |
| `coherence_lost_write` | MESI, 3 caches, one address, no limit on sharers | violation of `CopiesFresh` |
| `sync` | four programs of 3 threads: locks and conditions; joins, barriers, sleeps; futex waits with timeouts; wake-op and requeue | pass: `HolderOwns`, `QueuedIffStalled`, `BarrierTogether`, `ExecutingIsRunning`, `DeadlockIsReal`, `NoLostWakeup`, `SleepersWake` |

Why the bounds are enough. *Pipeline*: two channels with one bank in each half
are the least layout in which a channel has banks in both halves and a
neighbour; the three temperatures fall into the two deepest throttle and DVFS
bands and the critical one, the ambient start value below all. Three intervals
contain an interval without a row and two readings to compare, and
success-failure-success; two runs contain everything a second run can inherit, in
each of the three places it may be started. In the run on files the temperature
decides nothing but which banks are active. *HotSpot*: two memory layers are the
least for which an index computed from the layer can be wrong, two lines the least
for a failure between lines, three runs allow a failure between two successes; a
header in which the columns of one memory layer and of the logic layer are swapped.
*Front end*: a list of four commands fills a window of two twice and
has two kernels of a stream behind a third; three kernels in the window are
where the erase loop goes wrong. *Tracer*: three records of two warps of one
kernel contain a loop that is kept once, interrupted by the other warp, in every
split into batches; four kernels have a range, a gap and a range; two graph
launches can both put their flush records before a kernel's. *Replay*: four lanes
have runs with a hole, a run and a straggler, and a lone last lane;
`Imms = {1, 12}` has a number whose digits mean something else in base 16; three
blocks on two slots use a slot again. *Process managers*: two managers that find
each other's files in all three states; one core for two jobs, so that each manager
keeps the other waiting. A launch that fails after another in the same tick takes two
cores; the three safety properties hold for 3 jobs on 2 cores too, which is too large
to check with liveness, and are proved for any number. *Coherence*: three caches are a writer, a reader and a
third that overtakes; each system has one shortage (a cache shared, sharers,
ways of the directory with ways of the cache) since all at once is too many
states. *Threads*: three threads, so that a resumed thread, one that resumes it
and one that gets in between are different, and a barrier of three; a quantum or
two are before, at and past a deadline. What the bounds cannot show is proved
where it could be (section 5).

`trace_replay`, `procman`, `hotspot` and `sync` stop when the traced kernel is
replayed, the jobs are done, the last run is over, or when the bounds on calls
and quanta are reached, so deadlock is not checked there; in `sync` the threads
may also wait for each other because the application made them. In the others it
is. Every state machine has a type invariant `TypeOK`, checked with the run of
its module while it was written; `NeverAborts` (`AccelSim`, lists that end in a kernel),
`BusyStreamsExact` (windows 1 and 2) and `GridMaintained` (`hotspot.cfg`) hold as well.

Fairness. `ThermalPipeline`: weak fairness of the loop, one thread that nothing
blocks. It includes that a HotSpot child returns at all; the code has no timeout
on it (`hotspot_interface.py:101`), so this is an assumption on HotSpot, and
`RunReturns` says that no number of *failing* children keeps `run()` from
returning. `AccelSim`: weak fairness of the single thread, and strong fairness of
"a running kernel completes" and "memory drains", which is what
`deadlock_check`, called after every cycle, enforces by stopping the program
otherwise. `TracerTool`: weak fairness of the receive thread, of the driver that
completes what was launched, and of the application inside its callbacks; not of
the application outside them, which need not launch anything. `TraceReplay`: weak
fairness of the whole, because the three programs run one after the other and the
core is clocked by one thread. `ProcMan`: weak fairness of a command that was
started, of each manager (a process that sleeps and ticks) and of jobs ending;
none of submitting. `ThreadSync`: weak fairness of each host thread on its way
into and out of `Thread::wait`, and of the periodic hook while it is enabled;
none of the application's calls. `CacheCoherence` states no fairness:
`QuietMeansServed` says instead that when no message is left nobody waits, which
is the part of progress that depends on the protocol.

## 4. Where code and documentation disagree

Shown by a run:

* **Low-power mode has no hysteresis** (`pipeline_hysteresis`).
  `dtm_policies.py:146` and `REPORT.md:150` promise a return below
  `cooldown_temp`; the runner evaluates the policy without the action in force
  (`pipeline_runner.py:143`), so a channel returns as soon as it is below
  `critical_temp`, and the restoring branch is dead.
* **A kernel is dropped** (`accelsim_window3`). Once the GPU is idle `cleanup`
  erases every other kernel of the window, launched or not.
* **A write is lost** (`coherence_lost_write`). `processWbRepFromL2Cache`
  (`pr_l1_pr_l2_dram_directory_msi/dram_directory_cntlr.cc:1174`) hands the
  written-back data to the reader that asked and never writes it to DRAM, while
  line 547 of the same file answers the next reader of the shared line from DRAM.
  The simulator that uses these files as a timing model takes its data elsewhere.

Stated as properties in the modules, and refuted by TLC with the constants given;
they are not among the runs:

* **Success without a reading** (`SuccessHasReading`, `pipeline_files.cfg`). HotSpot
  ends with status 0 and a header when there is no `BankStateData.txt` in the
  directory it is started in (`temperature.c:26`): always in the first interval of a fresh output directory,
  and in every interval of a pipeline that is started in a directory without that
  file. `run` then returns True, against its docstring (`hotspot_interface.py:52`), and
  the policy and the leakage model work from temperatures of 0 degrees. The history
  records those zeros like the ones of a failed interval.
* **Stale start** (`StartsFromKnownState`, `pipeline_files.cfg` with
  `ExternalInit = FALSE`). On boards without a `mem.init` a second run starts from
  the thermal state of the first, against the comment at `hotspot_interface.py:96`.
* **Double power rows** (`PowerRowsDistinct`, `pipeline_files.cfg`). Runner and
  HotSpot interface (`hotspot_interface.py:114`) both append the row of a measured
  interval to `full_power_mem.trace`.
* **Stale start after a move** (`StartsFromKnownState` without `~moved`,
  `pipeline_files.cfg`). A child that ends early dumps nothing, but `run` copies
  whatever `all_transient` file is there (`hotspot_interface.py:109`): one of an earlier
  run, or torn by a kill. It takes a process started in a directory with a
  `BankStateData.txt`, which leaves the dump, and a later one started where there is
  none. As long as all processes on the directory are started in one place this cannot
  happen, which is what the run checks and `KnownInitialState` proves.
* **Bank modes from junk** (`NormalPowerModes`, `hotspot.cfg` with
  `ColumnOrders <- PipelineOrder`). The loop at `hotspot.c:635`, which is to
  put all banks in normal power mode, starts from an index that was never set. The
  pipeline passes no mode file (`hotspot_interface.py:76`), so this is the branch it
  takes. Nothing but the solver's leakage figures depends on the modes.
* **Grid temperatures with leakage** (`GridMaintained` without its condition).
  `hotspot.c:678` says that only the first call starts from block temperatures;
  with leakage every call does (`temperature.c:1156`).
* **Column order** (`AnyColumnOrder`, `ColumnOrders <- BanksFirst`). A header whose
  layers are in another order ends the program, against `hotspot.c:383`.
* **`assert(k)` fails** (`NeverAborts`, `CommandLists <- AnyList`, window 1;
  `accel-sim.cc:144`) on a command list that ends in a copy.
* **Names and ranges** (`OnlyMatchingKernelsTraced`, `tracer.cfg`). The region is
  closed on the next kernel's number and this kernel's name
  (`tracer_tool.cu:654`), so a kernel that no range names may be traced, against
  `tracer_tool.cu:233`.
* **The wait after graphs** (`WaitCoversKernel`, `tracer.cfg`). The exit of a graph
  launch sends a flush record and does not wait (`tracer_tool.cu:791`); the next
  kernel's wait ends with that record, before its own were received, against
  `tracer_tool.cu:625`.
* **The immediate is lost** (`ImmediatesReplayed`, `trace_replay.cfg`) for memory
  instructions in the base-delta and list-all formats (`trace_parser.cc:196`,
  `223`). Only `DEPBAR` uses immediates today (`trace_driven.cc`), and it is no
  memory instruction, so no simulation result changes.
* **Line numbers and LDGSTS** (`ReplayExact`, `Kernels <- CopyWithLines`). With line
  numbers in the trace the post-processing looks for the opcode one token off
  (`post-traces-processing.cpp:386`) and leaves both lines of a pair in.
* **A warp without a record** (`NoEmptyWarp`, `Kernels <- EmptyWarp`) stops the
  simulator in `get_start_trace_pc`.
* **Jobs vanish** (`NoJobLost`, `procman.cfg`). A second `-S` before the first
  manager has loaded overwrites its hand-over file (`procman.py:183`), although
  the usage text (`procman.py:44`) says that this works. A job whose launch raises
  is gone as well, and with it the manager: the jobs behind it stay in a state file
  that no manager will tick.
* **Jobs run twice** (`NoJobTwice`). A manager that loaded a file late removes the
  next one in place of its own, while the manager that owns it has loaded it too.
* **A torn file stops a manager** (`CountingSucceeds`). It may read another's file
  between truncation and write (`procman.py:273`). The file of a manager that died is
  not removed: the jobs it names are counted as running by all the others for good, and
  if they fill the limit the others wait for ever. `EveryJobCompletes` excepts exactly
  these cases: the job's own manager died, or one did that left a file with active jobs.
* **Nothing active** (`NothingActiveIsTrue`). Between removing the hand-over file
  (`procman.py:590`) and the first save, `-p` reports that nothing is active.
* **Assertion of an upgraded line** (`NoAssertionFails`, MSI with three caches of one
  way, two lines, two hardware sharers). A full limited entry invalidates one sharer to
  make room for a reader (`dram_directory_cntlr.cc:557`); if another sharer evicts
  meanwhile, the reader is served, and the invalidation reaches a cache whose upgrade
  has been granted since. The systems of `coherence` with that limit have one line.
* **Lost write by a pair** (`CopiesFresh`, two caches without room for all they use).
  A sharer invalidated to make room (`dram_directory_cntlr.cc:557`), or because its
  entry is replaced, may hold the only copy of what was written; `INV_REP` carries no
  data. This is why `PairFresh` assumes `Roomy`: the caches and the directory hold
  every line that is accessed, and an entry lists every cache that accesses it.
* **Uninitialised reply** (`FilledByReply`, `Systems` with `Forwarding`). A line that
  is being upgraded answers `WB_REQ` with a buffer nobody filled
  (`cache_cntlr.cc:2018`), against `dram_directory_cntlr.cc:629`.
* **Join before start** (`JoinAfterExit`, `Programs <- Joining`). One waiter field
  serves waiting for a thread's start and joining it (`thread_manager.cc:143`,
  `163`, `331`): a join of a thread that has not started returns at its start.
* **Sleepers left behind** (`SleepersWake` without `LastMayExit`). When the last
  running thread ends nobody calls the periodic hook any more
  (`thread_manager.cc:353`).

Read but outside the models: `pipeline/benchmarks.py` is imported
(`pipeline/__init__.py`, `pipeline_runner.py:173`) and not in the repository;
the constructor `accel_sim_framework(config, trace)` assigns a local variable
that hides `m_gpgpu_sim` (`accel-sim.cc:14`), so only the `argc`/`argv` one is
modelled; the `else` branch in `simulate` (`accel-sim.cc:158`) cannot be reached.
`FUTEX_WAKE_BITSET` wakes as if its mask matched all, a try-lock of one's own mutex
queues behind itself, and the periodic hook wakes one waiter of a queue per
quantum: the model does the same, and no document says otherwise.

## 5. Theorems

All proofs are checked by TLAPS, for every value of the constants that meets the
named assumptions.

**`ThermalPipelineProofs`**, the policies (assumptions: `LayoutAssumption`,
`ThresholdAssumption`, `DVFSAssumption`, `DVFSMonotone`). Lemmas on integer division
and on the layout (`channel_to_banks` and `bank_to_channel` are each other's inverse)
carry `EvaluateType`, `HotterIsStricter` (every policy is monotone in the
temperatures) and `CriticalBankStopped`.

The pipeline (with `PipelineAssumption`). `TypeCorrect` proves
`TypeInv`, which is `TypeOK` and the fact that the loop variable is below
`Iterations` inside an interval: without it the increment at an interval's end
would leave the type. `KnobsCorrect`: `KnobsFollowReading` is inductive given
types, since knobs, temperatures and deciding policy change together in
`ApplyDTM` and `NewProcess` only. From it and `HotterIsStricter` follow
`NegativeFeedback`, and with the power row's origin `CriticalQuiet`.
`KnownInitialState` (assuming `ExternalInit`) needs `InitFileInv`: while the processes
are started in one place, inside `run()` the init file is the last good interval, or
the board's; after a row `all_transient` is this interval's, and after a header line
there is no `all_transient` at all, because whoever dumps has found a
`BankStateData.txt`, and where there is one there stays one. `BankStateCorrect` rests on `BankStateInv`,
`LowPowerHistoryCorrect` on `LastEntryInv` (the last entry was recorded under the
knobs still in force) and the layout lemmas. `TracesCorrect` needs `TracesInv`: the
history's intervals increase and all lie before the present place of the loop
(`PastInv`), and each of the two trace files holds, header lines aside, the rows of the intervals
that have reached the stage that writes it. An interval without a row is the zeros of
the history, which no reading is (`Temps` has no 0). `TracesMatchHistory` speaks of the set of measured
intervals and the order of the rows, not of a filtered sequence, which is what makes
it provable by adding one row at a time.

**`HotSpotRunProofs`** (`HotSpotAssumption`). `TemperaturesCarryOn` is `CarriesOn` for every
stack, trace and number of runs. `CarryInv` says that the temperatures in memory
are those of the init file followed by this run's lines, and what the dump is when the
process has ended with status 0: those temperatures if it got past a power line, and
no dump at all if it did not, because here too a dump is only left by a run that found a
`BankStateData.txt`, which later runs in that place find as well. A run that fails keeps
the init file (`Kept`), whatever it has heated, written or dumped before. The other three follow from
`RowInv`: each entry of the power vector is the figure of the line last read for the
block that the header names there (or what the solver makes of it), and each figure of
the row comes from the entry of its own column. That rests on lemmas on the offsets:
`Base` and `Count` are the sizes of disjoint sets of blocks, so every entry lies in
exactly one layer, and `Entry`, the permutation into the vector, is injective with the
second permutation as its inverse. A layer for a column exists because among the layers
that reach it there is a least one. `ColumnsCorrect` and `ReadingCorrect` hold for every
stack and every header `NamesFound` lets through; `IdleBanksCorrect` assumes
`StackIs3Dmem`, which the solver takes for granted (a stack with a second logic layer
would give it banks' indices); the stack of the `hotspot` run satisfies it.

**`AccelSimProofs`** (`CommandAssumption`, `WindowAssumption`). `TypeCorrect` holds for every
window, and so does `NeverAbortsCorrect`: the assertion at the end of `cleanup` holds if no
command list ends in a copy (`KernelEnds`; TLC finds it failing on lists that do), because
up to `cleanup` a kernel is in the window or, while commands are parsed, one is still to be
read (`WorkInv`). For a window of one, the configuration without concurrent kernels, `SerialInv` says
which of four situations the one kernel is in at each place of the loop (settled, waiting,
executing, completed) and that the GPU never holds an unreported completion. From it follows
`SerialMemcpyInOrder`. For windows of one and of two the inductive invariant is `PairInv`: a
launched kernel is running or done; a kernel read is either in the window, in the order of
the command list, or was done when it was erased; the busy streams are those of the launched
kernels in the window, one each (`BusyStreamsCorrect`); and the first kernel of the window is
launched before the second. The last part is what a window of three lacks: when `cleanup`
erases with the GPU idle it passes over the kernel that moves up, which in a window of two is
the last one and so is only kept longer, while in a larger one the loop goes on to erase a
kernel that never ran. With `PairInv` follow `NoKernelDroppedCorrect` and, as every
predecessor of a kernel about to be launched is done (`PredecessorsDone`),
`ImplementsStreamOrderCorrect`, for command lists of any length. That the window is at most
two is a hypothesis of these theorems, as `accelsim_window3` shows it has to be.

**`ProcManProofs`** (`ProcManAssumption`), for any number of managers, jobs and cores.
`TypesCorrect` gives finiteness and the types of files in all their states.
`LimitKept` is inductive with types and `FittingType`: a manager launches at most
what its own active jobs leave, whatever it reads in the others' files.
`SleepersCorrect` needs `Published`: a whole state file names every job its manager
takes to be active, except while it is between `Launch` and `TruncateState`, which
tears the file before the manager sleeps; a manager that dies in between does not
sleep. `LaunchedOnceCorrect` needs `OnceInv`: queues have no repetitions
(`QueuesInv`); a manager's queue and what it launched are disjoint (`OwnInv`); the
hand-over file holds what those have that loaded it and nothing that was taken
over (`TmpInv`); what the user's command still holds is not taken over either,
except while it has yet to clear it (`CliInv`); and managers that took over their
own file are apart (`ApartInv`). The last part alone is not inductive: that a
hand-over file is fresh is only known through the command that wrote it.

**`TracerToolProofs`** (`TracerAssumption`), for every environment and any number of
kernels, warps, instructions and graph launches. What a step does to the records is one
of six things (`DataSteps`: nothing, a flush record, a push, a batch, the end of a
batch, a record dealt with). `RecordsCorrect` needs `OnceInv`: over the channel, the
batch and all files together a record has one place (`Holding`), and its number is
below the count of what its kernel pushed; that moving a record keeps this is
`OnceMoved`. `MatchingKernelsCorrect` is inductive with types. `ClosedFilesCorrect`
needs `ExactInv`. As long as no graph was launched, either nothing is under way
(`Calm`: channel, batch and counts are empty) or the last kernel entered is (`Under`);
then there is a number of records dealt with, and the batch and the channel hold
exactly the others, in order, with the flush record behind them (`Pending`), the counts
are those of the records dealt with (`CountsMatch`), and the file is what is to be kept
of them (`ExactOf`). The receive thread stops receiving only when it meets the flush
record, and then nothing is left (`PendingEnd`): that is what makes the wait at
`tracer_tool.cu:627` sufficient. `CountStep` ties the code's counter per warp and
instruction to the reference `Kept`, which looks back over what the kernel pushed.

**`CacheCoherenceProofs`** (`DirectoryAssumption`, `CacheAssumption`), for any number of caches,
threads and lines, each of the three protocols, and any limits on ways and sharers.
The invariant `IInv` has, beside types, three parts. `Pairs` says of each cache and
line, from the cache's state, the two channels between it and the home node, and the
queue and the entry there, which situations exclude each other: the entry lists the
cache exactly while it has a copy, one is on its way to it or granted, or its notice
that it gave one up is on the way (`Listed`), and only one of these holds
(`OneStake`); it has one request under way at most (`OneRequest`), and somebody waits
for it (`SomebodyWaits`); it asks for a line after it has said that it has none
(`FetchAfterGive`: the one place where the order of a channel matters); whoever may
write is the owner the directory knows (`OwnerKnown`); write-backs and flushes under
way belong to the request at the front of the queue (`WriteBackUnderWay`,
`FlushUnderWay`). `Lines` says of each line that an exclusive entry lists its owner
alone and that DRAM owes one answer at most; `SlotsInv` that an entry is put aside
only when all ways are taken. A handler of the directory is proved to keep them in
three steps, as the code has it: what it does to the entry and queue of the line, what
it sends, and the next request it starts (`Settle`). From `IInv` follow
`SingleWriterCorrect`, the same for grants that have not arrived
(`SingleWriterInFlightCorrect`), `DirectoryKnowsCopiesCorrect`, and
`RepliesExpectedCorrect`: a copy that arrives finds the line absent and a thread
waiting. The model stops at a failing assertion, so these hold up to that point; that
none fails is a theorem only where there is room (below, and section 4).

**`CoherenceServiceProofs`** (the same assumptions; that there are finitely many last-level
caches is used here). `QuietMeansServedCorrect` says that nothing is forgotten: with no
message and no DRAM read under way, nobody waits. The invariant is `IInv` with `Serves`,
which says of every line what whoever waits is waiting for. The first request of its queue
waits for one of three things (`FrontServed`): a read of DRAM, and then DRAM has an answer
for it; a forwarder, and then the forwarder is `Awaited`; or the other sharers, and then
there are some (`Blockers`), and all of them are `Awaited`, or for a read one of them (the
owner that writes back, or the sharer that makes room). A cache is awaited if a request to give up, flush or write back the
line is on its way to a copy, or behind a copy that is on its way to it, or if it has
answered, be it by an eviction that crossed the request. Threads that wait at a cache have
a request on its way to the directory, queued there, or answered (`Asking`). Two facts on
entries and requests go with it: a shared entry lists somebody (`EntryServed`), and only the
first request has been given data (`OthersUnbuffered`): each handler leaves the queue with
its first request served, because it ends with `processNextReqFromL2Cache` or with the
requests it has just sent. The proof goes through the handlers as the one of `IInv` does
(`Rests`: what a handler leaves for the requests behind the first), and through the steps of
the caches by `PairKept`: whoever was awaited still is, and whoever was asking still does.
As in `CacheCoherenceProofs`, the model stops where an assertion fails, and such a state is
not quiet in the sense of the property.

`NoAssertionFailsCorrect` is for the systems with room (`Roomy`): the ways of a cache and of
the directory hold every line that is accessed, and an entry lists every cache that
accesses it. There no assertion fails, in any order of requests, replies and threads; the
theorem states `Spec => [](Roomy => NoAssertionFails)`, because without room it is false
(section 4). The invariant is `IInv` with `Tidy`: with room nobody evicts a line and no
entry is replaced, so a copy is given up only because the front request of its line calls
for it. `Tidy` says that (`Called`: an invalidation, on its way or answered, is of a shared
entry, and whoever gives up a copy is not the requester); that an upgrade reply finds its
line `SHARED_UPGRADING` (`UpgradeExpected`); that a line which a cache holds as
shared has a shared entry, unless its write-back or the reply to its upgrade is under way
(`SharedKnown`); that the first request, when it waits to read, waits at an entry that is
shared or exclusive (`TidyFront`); and that only lines and caches that are used occur
(`OnlyUsed`, `TidySlots`). Each handler is followed through all its branches, and at each
`assert` the invariant shows that it holds. In these systems the theorems above are thus
not cut short by a failing assertion.

**`ThreadSyncProofs`** (`ThreadSyncAssumption`; `ExecutingCorrect`, `DeadlockCorrect` and
`QueuedIffStalledCorrect` also `NoEarlyJoins`: no program joins a thread that has not
started; with such programs they are false, because `onThreadStart` signals the waiter
without resuming it). `RunInv` says that a host
thread that executes, or that waits and has been signalled, has the status
`running`, and that nobody waits for a thread that has not started.
`ExecutingCorrect` is its first part, and `DeadlockCorrect` follows: when the
assertion of `barrierRelease` fails nobody is running, so nobody executes.

`HolderOwnsCorrect` (early joins included) is `HolderOwns` for every number of threads and every program.
That the holder owns the mutex is not inductive: a thread returns from a lock
because it was signalled, and everything that signals must be known to have made it
the owner first. `LockInv` therefore follows all queues: a thread is at most once in
one of them, and in one of the kind of the call it makes (`PthreadInv`,
`SyscallInv`, `JoinInv`); whoever is in a queue is stalled, and whoever waits with a
signal pending is in none (`StalledInv`); whoever locks is still in a queue or owns
the mutex (`OwnerInv`). `TakesFirst`, `TakesDue`, `Enters` and `Moves` say what
`dequeueWaiter`, `wakeTimedOut`, `enqueueWaiter` and `requeueWaiter` leave of a queue of
entries.

`BarrierTogetherCorrect` assumes that the barrier counts at least all threads, as
the application's does (with a smaller count a thread may run ahead of one that is not
in the barrier). `BarrierInv` relates each thread's arrivals and passes to the barrier's
queue. `NoLostWakeupCorrect` is about programs without `FUTEX_WAKE_OP` and
`FUTEX_CMP_REQUEUE`, as the property says; `WakeInv` adds that a waker is registered
for its word until it has looked. `QueuedIffStalledCorrect` completes `LockInv`, which
has that who is queued is stalled, once and in one queue, by the other half: a stalled
thread is in the queue of the call that stalled it.

Only model-checked:

* liveness (`RunReturns`, `AllKernelsRun`, `LaunchReturns`, `KernelReplayed`,
  `EveryJobCompletes`, `SleepersWake`), which is beyond the prover under fairness;
* `ReplayExact` and `NoEmptyWarp`: what the recursive definitions of `TraceCodec` and
  `TraceReplay` compute for every input is an induction over data;
* of `CacheCoherence`, `PairFresh`, and `NoAssertionFails` for the systems of the run that
  are not `Roomy` (in general it is false there, section 4).

## 6. Not modelled

HotSpot's numerics and AccelWattch's (floating point); of the vendored simulator
under `common/` everything but the two parts above: performance models, branch
predictors, networks, NUCA slices, prefetchers, set locks and all timing, the
scheduler and thread migration, blocking system calls, statistics; GPGPU-Sim
(absent), and with it the pipeline of the core behind the replay; argument
parsing, the regular expressions of the access-trace parser, plotting, tuning and
job scripts without state; constant tables (ISA definitions, configurations); text
layout of files where no property is about it; logging. The copies of HotSpot's
sources under `hotspot_tool/LocalPatches` are older versions of files that are
modelled, and nothing builds them.

Abstractions a reader should know of: a directory other than the output directory that
holds a `BankStateData.txt` has one that does not change and declares all banks active;
a HotSpot child that outlives the pipeline that started it, when only the latter is
killed, is taken to stop at the kill; `HotSpotRun` keeps one `cwd` for all its runs and
`ThermalPipeline` one per process; the tracer's table of spinlock instructions is taken to
list every kernel (`tracer_tool.cu:998` dereferences a null pointer for one it does not
list, which ends the application); a `Cond::wait` of the host returns only when it is
signalled or times out (the loop at `cond.cc:43` tests the return value of a system
call that reports an interruption in `errno`, so a host signal may end a wait early);
`ThreadSync` leaves out the store to the thread-id word at exit and the wake of one that
follows it (`thread_manager.cc:166`);
a trace file in `TracerTool` is a sequence of records and in
`TraceReplay` of lines, and the two are not composed; the directory and the caches
exchange messages through queues per pair that do not reorder, as the code's
network does for one pair.

## 7. Plan

1. `PairFresh` from `Roomy`, `IInv` and `Tidy`: of the copies of a line, in caches, messages
   and DRAM, the ones that will be read are fresh. Then `NoAssertionFails` for systems where
   only the caches, or only the directory, run out of room.
2. Thread scheduling and migration over `ThreadSync`: more threads than cores.
3. Access-trace sources and `AccelSimTraceParser` as operators.
