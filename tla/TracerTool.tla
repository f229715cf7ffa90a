----------------------------- MODULE TracerTool -----------------------------
(***************************************************************************)
(* The launch protocol of the NVBit tracer, tracer_tool.cu: one context,   *)
(* the application thread that runs the CUDA callbacks, the GPU that       *)
(* pushes instruction records into a channel, and the receive thread that  *)
(* turns them into one trace file per kernel.  The two host threads share  *)
(* recv_thread_receiving, the result file and the current kernel's name    *)
(* without a lock.                                                         *)
(***************************************************************************)
EXTENDS Naturals, FiniteSets, Sequences, SequencesExt

CONSTANTS
    Names,            \* kernel functions
    Warps, Instrs,    \* what a record carries
    SpinInstrs,       \* spinlock_instr_map, {} where nothing is to be skipped
    Keep,             \* SPINLOCK_ITER_TO_KEEP
    Environments,     \* what the environment variables may say, and bounds on the program
    NumKernels        \* the largest of those bounds

ASSUME TracerAssumption ==
    /\ Keep \in Nat /\ NumKernels \in Nat
    /\ SpinInstrs \in [Names -> SUBSET Instrs]
    /\ \A e \in Environments :
         /\ {e.fromStart, e.terminate} \subseteq BOOLEAN
         /\ e.kernels \in 0..NumKernels /\ {e.records, e.graphs} \subseteq Nat
         /\ \A r \in e.ranges : r.start \in Nat /\ r.end \in Nat

VARIABLES
    env,         \* the environment the tool was loaded with
    at,          \* where the application thread is
    kernelid,    \* ctx_kernelid: number of the next kernel
    names,       \* name of every kernel entered so far
    active_region, stop_report,
    instrumented,\* functions whose instrumented version is enabled
    current,     \* ctx_current_kernel_name
    resultsFile, \* kernel whose file ctx_resultsFile points to, 0 at first
    open,        \* whether that file is open
    files,       \* contents of the trace files, by kernel
    closed,      \* kernels whose file was closed
    listed,      \* kernelslist: kernels and copies in the order written
    graph,       \* kernels captured so far
    graphLaunches,
    running,     \* kernels the GPU is executing
    left,        \* records the running kernels may still push
    channel,     \* what was pushed and not received
    receiving,   \* recv_thread_receiving
    started,     \* recv_thread_started
    joined,      \* the receive thread has returned
    buffer,      \* rest of the batch the receive thread is working on
    counter,     \* warp_counter_map: counts of the spinlock instructions ...
    indices,     \* ... which are those of the warps seen since the last flush
    stray,       \* a record was written to a file that is not open
    pushed       \* history: the records each kernel pushed

appVars  == <<at, kernelid, names, active_region, stop_report, instrumented,
              current, resultsFile, open, closed, listed, graph, graphLaunches>>
gpuVars  == <<running, left, pushed>>
recvVars == <<joined, buffer, counter, indices, stray, files>>
vars == <<env, appVars, gpuVars, recvVars, channel, receiving, started>>

Ranges == env.ranges                 \* DYNAMIC_KERNEL_RANGE: start, end, names
ActiveFromStart == env.fromStart     \* ACTIVE_FROM_START
TerminateUponLimit == env.terminate  \* TERMINATE_UPON_LIMIT
MaxKernels == env.kernels            \* bound: calls of enter_kernel_launch
MaxRecords == env.records            \* bound: records of one execution of one kernel
MaxGraphLaunches == env.graphs       \* bound: launches of the captured graph

(* A record of no kernel (cta_id_x = -1); an entry of no kernel. *)
Flush == [k |-> 0]
Copy == 0
KernelIds == 1..NumKernels

(* The empty warp_counter_map. *)
ZeroCounter == [w \in Warps |-> [i \in Instrs |-> 0]]
NoIndices == [w \in {} |-> {}]

Kernels == 1..(kernelid - 1)

(* A kernel is traced when some range holds its number and its name. *)
should_trace_kernel(id, name) ==
    \E r \in Ranges : /\ id >= r.start
                      /\ r.end = 0 \/ id <= r.end
                      /\ name \in r.names

(* The largest end of a range, 0 when all are open. *)
MaxKernelId == CHOOSE m \in {0} \union {r.end : r \in Ranges} :
                   \A r \in Ranges : r.end <= m

Init ==
    /\ env \in Environments
    /\ at = "host" /\ kernelid = 1 /\ names = <<>>
    /\ active_region = FALSE /\ stop_report = FALSE /\ instrumented = {}
    /\ current \in Names /\ resultsFile = 0 /\ open = FALSE
    /\ files = [k \in KernelIds |-> <<>>] /\ closed = {} /\ listed = <<>>
    /\ graph = <<>> /\ graphLaunches = 0
    /\ running = {} /\ left = 0 /\ channel = <<>>
    /\ receiving = FALSE /\ started = TRUE /\ joined = FALSE
    /\ buffer = <<>> /\ counter = ZeroCounter /\ indices = NoIndices
    /\ stray = FALSE /\ pushed = [k \in KernelIds |-> <<>>]

-----------------------------------------------------------------------------
(* The application thread. *)

RegionOnEnterNeverReopened(name) == active_region
RegionOnEnter(name) ==
    active_region \/ (ActiveFromStart /\ should_trace_kernel(kernelid, name))

NextKernelId == kernelid + 1

LimitReached ==
    TerminateUponLimit /\ MaxKernelId # 0 /\ kernelid > MaxKernelId

(* enter_kernel_launch past its exit: decides whether the kernel is traced, *)
(* opens its file, lists it and lets the receive thread run.               *)
enter_kernel_launch(name) ==
    LET traced == RegionOnEnter(name)
    IN  /\ kernelid <= MaxKernels /\ ~LimitReached
        /\ active_region' = traced /\ stop_report' = ~traced
        /\ instrumented' = IF traced THEN instrumented \union {name}
                                     ELSE instrumented \ {name}
        /\ resultsFile' = IF traced THEN kernelid ELSE resultsFile
        /\ open' = (traced \/ open)
        /\ listed' = IF traced THEN Append(listed, kernelid) ELSE listed
        /\ kernelid' = NextKernelId /\ names' = Append(names, name)
        /\ current' = name
        /\ receiving' = TRUE

(* An ordinary launch: the kernel runs once the callback has returned. *)
Launch(name) ==
    /\ at = "host"
    /\ enter_kernel_launch(name)
    /\ at' = "launched" /\ running' = {kernelid} /\ left' = MaxRecords
    /\ UNCHANGED <<env, closed, graph, graphLaunches, pushed, recvVars, channel, started>>

(* A kernel captured from a stream, or added to a graph: it does not run. *)
Capture(name) ==
    /\ at = "host" /\ MaxGraphLaunches > 0
    /\ enter_kernel_launch(name)
    /\ graph' = Append(graph, kernelid)
    /\ UNCHANGED <<env, at, closed, graphLaunches, gpuVars, recvVars, channel, started>>

(* The process ends in the callback of the first kernel past the limit. *)
ExitAtLimit ==
    /\ at = "host" /\ kernelid <= MaxKernels /\ LimitReached
    /\ at' = "exited"
    /\ UNCHANGED <<env, kernelid, names, active_region, stop_report, instrumented, current,
                   resultsFile, open, closed, listed, graph, graphLaunches,
                   gpuVars, recvVars, channel, receiving, started>>

GraphLaunch ==
    /\ at = "host" /\ graph # <<>> /\ graphLaunches < MaxGraphLaunches
    /\ at' = "graph" /\ running' = ToSet(graph) /\ left' = MaxRecords
    /\ graphLaunches' = graphLaunches + 1
    /\ UNCHANGED <<env, kernelid, names, active_region, stop_report, instrumented, current,
                   resultsFile, open, closed, listed, graph, pushed, recvVars,
                   channel, receiving, started>>

(* leave_kernel_launch up to its wait: the device is idle, the flush record *)
(* follows everything the kernel pushed.  A graph's exit ends here.         *)
FlushChannel ==
    /\ at \in {"launched", "graph"}
    /\ running' = {} /\ left' = 0
    /\ channel' = Append(channel, Flush)
    /\ at' = IF at = "launched" THEN "waiting" ELSE "host"
    /\ UNCHANGED <<env, kernelid, names, active_region, stop_report, instrumented, current,
                   resultsFile, open, closed, listed, graph, graphLaunches, pushed,
                   recvVars, receiving, started>>

WaitOverAtOnce == TRUE
WaitOver == ~receiving

(* One turn of the loop that waits for the receive thread. *)
Yield == at = "waiting" /\ ~WaitOver /\ UNCHANGED vars

(* The rest of leave_kernel_launch.  The region is closed on the number of *)
(* the next kernel and the name of this one.                               *)
leave_kernel_launch ==
    /\ at = "waiting" /\ WaitOver
    /\ at' = "host"
    /\ open' = (open /\ stop_report)
    /\ closed' = IF stop_report THEN closed ELSE closed \union {resultsFile}
    /\ active_region' = (active_region /\
           (ActiveFromStart => should_trace_kernel(kernelid, Last(names))))
    /\ UNCHANGED <<env, kernelid, names, stop_report, instrumented, current, resultsFile,
                   listed, graph, graphLaunches, gpuVars, recvVars, channel,
                   receiving, started>>

MemcpyHtoD ==
    /\ at = "host" /\ ~Contains(listed, Copy)
    /\ listed' = Append(listed, Copy)
    /\ UNCHANGED <<env, at, kernelid, names, active_region, stop_report, instrumented,
                   current, resultsFile, open, closed, graph, graphLaunches,
                   gpuVars, recvVars, channel, receiving, started>>

Profiler(start) ==
    /\ at = "host" /\ ~ActiveFromStart
    /\ active_region' = start
    /\ UNCHANGED <<env, at, kernelid, names, stop_report, instrumented, current, resultsFile,
                   open, closed, listed, graph, graphLaunches, gpuVars, recvVars,
                   channel, receiving, started>>

(* nvbit_at_ctx_term: stop the receive thread and join it. *)
CtxTerm ==
    /\ at = "host" /\ at' = "joining" /\ started' = FALSE
    /\ UNCHANGED <<env, kernelid, names, active_region, stop_report, instrumented, current,
                   resultsFile, open, closed, listed, graph, graphLaunches,
                   gpuVars, recvVars, channel, receiving>>

Join ==
    /\ at = "joining" /\ joined /\ at' = "exited"
    /\ UNCHANGED <<env, kernelid, names, active_region, stop_report, instrumented, current,
                   resultsFile, open, closed, listed, graph, graphLaunches,
                   gpuVars, recvVars, channel, receiving, started>>

-----------------------------------------------------------------------------
(* The GPU: an executing kernel pushes a record for an instruction of a     *)
(* warp.  Nothing is pushed by a function that is not instrumented, or while *)
(* stop_report is set.                                                      *)
Push(k, w, i) ==
    LET r == [k |-> k, n |-> Len(pushed[k]) + 1, w |-> w, i |-> i]
    IN  /\ k \in running /\ left > 0
        /\ names[k] \in instrumented /\ ~stop_report
        /\ left' = left - 1
        /\ channel' = Append(channel, r)
        /\ pushed' = [pushed EXCEPT ![k] = Append(@, r)]
        /\ UNCHANGED <<env, appVars, running, recvVars, receiving, started>>

-----------------------------------------------------------------------------
(* The receive thread. *)

(* channel_host.recv: a batch is any part of what was pushed so far. *)
Receive(n) ==
    /\ at # "exited" /\ started /\ receiving /\ buffer = <<>>
    /\ n \in DOMAIN channel
    /\ buffer' = SubSeq(channel, 1, n)
    /\ channel' = SubSeq(channel, n + 1, Len(channel))
    /\ UNCHANGED <<env, appVars, gpuVars, joined, counter, indices, stray, files,
                   receiving, started>>

ReceivingAfterFlushStays == receiving
ReceivingAfterFlush == FALSE

(* A flush record ends the kernel, and with it the batch. *)
ReceiveFlush ==
    /\ at # "exited" /\ buffer # <<>> /\ Head(buffer) = Flush
    /\ receiving' = ReceivingAfterFlush
    /\ counter' = ZeroCounter /\ indices' = NoIndices
    /\ buffer' = <<>>
    /\ UNCHANGED <<env, appVars, gpuVars, joined, stray, files, channel, started>>

(* Counts of a warp's loop after one more instruction: a spinlock           *)
(* instruction is counted, any other ends the loop.                        *)
Count(c, spins, i) == IF i \in spins THEN [c EXCEPT ![i] = @ + 1]
                                     ELSE [j \in Instrs |-> 0]

FastForwarded(c, spins, i) == i \in spins /\ c[i] > Keep

RestOfBatchAgain == buffer
RestOfBatch == Tail(buffer)

(* The spinlock instructions a warp's counts were created for: those of the  *)
(* kernel current when the first of its records since a flush was seen.      *)
Indices(w) == IF w \in DOMAIN indices THEN indices[w] ELSE SpinInstrs[current]

(* A record is counted, and written unless it is fast-forwarded. *)
ReceiveRecord ==
    /\ at # "exited" /\ buffer # <<>> /\ Head(buffer) # Flush
    /\ LET r == Head(buffer)
           spins == Indices(r.w)
           c == Count(counter[r.w], spins, r.i)
           skip == FastForwarded(c, spins, r.i)
       IN  /\ counter' = [counter EXCEPT ![r.w] = c]
           /\ indices' = [w \in DOMAIN indices \union {r.w} |-> Indices(w)]
           /\ files' = IF skip \/ ~open THEN files
                       ELSE [files EXCEPT ![resultsFile] = Append(@, r)]
           /\ stray' = (stray \/ (~skip /\ ~open))
    /\ buffer' = RestOfBatch
    /\ UNCHANGED <<env, appVars, gpuVars, joined, channel, receiving, started>>

ThreadReturns ==
    /\ at # "exited" /\ ~started /\ ~joined /\ buffer = <<>>
    /\ joined' = TRUE
    /\ UNCHANGED <<env, appVars, gpuVars, buffer, counter, indices, stray, files, channel,
                   receiving, started>>

Exited == at = "exited" /\ UNCHANGED vars

-----------------------------------------------------------------------------
AppNext == \/ \E name \in Names : Launch(name) \/ Capture(name)
           \/ ExitAtLimit \/ GraphLaunch \/ FlushChannel \/ Yield
           \/ leave_kernel_launch \/ MemcpyHtoD \/ \E b \in BOOLEAN : Profiler(b)
           \/ CtxTerm \/ Join \/ Exited
GpuNext == \E k \in KernelIds, w \in Warps, i \in Instrs : Push(k, w, i)
RecvNext == \/ \E n \in 1..Len(channel) : Receive(n)
            \/ ReceiveFlush \/ ReceiveRecord \/ ThreadReturns

Next == AppNext \/ GpuNext \/ RecvNext
Spec == Init /\ [][Next]_vars

(* Each host thread is scheduled; the driver completes what was launched. *)
FairSpec == Spec /\ WF_vars(RecvNext) /\ WF_vars(FlushChannel)
                 /\ WF_vars(leave_kernel_launch \/ Join)

-----------------------------------------------------------------------------
Record == [k : KernelIds, n : Nat, w : Warps, i : Instrs]

(* Type correctness; in particular no kernel is entered past the bound. *)
TypeOK ==
    /\ at \in {"host", "launched", "graph", "waiting", "joining", "exited"}
    /\ kernelid \in 1..(MaxKernels + 1) /\ Len(names) = kernelid - 1
    /\ {active_region, stop_report, open, receiving, started, joined, stray}
           \subseteq BOOLEAN
    /\ instrumented \subseteq Names /\ current \in Names
    /\ resultsFile \in 0..MaxKernels /\ closed \subseteq KernelIds
    /\ \A r \in ToSet(channel \o buffer) : r = Flush \/ r \in Record

(* Reference for the fast-forward: record j of what a kernel pushed is kept *)
(* unless it is a spinlock instruction its warp has already executed Keep    *)
(* times since it last executed anything else.                             *)
Kept(s, j, spins) ==
    LET other == {m \in 1..j : s[m].w = s[j].w /\ s[m].i \notin spins}
        since == {m \in 1..j : /\ \A o \in other : o < m
                               /\ s[m].w = s[j].w /\ s[m].i = s[j].i}
    IN  Cardinality(since) <= Keep \/ s[j].i \notin spins

(* As long as no graph was launched, a closed trace file is exactly what its  *)
(* kernel pushed, in order, less the iterations fast-forwarded, whatever the  *)
(* batches and the interleaving of warps; and nothing is written once it is    *)
(* closed (the wait at line 627 against the receive thread at 971).          *)
ClosedFilesExact ==
    graphLaunches = 0 =>
        /\ ~stray
        /\ \A k \in closed :
               /\ ToSet(files[k]) =
                      {r \in ToSet(pushed[k]) : Kept(pushed[k], r.n, SpinInstrs[names[k]])}
               /\ \A p, q \in DOMAIN files[k] : p < q => files[k][p].n < files[k][q].n

(* No record is written twice: whatever graphs do to the hand-shake, a     *)
(* record is in one file, in the channel or in the batch, at most once.      *)
RecordsAtMostOnce ==
    \A k \in Kernels : \A r \in ToSet(pushed[k]) :
        LET inside(s) == {p \in DOMAIN s : s[p] = r}
            written == UNION {{f} \X inside(files[f]) : f \in KernelIds}
        IN  Cardinality(written) + Cardinality(inside(channel))
              + Cardinality(inside(buffer)) <= 1

(* Every kernel whose own number and name are in a range is in the list of    *)
(* kernels, although the region is closed and reopened around it.            *)
MatchingKernelsTraced ==
    ActiveFromStart =>
        \A k \in Kernels : should_trace_kernel(k, names[k]) => Contains(listed, k)

(* Only those are: "traces kernels 5-8 with matching names". *)
OnlyMatchingKernelsTraced ==
    ActiveFromStart =>
        \A k \in Kernels : Contains(listed, k) => should_trace_kernel(k, names[k])

(* Once leave_kernel_launch has returned, the receive thread has dealt with   *)
(* every record of the kernel: "wait here until the receiving thread has not  *)
(* finished with the current kernel".                                       *)
WaitCoversKernel ==
    \A k \in closed : \A i \in DOMAIN channel : channel[i].k # k

(* The wait of leave_kernel_launch ends, also when flush records of graph      *)
(* launches are mixed with those of kernels and batches are cut short.       *)
LaunchReturns == at = "waiting" ~> at # "waiting"
=============================================================================
