----------------------------- MODULE ThreadSync -----------------------------
(***************************************************************************)
(* The thread manager of the many-core simulator (common/system/              *)
(* thread_manager.cc) and the two servers that stall and resume simulated      *)
(* threads through it: sync_server.cc (mutex, condition variable, barrier)     *)
(* and syscall_server.cc (sleep and futex calls, timeouts). Every call is      *)
(* made by the host thread of a simulated thread and runs under                *)
(* m_thread_lock; stallThread gives the lock up only inside Thread::wait.      *)
(* Every thread has a core of its own.                                       *)
(***************************************************************************)
EXTENDS Integers, Sequences, FiniteSets, SequencesExt

CONSTANTS
    Threads,      \* simulated threads; Main exists from the start
    Main,
    Values,       \* values of a futex word, 0 the initial one
    BarrierCount, \* m_count of the one barrier
    Never,        \* the timeout of an untimed wait
    Programs,     \* the applications and the bounds on what they do: the calls they
                  \* make, how many each thread makes, the futex words, the lengths of
                  \* timeouts in quanta, the quanta that are counted, and two habits (below)
    NoThread

ASSUME ThreadSyncAssumption ==
    /\ IsFiniteSet(Threads) /\ Main \in Threads /\ NoThread \notin Threads
    /\ 0 \in Values /\ Never \notin Nat
    /\ BarrierCount \in Nat \ {0}
    /\ \A p \in Programs : /\ {p.maxTime, p.maxCalls} \subseteq Nat
                           /\ p.timeouts \subseteq (1..p.maxTime) \cup {Never}
                           /\ {p.lastMayExit, p.joinsUnstarted} \subseteq BOOLEAN

VARIABLES
    program,   \* the application that is simulated
    status,    \* m_thread_state[].status; "none" before createThread
    waiter,    \* m_thread_state[].waiter
    host,      \* the host thread: "none", "active", "stalling" (in stallThread,
               \* with the lock), "waiting" (in Thread::wait) or "gone"
    signalled, \* m_cond of the thread was signalled since it went to wait
    msg,       \* m_wakeup_msg
    call,      \* the call the host thread is in, "none" for none
    mutex,     \* SimMutex: owner and queue
    cond,      \* SimCond: the queue of waiters
    barrier,   \* SimBarrier: the queue of waiters
    futex,     \* SimFutex of each word: queue of waiters
    mem,       \* the futex words in the application's memory
    sleeping,  \* m_sleeping
    now,       \* the quantum the last HOOK_PERIODIC was called for
    aborted,   \* the assertion of barrierRelease about a deadlock failed
    calls,     \* calls each thread has made
    storing,   \* threads that have stored to a word and not yet woken its waiters
    holds,     \* threads whose lock or wait call has returned, not unlocked since
    arrivals,  \* calls of barrierWait of each thread
    passes     \* returns from barrierWait of each thread

vars == <<program, status, waiter, host, signalled, msg, call, mutex, cond, barrier, futex,
          mem, sleeping, now, aborted, calls, storing, holds, arrivals, passes>>
threads == <<status, host, signalled, msg, call>>
pthread == <<mutex, cond, barrier, holds, arrivals, passes>>
kernel == <<futex, mem, sleeping, storing>>

Calls == program.calls
MaxCalls == program.maxCalls
Timeouts == program.timeouts
Addrs == program.words
MaxTime == program.maxTime
LastMayExit == program.lastMayExit        \* the last running thread may end before the others
JoinsUnstarted == program.joinsUnstarted  \* a thread may be joined before it has started

Entry(t, timeout, val) == [thread |-> t, timeout |-> timeout, val |-> val]

Init ==
    /\ program \in Programs
    /\ status = [t \in Threads |-> IF t = Main THEN "running" ELSE "none"]
    /\ host = [t \in Threads |-> IF t = Main THEN "active" ELSE "none"]
    /\ waiter = [t \in Threads |-> NoThread]
    /\ signalled = [t \in Threads |-> FALSE] /\ msg = [t \in Threads |-> FALSE]
    /\ call = [t \in Threads |-> "none"]
    /\ mutex = [owner |-> NoThread, waiting |-> <<>>]
    /\ cond = <<>> /\ barrier = <<>> /\ sleeping = <<>>
    /\ futex = [a \in Addrs |-> <<>>] /\ mem = [a \in Addrs |-> 0]
    /\ now = 0 /\ aborted = FALSE
    /\ calls = [t \in Threads |-> 0]
    /\ storing = [t \in Threads |-> {}] /\ holds = {}
    /\ arrivals = [t \in Threads |-> 0] /\ passes = [t \in Threads |-> 0]

-----------------------------------------------------------------------------
(* thread_manager.cc                                                        *)

LockFree == \A t \in Threads : host[t] # "stalling"
AnyThreadRunningStarted == \E t \in Threads : status[t] = "running"
AnyThreadRunning == \E t \in Threads : status[t] \in {"running", "initializing"}

(* A host thread that makes a call: it holds m_thread_lock for the whole step. *)
Caller(t, name) ==
    /\ ~aborted /\ LockFree
    /\ host[t] = "active" /\ call[t] = "none" /\ name \in Calls
    /\ calls[t] < MaxCalls
    /\ calls' = [calls EXCEPT ![t] = @ + 1]

(* What a call does to the threads: resumeThread for those in woken, with a     *)
(* message, and stallThread_async for itself when it stalls.                   *)
Resume(woken, m) ==
    /\ status' = [t \in Threads |-> IF t \in woken THEN "running" ELSE status[t]]
    /\ signalled' = [t \in Threads |-> signalled[t] \/ t \in woken]
    /\ msg' = [t \in Threads |-> IF t \in woken THEN m ELSE msg[t]]
    /\ UNCHANGED <<program, host, call>>

ResumeAndStall(woken, self, name) ==
    /\ status' = [t \in Threads |-> IF t = self THEN "stalled"
                                    ELSE IF t \in woken THEN "running" ELSE status[t]]
    /\ signalled' = [t \in Threads |-> signalled[t] \/ t \in woken]
    /\ msg' = [t \in Threads |-> IF t \in woken THEN FALSE ELSE msg[t]]
    /\ host' = [host EXCEPT ![self] = "stalling"]
    /\ call' = [call EXCEPT ![self] = name]

Stall(self, name) == ResumeAndStall({}, self, name)

(* createThread: Main's trace starts a thread, whose host thread comes later.  *)
Create(t, new) ==
    /\ Caller(t, "create")
    /\ status[new] = "none"
    /\ status' = [status EXCEPT ![new] = "initializing"]
    /\ UNCHANGED <<program, waiter, host, signalled, msg, call, pthread, kernel, now, aborted>>

(* onThreadStart signals the thread's waiter, whichever call made it one.      *)
OnThreadStart(t) ==
    /\ ~aborted /\ LockFree
    /\ status[t] = "initializing"
    /\ status' = [status EXCEPT ![t] = "running"]
    /\ host' = [host EXCEPT ![t] = "active"]
    /\ signalled' = [u \in Threads |-> signalled[u] \/ u = waiter[t]]
    /\ msg' = [u \in Threads |-> msg[u] /\ u # waiter[t]]
    /\ waiter' = [waiter EXCEPT ![t] = NoThread]
    /\ UNCHANGED <<program, call, pthread, kernel, now, aborted, calls>>

(* A program joins a thread once.                                            *)
JoinThread(t, target) ==
    /\ Caller(t, "join")
    /\ t # target /\ status[target] # "none" /\ waiter[target] = NoThread
    /\ status[target] = "initializing" => JoinsUnstarted
    /\ IF status[target] = "idle"
       THEN UNCHANGED <<threads, waiter>>
       ELSE /\ waiter' = [waiter EXCEPT ![target] = t]
            /\ Stall(t, "join")
    /\ UNCHANGED <<program, pthread, kernel, now, aborted>>

OnThreadExit(t) ==
    /\ ~aborted /\ LockFree
    /\ host[t] = "active" /\ call[t] = "none" /\ status[t] = "running"
    /\ mutex.owner # t /\ storing[t] = {}
    /\ \/ LastMayExit
       \/ \E u \in Threads \ {t} : status[u] \in {"running", "initializing"}
       \/ \A u \in Threads \ {t} : status[u] \in {"none", "idle"}
    /\ LET woken == {waiter[t]} \ {NoThread} IN
       /\ status' = [u \in Threads |-> IF u = t THEN "idle"
                                       ELSE IF u \in woken THEN "running" ELSE status[u]]
       /\ signalled' = [u \in Threads |-> signalled[u] \/ u \in woken]
       /\ msg' = [u \in Threads |-> msg[u] /\ u \notin woken]
    /\ host' = [host EXCEPT ![t] = "gone"]
    /\ waiter' = [waiter EXCEPT ![t] = NoThread]
    /\ UNCHANGED <<program, call, pthread, kernel, now, aborted, calls>>

(* What the end of a stalled call means to the caller.                        *)
Returned(t) ==
    /\ holds' = IF call[t] \in {"lock", "cond"} THEN holds \cup {t} ELSE holds
    /\ passes' = IF call[t] = "barrier" THEN [passes EXCEPT ![t] = @ + 1] ELSE passes
    /\ call' = [call EXCEPT ![t] = "none"]
    /\ host' = [host EXCEPT ![t] = "active"]

(* The end of stallThread: a thread that HOOK_PERIODIC woke does not wait.     *)
WokenAlreadyIgnored(t) == FALSE
WokenAlreadyBySignal(t) == signalled[t]
WokenAlready(t) == status[t] = "running"

EnterWait(t) ==
    /\ ~aborted /\ host[t] = "stalling" /\ AnyThreadRunning
    /\ IF WokenAlready(t)
       THEN Returned(t) /\ UNCHANGED <<signalled, msg>>
       ELSE /\ host' = [host EXCEPT ![t] = "waiting"]
            /\ signalled' = [signalled EXCEPT ![t] = FALSE]
            /\ msg' = [msg EXCEPT ![t] = FALSE]
            /\ UNCHANGED <<call, holds, passes>>
    /\ UNCHANGED <<program, status, waiter, mutex, cond, barrier, arrivals, kernel, now, aborted, calls>>

LeaveWait(t) ==
    /\ ~aborted /\ LockFree
    /\ host[t] = "waiting" /\ signalled[t]
    /\ Returned(t)
    /\ UNCHANGED <<program, status, waiter, signalled, msg, mutex, cond, barrier, arrivals,
                   kernel, now, aborted, calls>>

-----------------------------------------------------------------------------
(* sync_server.cc                                                           *)

MutexLock(t) ==
    /\ Caller(t, "lock") /\ mutex.owner # t
    /\ IF mutex.owner = NoThread
       THEN /\ mutex' = [mutex EXCEPT !.owner = t]
            /\ holds' = holds \cup {t}
            /\ UNCHANGED threads
       ELSE /\ mutex' = [mutex EXCEPT !.waiting = Append(@, t)]
            /\ Stall(t, "lock")
            /\ UNCHANGED holds
    /\ UNCHANGED <<program, waiter, cond, barrier, arrivals, passes, kernel, now, aborted>>

(* mutexLock with tryLock: isLocked says no to the owner itself, which then    *)
(* queues behind itself.                                                     *)
MutexTryLock(t) ==
    /\ Caller(t, "trylock")
    /\ CASE mutex.owner = NoThread ->
              /\ mutex' = [mutex EXCEPT !.owner = t]
              /\ holds' = holds \cup {t}
              /\ UNCHANGED threads
         [] mutex.owner = t ->
              /\ mutex' = [mutex EXCEPT !.waiting = Append(@, t)]
              /\ Stall(t, "lock")
              /\ UNCHANGED holds
         [] OTHER -> UNCHANGED <<mutex, holds, threads>>
    /\ UNCHANGED <<program, waiter, cond, barrier, arrivals, passes, kernel, now, aborted>>

(* SimMutex::unlock hands the mutex to the first waiter.                      *)
HandedOverFree == [owner |-> NoThread,
                   waiting |-> IF mutex.waiting = <<>> THEN <<>> ELSE Tail(mutex.waiting)]
HandedOverStillQueued ==
    IF mutex.waiting = <<>> THEN [owner |-> NoThread, waiting |-> <<>>]
    ELSE [mutex EXCEPT !.owner = Head(mutex.waiting)]
HandedOver ==
    IF mutex.waiting = <<>> THEN [owner |-> NoThread, waiting |-> <<>>]
    ELSE [owner |-> Head(mutex.waiting), waiting |-> Tail(mutex.waiting)]
NextInLine == IF mutex.waiting = <<>> THEN {} ELSE {Head(mutex.waiting)}

MutexUnlock(t) ==
    /\ Caller(t, "lock") /\ mutex.owner = t
    /\ mutex' = HandedOver
    /\ Resume(NextInLine, FALSE)
    /\ holds' = holds \ {t}
    /\ UNCHANGED <<program, waiter, cond, barrier, arrivals, passes, kernel, now, aborted>>

CondWait(t) ==
    /\ Caller(t, "cond") /\ mutex.owner = t
    /\ mutex' = HandedOver
    /\ cond' = Append(cond, t)
    /\ ResumeAndStall(NextInLine, t, "cond")
    /\ holds' = holds \ {t}
    /\ UNCHANGED <<program, waiter, barrier, arrivals, passes, kernel, now, aborted>>

(* SimMutex::lock_async for woken waiters: the first gets a free mutex, the     *)
(* others queue for it.                                                      *)
LockAsync(woken) ==
    IF mutex.owner = NoThread /\ woken # <<>>
    THEN /\ mutex' = [owner |-> Head(woken), waiting |-> mutex.waiting \o Tail(woken)]
         /\ Resume({Head(woken)}, FALSE)
    ELSE /\ mutex' = [mutex EXCEPT !.waiting = @ \o woken]
         /\ UNCHANGED threads

CondSignal(t) ==
    /\ Caller(t, "cond") /\ cond # <<>>
    /\ LockAsync(<<Head(cond)>>)
    /\ cond' = Tail(cond)
    /\ UNCHANGED <<program, waiter, barrier, holds, arrivals, passes, kernel, now, aborted>>

CondBroadcast(t) ==
    /\ Caller(t, "cond") /\ cond # <<>>
    /\ LockAsync(cond)
    /\ cond' = <<>>
    /\ UNCHANGED <<program, waiter, barrier, holds, arrivals, passes, kernel, now, aborted>>

LastToArriveEarly == Len(barrier) >= BarrierCount - 2
LastToArrive == Len(barrier) = BarrierCount - 1

BarrierWait(t) ==
    /\ Caller(t, "barrier")
    /\ arrivals' = [arrivals EXCEPT ![t] = @ + 1]
    /\ IF LastToArrive
       THEN /\ Resume(ToSet(barrier), FALSE)
            /\ barrier' = <<>>
            /\ passes' = [passes EXCEPT ![t] = @ + 1]
       ELSE /\ barrier' = Append(barrier, t)
            /\ Stall(t, "barrier")
            /\ UNCHANGED passes
    /\ UNCHANGED <<program, waiter, mutex, cond, holds, kernel, now, aborted>>

-----------------------------------------------------------------------------
(* syscall_server.cc                                                        *)

Deadline(len) == IF len = Never THEN Never ELSE now + len
InTime == {len \in Timeouts : len = Never \/ now + len <= MaxTime}

(* handleSleepCall *)
Sleep(t) ==
    /\ Caller(t, "sleep")
    /\ \E len \in InTime \ {Never} :
         sleeping' = Append(sleeping, Entry(t, Deadline(len), 0))
    /\ Stall(t, "sleep")
    /\ UNCHANGED <<program, waiter, pthread, futex, mem, storing, now, aborted>>

(* futexWait: the word is read and the waiter queued under one lock.          *)
WouldBlockNever(a, val) == FALSE
WouldBlock(a, val) == mem[a] # val

FutexWait(t, a, val) ==
    /\ Caller(t, "futex")
    /\ IF WouldBlock(a, val)
       THEN UNCHANGED <<futex, threads>>
       ELSE /\ \E len \in InTime :
                 futex' = [futex EXCEPT ![a] = Append(@, Entry(t, Deadline(len), val))]
            /\ Stall(t, "futex")
    /\ UNCHANGED <<program, waiter, pthread, mem, sleeping, storing, now, aborted>>

(* The application stores to a word without any lock of the simulator.        *)
Store(t, a, val) ==
    /\ ~aborted /\ host[t] = "active" /\ call[t] = "none" /\ "futex" \in Calls
    /\ calls[t] < MaxCalls /\ calls' = [calls EXCEPT ![t] = @ + 1]
    /\ storing[t] = {} /\ mem[a] # val
    /\ mem' = [mem EXCEPT ![a] = val]
    /\ storing' = [storing EXCEPT ![t] = {a}]
    /\ UNCHANGED <<program, threads, waiter, pthread, futex, sleeping, now, aborted>>

(* dequeueWaiter up to n times: the waiters taken from the front. handleFutexCall *)
(* gives FUTEX_WAKE and FUTEX_WAKE_BITSET alike the mask that matches all.      *)
UpTo(a, n) == IF n < Len(futex[a]) THEN n ELSE Len(futex[a])
WokenBy(a, n) == ToSet(SubSeq(futex[a], 1, UpTo(a, n)))
LeftBy(a, n) == SubSeq(futex[a], UpTo(a, n) + 1, Len(futex[a]))
ThreadsOf(entries) == {e.thread : e \in entries}

FutexWake(t, a, n) ==
    /\ ~aborted /\ LockFree
    /\ host[t] = "active" /\ call[t] = "none" /\ a \in storing[t]
    /\ futex' = [futex EXCEPT ![a] = LeftBy(a, n)]
    /\ Resume(ThreadsOf(WokenBy(a, n)), TRUE)
    /\ storing' = [storing EXCEPT ![t] = {}]
    /\ UNCHANGED <<program, waiter, pthread, mem, sleeping, now, aborted, calls>>

(* futexWakeOp: sets the second word, wakes one waiter of the first and, when   *)
(* the second held 0 before, one of the second.                              *)
FutexWakeOp(t, a, b, val) ==
    /\ Caller(t, "wakeop") /\ a # b
    /\ mem' = [mem EXCEPT ![b] = val]
    /\ LET n == IF mem[b] = 0 THEN 1 ELSE 0
       IN /\ futex' = [futex EXCEPT ![a] = LeftBy(a, 1), ![b] = LeftBy(b, n)]
          /\ Resume(ThreadsOf(WokenBy(a, 1) \cup WokenBy(b, n)), TRUE)
    /\ UNCHANGED <<program, waiter, pthread, sleeping, storing, now, aborted>>

(* futexCmpRequeue: wakes n waiters and moves the rest to the other word.      *)
FutexCmpRequeue(t, a, b, n, val) ==
    /\ Caller(t, "requeue") /\ a # b
    /\ IF mem[a] # val
       THEN UNCHANGED <<futex, threads>>
       ELSE /\ futex' = [futex EXCEPT ![a] = <<>>,
                                      ![b] = @ \o LeftBy(a, n)]
            /\ Resume(ThreadsOf(WokenBy(a, n)), TRUE)
    /\ UNCHANGED <<program, waiter, pthread, mem, sleeping, storing, now, aborted>>

(* futexPeriodic, called for every quantum: of the sleepers and of each futex   *)
(* queue the first entry whose time has come is woken.                        *)
Due(entry, time) == entry.timeout # Never /\ entry.timeout <= time
FirstDue(queue, time) ==
    {i \in DOMAIN queue : /\ Due(queue[i], time)
                          /\ \A j \in 1..(i - 1) : ~Due(queue[j], time)}
Expired(queue, time) == {queue[i] : i \in FirstDue(queue, time)}
NotExpired(queue, time) ==
    IF FirstDue(queue, time) = {} THEN queue
    ELSE RemoveAt(queue, CHOOSE i \in FirstDue(queue, time) : TRUE)

(* getNextTimeout returns some timeout whenever an entry has one.              *)
TimeoutPending(futexes, sleepers) ==
    \E queue \in {sleepers} \cup {futexes[a] : a \in Addrs} :
        \E e \in ToSet(queue) : e.timeout # Never

FutexPeriodic(time) ==
    LET gone == Expired(sleeping, time) \cup UNION {Expired(futex[a], time) : a \in Addrs}
    IN /\ sleeping' = NotExpired(sleeping, time)
       /\ futex' = [a \in Addrs |-> NotExpired(futex[a], time)]
       /\ Resume(ThreadsOf(gone), FALSE)

(* barrierRelease calls HOOK_PERIODIC for the next quantum: in a thread that    *)
(* reached the barrier, or under stallThread. When nobody runs any more, only a *)
(* timeout can help.                                                         *)
Tick == IF now < MaxTime THEN now + 1 ELSE now

Periodic ==
    /\ ~aborted
    /\ AnyThreadRunning \/ ~LockFree
    /\ now' = Tick
    /\ FutexPeriodic(Tick)
    /\ aborted' = (~AnyThreadRunning' /\ ~TimeoutPending(futex', sleeping'))
    /\ UNCHANGED <<program, waiter, pthread, mem, storing, calls>>

-----------------------------------------------------------------------------
Call(t) ==
    \/ \E u \in Threads : Create(t, u) \/ JoinThread(t, u)
    \/ OnThreadExit(t)
    \/ MutexLock(t) \/ MutexTryLock(t) \/ MutexUnlock(t)
    \/ CondWait(t) \/ CondSignal(t) \/ CondBroadcast(t)
    \/ BarrierWait(t)
    \/ Sleep(t)
    \/ \E a \in Addrs : \E val \in Values : FutexWait(t, a, val) \/ Store(t, a, val)
    \/ \E a \in Addrs : FutexWake(t, a, Cardinality(Threads))
    \/ \E a, b \in Addrs : \E val \in Values :
          FutexWakeOp(t, a, b, val) \/ FutexCmpRequeue(t, a, b, 1, val)

Next ==
    \/ \E t \in Threads :
          Call(t) \/ OnThreadStart(t) \/ EnterWait(t) \/ LeaveWait(t)
    \/ Periodic

Spec == Init /\ [][Next]_vars

(* Host threads are scheduled by the operating system, and running simulated    *)
(* threads keep reaching the barrier, which calls the periodic hook.            *)
FairSpec ==
    /\ Spec
    /\ \A t \in Threads : WF_vars(OnThreadStart(t) \/ EnterWait(t) \/ LeaveWait(t))
    /\ WF_vars(Periodic)

-----------------------------------------------------------------------------
Queued(t) ==
    LET in(queue) == {i \in DOMAIN queue : queue[i] = t}
        timed(queue) == {i \in DOMAIN queue : queue[i].thread = t}
    IN <<Cardinality(in(mutex.waiting)), Cardinality(in(cond)), Cardinality(in(barrier)),
         Cardinality(timed(sleeping)),
         Cardinality(UNION {{a} \X timed(futex[a]) : a \in Addrs}),
         Cardinality({u \in Threads : waiter[u] = t})>>
Places(t) == LET n == Queued(t) IN n[1] + n[2] + n[3] + n[4] + n[5] + n[6]

TypeOK ==
    /\ status \in [Threads -> {"none", "initializing", "running", "stalled", "idle"}]
    /\ host \in [Threads -> {"none", "active", "stalling", "waiting", "gone"}]
    /\ waiter \in [Threads -> Threads \cup {NoThread}]
    /\ mutex.owner \in Threads \cup {NoThread}
    /\ Cardinality({t \in Threads : host[t] = "stalling"}) <= 1
    /\ now \in 0..MaxTime /\ aborted \in BOOLEAN

(* A stalled thread is in exactly one queue and every other thread in none: a   *)
(* wake-up, a time-out, a hand-over and a requeue each take a thread out of the *)
(* queue it was in and leave it in at most one other.                          *)
QueuedIffStalled ==
    \A t \in Threads : Places(t) = (IF status[t] = "stalled" THEN 1 ELSE 0)

(* A thread whose lock, try-lock or condition wait has returned owns the mutex  *)
(* until it unlocks it, so no two are inside at once (sync_server.cc).          *)
HolderOwns == \A t \in holds : mutex.owner = t

(* Nobody leaves a barrier before everybody has come to it as often: a thread   *)
(* has at most passed as many barriers as each other has entered.              *)
BarrierTogether == \A t, u \in Threads : passes[t] <= arrivals[u]

(* A thread that waits for a word to change is not left behind: its word still  *)
(* has the value it saw, or the thread that changed it has yet to wake it       *)
(* (futexWait and futexWake). FUTEX_WAKE_OP changes a word and wakes one waiter, *)
(* and FUTEX_CMP_REQUEUE lets waiters wait for another word than they read.      *)
NoLostWakeup ==
    Calls \cap {"wakeop", "requeue"} = {} =>
        \A a \in Addrs : \A e \in ToSet(futex[a]) :
            mem[a] = e.val \/ \E t \in Threads : a \in storing[t]

(* A resumed host thread always finds its status running: the simulator never   *)
(* takes a thread for stalled that executes (anyThreadRunning, isCoreRunning).  *)
ExecutingIsRunning == \A t \in Threads : host[t] = "active" => status[t] = "running"

(* The assertion of barrierRelease that the application has deadlocked only     *)
(* fails when no host thread could go on and none is about to start.           *)
DeadlockIsReal ==
    aborted => \A t \in Threads : host[t] # "active" /\ status[t] # "initializing"

(* A sleeping thread wakes (futexPeriodic), even when the hook that wakes it     *)
(* runs while it is still on its way into Thread::wait, unless the last running  *)
(* thread ended: then nobody calls the hook any more.                          *)
SleepersWake ==
    \A t \in Threads : call[t] = "sleep" /\ ~LastMayExit ~> call[t] # "sleep"

(* pthread_join is implemented by onThreadExit (comment at thread_manager.cc):   *)
(* a join only returns when the joined thread has ended.                       *)
JoinAfterExit ==
    [][\A t, u \in Threads :
         waiter[u] = t /\ waiter'[u] = NoThread => status'[u] = "idle"]_vars
=============================================================================
