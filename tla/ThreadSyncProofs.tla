--------------------------- MODULE ThreadSyncProofs ---------------------------
(***************************************************************************)
(* Proofs about ThreadSync, for every number of threads, every program and    *)
(* every bound: a thread that executes is known to run, the deadlock assertion *)
(* is right, whoever locked owns the mutex, a barrier keeps its threads         *)
(* together, no futex wake-up is lost, and a stalled thread is in one queue.     *)
(* A thread must not return before what it waits for is its own, so the proof    *)
(* follows every queue a thread can be resumed from.                          *)
(***************************************************************************)
EXTENDS ThreadSync, FiniteSetTheorems, TLAPS

-----------------------------------------------------------------------------
(* Queues *)

\* What is taken from the front of a queue and what is left of it.
LEMMA Split ==
  ASSUME NEW S, NEW s \in Seq(S), NEW n \in Nat, n <= Len(s)
  PROVE  /\ SubSeq(s, 1, n) \in Seq(S) /\ Len(SubSeq(s, 1, n)) = n
         /\ \A i \in 1 .. n : SubSeq(s, 1, n)[i] = s[i]
         /\ SubSeq(s, n + 1, Len(s)) \in Seq(S)
         /\ Len(SubSeq(s, n + 1, Len(s))) = Len(s) - n
         /\ \A i \in 1 .. Len(s) - n : SubSeq(s, n + 1, Len(s))[i] = s[n + i]
  OBVIOUS

\* nothing is in both.
LEMMA SplitSets ==
  ASSUME NEW S, NEW s \in Seq(S), NEW n \in Nat, n <= Len(s)
  PROVE  /\ ToSet(s) = ToSet(SubSeq(s, 1, n)) \union ToSet(SubSeq(s, n + 1, Len(s)))
         /\ IsInjective(s) => /\ IsInjective(SubSeq(s, n + 1, Len(s)))
                              /\ ToSet(SubSeq(s, 1, n))
                                   \intersect ToSet(SubSeq(s, n + 1, Len(s))) = {}
<1> DEFINE a == SubSeq(s, 1, n)
           b == SubSeq(s, n + 1, Len(s))
<1>1. /\ a \in Seq(S) /\ Len(a) = n /\ \A i \in 1 .. n : a[i] = s[i]
      /\ b \in Seq(S) /\ Len(b) = Len(s) - n /\ \A i \in 1 .. Len(s) - n : b[i] = s[n + i]
  BY Split
<1>2. DOMAIN a = 1 .. n /\ DOMAIN b = 1 .. Len(s) - n /\ DOMAIN s = 1 .. Len(s)
  BY <1>1
<1> HIDE DEF a, b
<1>3. \A x \in ToSet(a) : \E i \in 1 .. n : x = s[i]
  BY <1>1, <1>2 DEF ToSet
<1>4. \A x \in ToSet(b) : \E i \in n + 1 .. Len(s) : x = s[i]
  <2> TAKE x \in ToSet(b)
  <2>1. PICK j \in 1 .. Len(s) - n : x = b[j]
    BY <1>2 DEF ToSet
  <2>2. n + j \in n + 1 .. Len(s) /\ x = s[n + j]
    BY <1>1, <2>1
  <2> QED BY <2>2
<1>5. \A i \in 1 .. Len(s) : s[i] \in ToSet(a) \union ToSet(b)
  <2> TAKE i \in 1 .. Len(s)
  <2>1. CASE i <= n
    <3>1. i \in DOMAIN a /\ a[i] = s[i]
      BY <1>1, <1>2, <2>1
    <3> QED BY <3>1 DEF ToSet
  <2>2. CASE i > n
    <3>1. i - n \in DOMAIN b /\ b[i - n] = s[n + (i - n)] /\ n + (i - n) = i
      BY <1>1, <1>2, <2>2
    <3>2. b[i - n] = s[i]
      BY <3>1
    <3> QED BY <3>1, <3>2 DEF ToSet
  <2> QED BY <2>1, <2>2
<1>6. ToSet(s) = ToSet(a) \union ToSet(b)
  <2>1. \A x \in ToSet(s) : x \in ToSet(a) \union ToSet(b)
    BY <1>2, <1>5 DEF ToSet
  <2>2. \A x \in ToSet(a) \union ToSet(b) : \E i \in 1 .. Len(s) : x = s[i]
    <3>1. 1 .. n \subseteq 1 .. Len(s) /\ n + 1 .. Len(s) \subseteq 1 .. Len(s)
      OBVIOUS
    <3> QED BY <1>3, <1>4, <3>1
  <2>3. \A x \in ToSet(a) \union ToSet(b) : x \in ToSet(s)
    BY <1>2, <2>2 DEF ToSet
  <2> QED BY <2>1, <2>3
<1>7. ASSUME IsInjective(s)
      PROVE  IsInjective(b) /\ ToSet(a) \intersect ToSet(b) = {}
  <2>1. \A i, j \in 1 .. Len(s) : s[i] = s[j] => i = j
    BY <1>2, <1>7 DEF IsInjective
  <2>2. \A i, j \in DOMAIN b : b[i] = b[j] => i = j
    <3> SUFFICES ASSUME NEW i \in 1 .. Len(s) - n, NEW j \in 1 .. Len(s) - n, b[i] = b[j]
                 PROVE  i = j
      BY <1>2
    <3>1. b[i] = s[n + i] /\ b[j] = s[n + j]
      BY <1>1
    <3>2. n + i \in 1 .. Len(s) /\ n + j \in 1 .. Len(s)
      OBVIOUS
    <3>3. n + i = n + j
      BY <2>1, <3>1, <3>2, Zenon
    <3> QED BY <3>3
  <2>3. \A x : ~ (x \in ToSet(a) /\ x \in ToSet(b))
    <3> SUFFICES ASSUME NEW x, x \in ToSet(a), x \in ToSet(b) PROVE FALSE
      OBVIOUS
    <3>1. PICK i \in 1 .. n : x = s[i]
      BY <1>3
    <3>2. PICK j \in n + 1 .. Len(s) : x = s[j]
      BY <1>4
    <3>3. /\ i \in Nat /\ j \in Nat /\ Len(s) \in Nat
          /\ 1 <= i /\ i <= n /\ n + 1 <= j /\ j <= Len(s)
      OBVIOUS
    <3>4. i \in 1 .. Len(s) /\ j \in 1 .. Len(s) /\ i # j
      BY <3>3
    <3> QED BY <2>1, <3>1, <3>2, <3>4, Zenon
  <2> QED BY <2>2, <2>3 DEF IsInjective
<1> QED BY <1>6, <1>7 DEF a, b

\* The set of what a sequence holds is finite, and not larger than it is long.
LEMMA SetOfSequence ==
  ASSUME NEW S, NEW s \in Seq(S)
  PROVE  IsFiniteSet(ToSet(s)) /\ Cardinality(ToSet(s)) <= Len(s) /\ ToSet(s) \subseteq S
<1>1. ToSet(s) = {s[i] : i \in 1 .. Len(s)} /\ ToSet(s) \subseteq S
  BY DEF ToSet
<1>2. IsFiniteSet(1 .. Len(s)) /\ Cardinality(1 .. Len(s)) = Len(s)
  <2>1. Len(s) \in Nat /\ Len(s) \in Int /\ 1 \in Int
    OBVIOUS
  <2>2. /\ IsFiniteSet(1 .. Len(s))
        /\ Cardinality(1 .. Len(s)) = IF 1 > Len(s) THEN 0 ELSE Len(s) - 1 + 1
    BY <2>1, FS_Interval
  <2> QED BY <2>1, <2>2
<1>3. s \in Surjection(1 .. Len(s), ToSet(s))
  BY <1>1 DEF Surjection
<1> QED BY <1>1, <1>2, <1>3, FS_Surjection

\* Something joins a queue.
LEMMA AppendSets ==
  ASSUME NEW S, NEW s \in Seq(S), NEW x \in S
  PROVE  /\ Append(s, x) \in Seq(S)
         /\ ToSet(Append(s, x)) = ToSet(s) \union {x}
         /\ IsInjective(s) /\ x \notin ToSet(s) => IsInjective(Append(s, x))
<1> DEFINE t == Append(s, x)
<1>1. /\ t \in Seq(S) /\ Len(t) = Len(s) + 1 /\ t[Len(s) + 1] = x
      /\ \A i \in 1 .. Len(s) : t[i] = s[i]
  OBVIOUS
<1>2. DOMAIN t = 1 .. Len(s) + 1 /\ DOMAIN s = 1 .. Len(s)
  BY <1>1
<1> HIDE DEF t
<1>3. \A i \in DOMAIN t : (i \in DOMAIN s /\ t[i] = s[i]) \/ i = Len(s) + 1
  BY <1>1, <1>2
<1>4. \A i \in DOMAIN s : i \in DOMAIN t /\ s[i] = t[i]
  BY <1>1, <1>2
<1>5. Len(s) + 1 \in DOMAIN t /\ t[Len(s) + 1] = x
  BY <1>1, <1>2
<1>6. ToSet(t) = ToSet(s) \union {x}
  BY <1>3, <1>4, <1>5 DEF ToSet
<1>7. ASSUME IsInjective(s), x \notin ToSet(s) PROVE IsInjective(t)
  <2>1. \A i \in DOMAIN s : s[i] # x
    BY <1>7 DEF ToSet
  <2>2. \A i, j \in DOMAIN s : s[i] = s[j] => i = j
    BY <1>7 DEF IsInjective
  <2> QED BY <1>3, <1>5, <2>1, <2>2 DEF IsInjective
<1> QED BY <1>1, <1>6, <1>7 DEF t

\* The first of a queue leaves it.
LEMMA TailSets ==
  ASSUME NEW S, NEW s \in Seq(S), s # <<>>
  PROVE  /\ Head(s) \in S /\ Head(s) \in ToSet(s) /\ Tail(s) \in Seq(S)
         /\ ToSet(s) = {Head(s)} \union ToSet(Tail(s))
         /\ IsInjective(s) => IsInjective(Tail(s)) /\ Head(s) \notin ToSet(Tail(s))
<1>1. 1 \in Nat /\ 1 <= Len(s) /\ Tail(s) = SubSeq(s, 1 + 1, Len(s)) /\ Head(s) = s[1]
  OBVIOUS
<1>2. ToSet(SubSeq(s, 1, 1)) = {Head(s)}
  <2>1. /\ Len(SubSeq(s, 1, 1)) = 1 /\ SubSeq(s, 1, 1) \in Seq(S)
        /\ \A i \in 1 .. 1 : SubSeq(s, 1, 1)[i] = s[i]
    BY <1>1, Split
  <2>2. DOMAIN SubSeq(s, 1, 1) = 1 .. 1
    BY <2>1
  <2> QED BY <1>1, <2>1, <2>2 DEF ToSet
<1>3. Head(s) \in S /\ Tail(s) \in Seq(S)
  BY <1>1
<1>4. /\ ToSet(s) = ToSet(SubSeq(s, 1, 1)) \union ToSet(SubSeq(s, 1 + 1, Len(s)))
      /\ IsInjective(s) => /\ IsInjective(SubSeq(s, 1 + 1, Len(s)))
                           /\ ToSet(SubSeq(s, 1, 1))
                                \intersect ToSet(SubSeq(s, 1 + 1, Len(s))) = {}
  BY <1>1, SplitSets
<1> QED BY <1>1, <1>2, <1>3, <1>4

\* A queue joins another.
LEMMA ConcatSets ==
  ASSUME NEW S, NEW s \in Seq(S), NEW r \in Seq(S)
  PROVE  /\ s \o r \in Seq(S)
         /\ ToSet(s \o r) = ToSet(s) \union ToSet(r)
         /\ IsInjective(s) /\ IsInjective(r) /\ ToSet(s) \intersect ToSet(r) = {} =>
              IsInjective(s \o r)
<1> DEFINE t == s \o r
<1>1. /\ t \in Seq(S) /\ Len(t) = Len(s) + Len(r)
      /\ \A i \in 1 .. Len(s) : t[i] = s[i]
      /\ \A i \in 1 .. Len(r) : t[Len(s) + i] = r[i]
  OBVIOUS
<1>2. DOMAIN t = 1 .. Len(s) + Len(r) /\ DOMAIN s = 1 .. Len(s) /\ DOMAIN r = 1 .. Len(r)
  BY <1>1
<1> HIDE DEF t
<1>3. Len(s) \in Nat /\ Len(r) \in Nat
  OBVIOUS
<1>4. \A i \in DOMAIN t : \/ i \in DOMAIN s /\ t[i] = s[i]
                          \/ i - Len(s) \in DOMAIN r /\ t[i] = r[i - Len(s)]
  <2> TAKE i \in DOMAIN t
  <2>1. CASE i <= Len(s)
    BY <1>1, <1>2, <1>3, <2>1
  <2>2. CASE i > Len(s)
    <3>1. i - Len(s) \in 1 .. Len(r) /\ Len(s) + (i - Len(s)) = i
      BY <1>2, <1>3, <2>2
    <3> QED BY <1>1, <1>2, <3>1
  <2> QED BY <1>2, <1>3, <2>1, <2>2
<1>5. \A i \in DOMAIN s : i \in DOMAIN t /\ s[i] = t[i]
  BY <1>1, <1>2, <1>3
<1>6. \A i \in DOMAIN r : Len(s) + i \in DOMAIN t /\ r[i] = t[Len(s) + i]
  BY <1>1, <1>2, <1>3
<1>7. ToSet(t) = ToSet(s) \union ToSet(r)
  <2>1. \A x \in ToSet(t) : x \in ToSet(s) \union ToSet(r)
    BY <1>4 DEF ToSet
  <2>2. \A x \in ToSet(s) \union ToSet(r) : x \in ToSet(t)
    BY <1>5, <1>6 DEF ToSet
  <2> QED BY <2>1, <2>2
<1>8. ASSUME IsInjective(s), IsInjective(r), ToSet(s) \intersect ToSet(r) = {}
      PROVE  IsInjective(t)
  <2> SUFFICES ASSUME NEW i \in DOMAIN t, NEW j \in DOMAIN t, t[i] = t[j] PROVE i = j
    BY DEF IsInjective
  <2>1. \A k \in DOMAIN s, l \in DOMAIN r : s[k] # r[l]
    BY <1>8 DEF ToSet
  <2>2. CASE i \in DOMAIN s /\ t[i] = s[i] /\ j \in DOMAIN s /\ t[j] = s[j]
    BY <1>8, <2>2 DEF IsInjective
  <2>3. CASE /\ i - Len(s) \in DOMAIN r /\ t[i] = r[i - Len(s)]
             /\ j - Len(s) \in DOMAIN r /\ t[j] = r[j - Len(s)]
    <3>1. i - Len(s) = j - Len(s)
      BY <1>8, <2>3, Zenon DEF IsInjective
    <3> QED BY <1>2, <1>3, <3>1
  <2> QED BY <1>4, <2>1, <2>2, <2>3
<1> QED BY <1>1, <1>7, <1>8 DEF t

\* One in the middle of a queue leaves it.
LEMMA RemoveOne ==
  ASSUME NEW S, NEW s \in Seq(S), NEW i \in 1 .. Len(s)
  PROVE  /\ RemoveAt(s, i) \in Seq(S) /\ Len(RemoveAt(s, i)) = Len(s) - 1
         /\ \A j \in 1 .. Len(s) - 1 :
              RemoveAt(s, i)[j] = IF j < i THEN s[j] ELSE s[j + 1]
<1> DEFINE a == SubSeq(s, 1, i - 1)
           b == SubSeq(s, i + 1, Len(s))
<1>1. a \in Seq(S) /\ Len(a) = i - 1 /\ \A j \in 1 .. i - 1 : a[j] = s[j]
  OBVIOUS
<1>2. b \in Seq(S) /\ Len(b) = Len(s) - i /\ \A j \in 1 .. Len(s) - i : b[j] = s[i + j]
  OBVIOUS
<1> HIDE DEF a, b
<1>3. a \o b \in Seq(S) /\ Len(a \o b) = Len(s) - 1
  <2>1. i \in Nat /\ Len(s) \in Nat
    OBVIOUS
  <2>2. a \o b \in Seq(S) /\ Len(a \o b) = Len(a) + Len(b)
    <3>1. a \in Seq(S) /\ b \in Seq(S)
      BY <1>1, <1>2
    <3> QED BY <3>1
  <2> QED BY <1>1, <1>2, <2>1, <2>2
<1>4. \A j \in 1 .. Len(s) - 1 : (a \o b)[j] = IF j < i THEN s[j] ELSE s[j + 1]
  <2> TAKE j \in 1 .. Len(s) - 1
  <2>1. CASE j < i
    <3>1. j \in 1 .. Len(a)
      BY <1>1, <2>1
    <3>2. (a \o b)[j] = a[j]
      BY <1>1, <1>2, <3>1
    <3> QED BY <1>1, <2>1, <3>1, <3>2
  <2>2. CASE ~ (j < i)
    <3>1. j - (i - 1) \in 1 .. Len(s) - i /\ i + (j - (i - 1)) = j + 1
      BY <2>2
    <3>2. (a \o b)[j] = b[j - (i - 1)]
      BY <1>1, <1>2, <2>2
    <3>3. b[j - (i - 1)] = s[i + (j - (i - 1))]
      BY <1>2, <3>1
    <3> QED BY <2>2, <3>1, <3>2, <3>3
  <2> QED BY <2>1, <2>2
<1>5. RemoveAt(s, i) = a \o b
  BY DEF RemoveAt, a, b
<1> QED BY <1>3, <1>4, <1>5

-----------------------------------------------------------------------------
(* Types *)

CallNames == {"none", "join", "lock", "cond", "barrier", "sleep", "futex"}
States == {"none", "initializing", "running", "stalled", "idle"}
HostStates == {"none", "active", "stalling", "waiting", "gone"}

\* What the thread manager keeps of each thread.
ThreadTypes ==
  /\ status \in [Threads -> States]
  /\ host \in [Threads -> HostStates]
  /\ signalled \in [Threads -> BOOLEAN]
  /\ call \in [Threads -> CallNames]

-----------------------------------------------------------------------------
(* A thread that executes is known to run *)

\* No program joins a thread that has not started.
NoEarlyJoins == \A p \in Programs : ~ p.joinsUnstarted

\* What ExecutingIsRunning needs of the threads that are about to execute: a
\* signal came with the status, and nobody joins a thread that has not started,
\* whose start signals without it.
RunInv ==
  /\ program \in Programs
  /\ ThreadTypes
  /\ waiter \in [Threads -> Threads \cup {NoThread}]
  /\ \A t \in Threads : host[t] = "active" => status[t] = "running"
  /\ \A t \in Threads : host[t] = "waiting" /\ signalled[t] => status[t] = "running"
  /\ \A t \in Threads : status[t] \in {"none", "initializing"} => waiter[t] = NoThread

LEMMA RunInit == Init => RunInv
<1> SUFFICES ASSUME Init PROVE RunInv
  OBVIOUS
<1> QED BY ThreadSyncAssumption DEF Init, RunInv, ThreadTypes, States, HostStates, CallNames

\* A step that leaves the threads alone.
LEMMA RunStutters ==
  ASSUME RunInv, UNCHANGED <<program, status, host, signalled, call, waiter>>
  PROVE  RunInv'
BY DEF RunInv, ThreadTypes

\* Threads are resumed by one that goes on.
LEMMA RunResumes ==
  ASSUME RunInv, NEW woken, NEW m, Resume(woken, m), UNCHANGED waiter
  PROVE  RunInv'
<1>1. /\ status' = [t \in Threads |-> IF t \in woken THEN "running" ELSE status[t]]
      /\ signalled' = [t \in Threads |-> signalled[t] \/ t \in woken]
      /\ UNCHANGED <<program, host, call>>
  BY DEF Resume
<1>2. ThreadTypes'
  BY <1>1 DEF RunInv, ThreadTypes, States
<1> QED BY <1>1, <1>2 DEF RunInv, ThreadTypes

\* Threads are resumed by one that stalls itself; it may have become the waiter
\* of another that has started.
LEMMA RunStalls ==
  ASSUME RunInv, NEW woken, NEW self \in Threads, NEW name \in CallNames,
         ResumeAndStall(woken, self, name), UNCHANGED program,
         waiter' \in [Threads -> Threads \cup {NoThread}],
         \A t \in Threads : status[t] \in {"none", "initializing"} => waiter'[t] = waiter[t]
  PROVE  RunInv'
<1>1. /\ status' = [t \in Threads |-> IF t = self THEN "stalled"
                                      ELSE IF t \in woken THEN "running" ELSE status[t]]
      /\ signalled' = [t \in Threads |-> signalled[t] \/ t \in woken]
      /\ host' = [host EXCEPT ![self] = "stalling"]
      /\ call' = [call EXCEPT ![self] = name]
  BY DEF ResumeAndStall
<1>2. ThreadTypes'
  BY <1>1 DEF RunInv, ThreadTypes, States, HostStates
<1> QED BY <1>1, <1>2 DEF RunInv, ThreadTypes

LEMMA RunCall ==
  ASSUME NoEarlyJoins, RunInv, NEW t \in Threads, Call(t)
  PROVE  RunInv'
<1> USE DEF CallNames
<1>1. ASSUME NEW new \in Threads, Create(t, new) PROVE RunInv'
  <2>1. status[new] = "none" /\ status' = [status EXCEPT ![new] = "initializing"]
        /\ UNCHANGED <<program, waiter, host, signalled, call>>
    BY <1>1 DEF Create
  <2>2. ThreadTypes'
    BY <2>1 DEF RunInv, ThreadTypes, States
  <2> QED BY <2>1, <2>2 DEF RunInv, ThreadTypes
<1>2. ASSUME NEW target \in Threads, JoinThread(t, target) PROVE RunInv'
  <2>1. status[target] \notin {"none", "initializing"}
    BY <1>2 DEF JoinThread, JoinsUnstarted, NoEarlyJoins, RunInv
  <2>2. CASE status[target] = "idle"
    BY <1>2, <2>2, RunStutters DEF JoinThread, threads
  <2>3. CASE status[target] # "idle"
    <3>1. /\ waiter' = [waiter EXCEPT ![target] = t] /\ UNCHANGED program
          /\ ResumeAndStall({}, t, "join")
      BY <1>2, <2>3 DEF JoinThread, Stall
    <3>2. waiter' \in [Threads -> Threads \cup {NoThread}]
      BY <3>1 DEF RunInv
    <3>3. \A u \in Threads : status[u] \in {"none", "initializing"} => waiter'[u] = waiter[u]
      BY <2>1, <3>1 DEF RunInv
    <3> QED BY <3>1, <3>2, <3>3, RunStalls
  <2> QED BY <2>2, <2>3
<1>3. ASSUME OnThreadExit(t) PROVE RunInv'
  <2>1. /\ status' = [u \in Threads |-> IF u = t THEN "idle"
                        ELSE IF u \in {waiter[t]} \ {NoThread} THEN "running" ELSE status[u]]
        /\ signalled' = [u \in Threads |-> signalled[u] \/ u \in {waiter[t]} \ {NoThread}]
        /\ host' = [host EXCEPT ![t] = "gone"]
        /\ waiter' = [waiter EXCEPT ![t] = NoThread]
        /\ UNCHANGED <<program, call>>
    BY <1>3 DEF OnThreadExit
  <2>2. ThreadTypes' /\ waiter' \in [Threads -> Threads \cup {NoThread}]
    BY <2>1 DEF RunInv, ThreadTypes, States, HostStates
  <2> QED BY <2>1, <2>2 DEF RunInv, ThreadTypes
<1>4. ASSUME \/ MutexLock(t) \/ MutexTryLock(t) \/ MutexUnlock(t)
             \/ CondWait(t) \/ CondSignal(t) \/ CondBroadcast(t)
      PROVE  RunInv'
  <2>1. CASE MutexLock(t)
    BY <2>1, RunStutters, RunStalls DEF MutexLock, threads, Stall, RunInv
  <2>2. CASE MutexTryLock(t)
    BY <2>2, RunStutters, RunStalls DEF MutexTryLock, threads, Stall, RunInv
  <2>3. CASE MutexUnlock(t)
    BY <2>3, RunResumes DEF MutexUnlock
  <2>4. CASE CondWait(t)
    BY <2>4, RunStalls DEF CondWait, RunInv
  <2>5. CASE CondSignal(t)
    BY <2>5, RunStutters, RunResumes DEF CondSignal, LockAsync, threads
  <2>6. CASE CondBroadcast(t)
    BY <2>6, RunStutters, RunResumes DEF CondBroadcast, LockAsync, threads
  <2> QED BY <1>4, <2>1, <2>2, <2>3, <2>4, <2>5, <2>6
<1>5. ASSUME BarrierWait(t) PROVE RunInv'
  BY <1>5, RunResumes, RunStalls DEF BarrierWait, Stall, RunInv
<1>6. ASSUME Sleep(t) PROVE RunInv'
  BY <1>6, RunStalls DEF Sleep, Stall, RunInv
<1>7. ASSUME NEW a \in Addrs, NEW val \in Values, FutexWait(t, a, val) PROVE RunInv'
  BY <1>7, RunStutters, RunStalls DEF FutexWait, threads, Stall, RunInv
<1>8. ASSUME NEW a \in Addrs, NEW val \in Values, Store(t, a, val) PROVE RunInv'
  BY <1>8, RunStutters DEF Store, threads
<1>9. ASSUME NEW a \in Addrs, NEW n, FutexWake(t, a, n) PROVE RunInv'
  BY <1>9, RunResumes DEF FutexWake
<1>10. ASSUME NEW a \in Addrs, NEW b \in Addrs, NEW val \in Values,
              FutexWakeOp(t, a, b, val) \/ FutexCmpRequeue(t, a, b, 1, val)
       PROVE  RunInv'
  BY <1>10, RunStutters, RunResumes DEF FutexWakeOp, FutexCmpRequeue, threads
<1> QED BY <1>1, <1>2, <1>3, <1>4, <1>5, <1>6, <1>7, <1>8, <1>9, <1>10 DEF Call

LEMMA RunNext == NoEarlyJoins /\ RunInv /\ [Next]_vars => RunInv'
<1> SUFFICES ASSUME NoEarlyJoins, RunInv, [Next]_vars PROVE RunInv'
  OBVIOUS
<1>1. ASSUME NEW t \in Threads, OnThreadStart(t) PROVE RunInv'
  <2>1. waiter[t] = NoThread
    BY <1>1 DEF OnThreadStart, RunInv
  <2>2. \A u \in Threads : u # waiter[t]
    BY <2>1, ThreadSyncAssumption
  <2>3. /\ status' = [status EXCEPT ![t] = "running"] /\ host' = [host EXCEPT ![t] = "active"]
        /\ signalled' = [u \in Threads |-> signalled[u] \/ u = waiter[t]]
        /\ waiter' = [waiter EXCEPT ![t] = NoThread]
        /\ UNCHANGED <<program, call>>
    BY <1>1 DEF OnThreadStart
  <2>4. ThreadTypes' /\ waiter' \in [Threads -> Threads \cup {NoThread}]
    BY <2>3 DEF RunInv, ThreadTypes, States, HostStates
  <2> QED BY <2>2, <2>3, <2>4 DEF RunInv, ThreadTypes
<1>2. ASSUME NEW t \in Threads, EnterWait(t) PROVE RunInv'
  <2>1. CASE WokenAlready(t)
    <3>1. /\ host' = [host EXCEPT ![t] = "active"] /\ call' = [call EXCEPT ![t] = "none"]
          /\ status[t] = "running" /\ UNCHANGED <<program, status, waiter, signalled>>
      BY <1>2, <2>1 DEF EnterWait, Returned, WokenAlready
    <3>2. ThreadTypes'
      BY <3>1 DEF RunInv, ThreadTypes, HostStates, CallNames
    <3> QED BY <3>1, <3>2 DEF RunInv, ThreadTypes
  <2>2. CASE ~ WokenAlready(t)
    <3>1. /\ host' = [host EXCEPT ![t] = "waiting"]
          /\ signalled' = [signalled EXCEPT ![t] = FALSE]
          /\ UNCHANGED <<program, status, waiter, call>>
      BY <1>2, <2>2 DEF EnterWait
    <3>2. ThreadTypes'
      BY <3>1 DEF RunInv, ThreadTypes, HostStates
    <3> QED BY <3>1, <3>2 DEF RunInv, ThreadTypes
  <2> QED BY <2>1, <2>2
<1>3. ASSUME NEW t \in Threads, LeaveWait(t) PROVE RunInv'
  <2>1. /\ host[t] = "waiting" /\ signalled[t]
        /\ host' = [host EXCEPT ![t] = "active"] /\ call' = [call EXCEPT ![t] = "none"]
        /\ UNCHANGED <<program, status, waiter, signalled>>
    BY <1>3 DEF LeaveWait, Returned
  <2>2. ThreadTypes'
    BY <2>1 DEF RunInv, ThreadTypes, HostStates, CallNames
  <2> QED BY <2>1, <2>2 DEF RunInv, ThreadTypes
<1>4. ASSUME Periodic PROVE RunInv'
  BY <1>4, RunResumes DEF Periodic, FutexPeriodic
<1>5. CASE UNCHANGED vars
  BY <1>5, RunStutters DEF vars
<1> QED BY <1>1, <1>2, <1>3, <1>4, <1>5, RunCall DEF Next

\* A host thread that executes has the status of a running thread, in every
\* program that joins no thread before it has started (resumeThread sets the
\* status before it signals, onThreadStart does not).
THEOREM ExecutingCorrect ==
  ASSUME NoEarlyJoins
  PROVE  Spec => []ExecutingIsRunning
<1>1. RunInv /\ [Next]_vars => RunInv'
  BY RunNext
<1>2. RunInv => ExecutingIsRunning
  BY DEF RunInv, ExecutingIsRunning
<1> QED BY <1>1, <1>2, RunInit, PTL DEF Spec

\* The assertion of barrierRelease fails only when nobody executes or is about to
\* start, and nobody does after it: HOOK_PERIODIC has resumed whom it could.
THEOREM DeadlockCorrect ==
  ASSUME NoEarlyJoins
  PROVE  Spec => []DeadlockIsReal
<1>1. Init => DeadlockIsReal
  BY DEF Init, DeadlockIsReal
<1>2. RunInv /\ RunInv' /\ DeadlockIsReal /\ [Next]_vars => DeadlockIsReal'
  <2> SUFFICES ASSUME RunInv, RunInv', DeadlockIsReal, [Next]_vars, aborted'
               PROVE  \A t \in Threads : host'[t] # "active" /\ status'[t] # "initializing"
    BY DEF DeadlockIsReal
  <2>1. CASE UNCHANGED vars
    BY <2>1 DEF vars, DeadlockIsReal
  <2>2. CASE Periodic
    <3>1. ~ AnyThreadRunning'
      BY <2>2 DEF Periodic
    <3>2. \A t \in Threads : status'[t] \notin {"running", "initializing"}
      BY <3>1 DEF AnyThreadRunning
    <3> QED BY <3>2 DEF RunInv
  <2>3. ASSUME NEW t \in Threads, Call(t) PROVE ~ aborted'
    BY <2>3 DEF Call, Create, JoinThread, OnThreadExit, MutexLock, MutexTryLock, MutexUnlock,
                CondWait, CondSignal, CondBroadcast, BarrierWait, Sleep, FutexWait, Store,
                FutexWake, FutexWakeOp, FutexCmpRequeue, Caller
  <2>4. ASSUME NEW t \in Threads, OnThreadStart(t) \/ EnterWait(t) \/ LeaveWait(t) PROVE ~ aborted'
    BY <2>4 DEF OnThreadStart, EnterWait, LeaveWait
  <2> QED BY <2>1, <2>2, <2>3, <2>4 DEF Next
<1>3. RunInv /\ [Next]_vars => RunInv'
  BY RunNext
<1> QED BY <1>1, <1>2, <1>3, RunInit, PTL DEF Spec

-----------------------------------------------------------------------------
\* An entry of a queue with timeouts.
Entries == [thread : Threads, timeout : Nat \cup {Never}, val : Values]

-----------------------------------------------------------------------------
(* Queues of entries with a timeout *)

ThreadsIn(s) == {s[i].thread : i \in DOMAIN s}
Apart(s) == \A i, j \in DOMAIN s : s[i].thread = s[j].thread => i = j

\* The queue r is what is left of s when the threads g, and no others, have been
\* taken out.
Gives(s, r, g) ==
  /\ r \in Seq(Entries) /\ Apart(r) /\ ToSet(r) \subseteq ToSet(s)
  /\ g \subseteq ThreadsIn(s) /\ ThreadsIn(r) \subseteq ThreadsIn(s)
  /\ ThreadsIn(s) \subseteq ThreadsIn(r) \cup g
  /\ \A t \in g : t \notin ThreadsIn(r)

LEMMA ThreadsTyped == ASSUME NEW s \in Seq(Entries) PROVE ThreadsIn(s) \subseteq Threads
<1>1. \A i \in DOMAIN s : s[i] \in Entries
  OBVIOUS
<1> QED BY <1>1 DEF ThreadsIn, Entries

\* Any number is taken from the front (dequeueWaiter).
LEMMA TakesFirst ==
  ASSUME NEW s \in Seq(Entries), Apart(s), NEW n \in Nat, n <= Len(s)
  PROVE  Gives(s, SubSeq(s, n + 1, Len(s)), ThreadsOf(ToSet(SubSeq(s, 1, n))))
<1> DEFINE a == SubSeq(s, 1, n)
           b == SubSeq(s, n + 1, Len(s))
<1>1. /\ a \in Seq(Entries) /\ Len(a) = n /\ \A i \in 1 .. n : a[i] = s[i]
      /\ b \in Seq(Entries) /\ Len(b) = Len(s) - n /\ \A i \in 1 .. Len(s) - n : b[i] = s[n + i]
  BY Split
<1>2. DOMAIN a = 1 .. n /\ DOMAIN b = 1 .. Len(s) - n /\ DOMAIN s = 1 .. Len(s) /\ Len(s) \in Nat
  BY <1>1
<1> HIDE DEF a, b
<1>3. \A i \in DOMAIN a : i \in DOMAIN s /\ a[i] = s[i]
  BY <1>1, <1>2
<1>4. \A i \in DOMAIN b : n + i \in DOMAIN s /\ n + i > n /\ b[i] = s[n + i]
  BY <1>1, <1>2
<1>5. Apart(b)
  <2> SUFFICES ASSUME NEW i \in DOMAIN b, NEW j \in DOMAIN b, b[i].thread = b[j].thread
               PROVE  i = j
    BY DEF Apart
  <2>1. n + i = n + j
    BY <1>4 DEF Apart
  <2> QED BY <1>2, <2>1
<1>6. ThreadsOf(ToSet(a)) = {a[i].thread : i \in DOMAIN a}
  BY DEF ThreadsOf, ToSet
<1>7. ThreadsOf(ToSet(a)) \subseteq ThreadsIn(s) /\ ThreadsIn(b) \subseteq ThreadsIn(s)
  BY <1>3, <1>4, <1>6 DEF ThreadsIn
<1>8. \A t \in ThreadsOf(ToSet(a)) : t \notin ThreadsIn(b)
  <2> SUFFICES ASSUME NEW i \in DOMAIN a, NEW j \in DOMAIN b, a[i].thread = b[j].thread
               PROVE  FALSE
    BY <1>6 DEF ThreadsIn
  <2>1. i = n + j
    BY <1>3, <1>4 DEF Apart
  <2> QED BY <1>2, <1>4, <2>1
<1>9. ToSet(b) \subseteq ToSet(s)
  BY <1>4 DEF ToSet
<1>10. ThreadsIn(s) \subseteq ThreadsIn(b) \cup ThreadsOf(ToSet(a))
  <2> SUFFICES ASSUME NEW i \in DOMAIN s
               PROVE  s[i].thread \in ThreadsIn(b) \cup ThreadsOf(ToSet(a))
    BY DEF ThreadsIn
  <2>1. CASE i <= n
    <3>1. i \in DOMAIN a /\ a[i] = s[i]
      BY <1>1, <1>2, <2>1
    <3> QED BY <1>6, <3>1
  <2>2. CASE i > n
    <3>1. i - n \in DOMAIN b /\ b[i - n] = s[n + (i - n)] /\ n + (i - n) = i
      BY <1>1, <1>2, <2>2
    <3> QED BY <3>1 DEF ThreadsIn
  <2> QED BY <1>2, <2>1, <2>2
<1> QED BY <1>1, <1>5, <1>7, <1>8, <1>9, <1>10 DEF Gives, a, b

\* The first whose time has come is taken out, if there is one (wakeTimedOut).
LEMMA TakesDue ==
  ASSUME NEW s \in Seq(Entries), Apart(s), NEW time
  PROVE  Gives(s, NotExpired(s, time), ThreadsOf(Expired(s, time)))
<1>1. CASE FirstDue(s, time) = {}
  <2>1. NotExpired(s, time) = s /\ ThreadsOf(Expired(s, time)) = {}
    BY <1>1 DEF NotExpired, Expired, ThreadsOf
  <2> QED BY <2>1 DEF Gives
<1>2. CASE FirstDue(s, time) # {}
  <2> DEFINE k == CHOOSE i \in FirstDue(s, time) : TRUE
             r == RemoveAt(s, k)
  <2>1. k \in FirstDue(s, time)
    BY <1>2
  <2>2. k \in 1 .. Len(s) /\ DOMAIN s = 1 .. Len(s) /\ Len(s) \in Nat
    BY <2>1 DEF FirstDue
  <2>3. FirstDue(s, time) = {k}
    <3> SUFFICES ASSUME NEW i \in FirstDue(s, time) PROVE i = k
      BY <2>1
    <3>1. /\ i \in 1 .. Len(s) /\ k \in 1 .. Len(s)
          /\ Due(s[i], time) /\ Due(s[k], time)
          /\ \A j \in 1 .. (i - 1) : ~ Due(s[j], time)
          /\ \A j \in 1 .. (k - 1) : ~ Due(s[j], time)
      BY <2>1, <2>2 DEF FirstDue
    <3>2. k \notin 1 .. (i - 1) /\ i \notin 1 .. (k - 1)
      BY <3>1
    <3> QED BY <3>1, <3>2
  <2>4. NotExpired(s, time) = r /\ ThreadsOf(Expired(s, time)) = {s[k].thread}
    BY <1>2, <2>3 DEF NotExpired, Expired, ThreadsOf
  <2> HIDE DEF k
  <2>5. /\ r \in Seq(Entries) /\ Len(r) = Len(s) - 1
        /\ \A j \in 1 .. Len(s) - 1 : r[j] = IF j < k THEN s[j] ELSE s[j + 1]
    BY <2>2, RemoveOne
  <2> HIDE DEF r
  <2> DEFINE at(j) == IF j < k THEN j ELSE j + 1
  <2>6. DOMAIN r = 1 .. Len(s) - 1
    BY <2>5
  <2>7. \A j \in DOMAIN r : at(j) \in DOMAIN s /\ at(j) # k /\ r[j] = s[at(j)]
    BY <2>2, <2>5, <2>6
  <2>8. \A i, j \in DOMAIN r : at(i) = at(j) => i = j
    BY <2>2, <2>6
  <2>13. \A i \in DOMAIN s : i = k \/ \E j \in DOMAIN r : at(j) = i
    <3> TAKE i \in DOMAIN s
    <3>1. CASE i < k
      <4>1. i \in DOMAIN r /\ at(i) = i
        BY <2>2, <2>6, <3>1
      <4> QED BY <4>1
    <3>2. CASE i > k
      <4>1. i - 1 \in DOMAIN r /\ at(i - 1) = i
        BY <2>2, <2>6, <3>2
      <4> QED BY <4>1
    <3> QED BY <2>2, <3>1, <3>2
  <2> HIDE DEF at
  <2>9. Apart(r)
    BY <2>7, <2>8 DEF Apart
  <2>10. \A j \in DOMAIN r : r[j].thread # s[k].thread
    BY <2>2, <2>7 DEF Apart
  <2>11. ThreadsIn(r) \subseteq ThreadsIn(s) /\ s[k].thread \in ThreadsIn(s)
    BY <2>2, <2>7 DEF ThreadsIn
  <2>12. s[k].thread \notin ThreadsIn(r)
    BY <2>10 DEF ThreadsIn
  <2>14. ToSet(r) \subseteq ToSet(s)
    BY <2>7 DEF ToSet
  <2>15. \A i \in DOMAIN s : s[i].thread = s[k].thread \/ s[i].thread \in ThreadsIn(r)
    BY <2>7, <2>13 DEF ThreadsIn
  <2>16. ThreadsIn(s) \subseteq ThreadsIn(r) \cup {s[k].thread}
    BY <2>15 DEF ThreadsIn
  <2> QED BY <2>4, <2>5, <2>9, <2>11, <2>12, <2>14, <2>16 DEF Gives
<1> QED BY <1>1, <1>2

\* A thread that was not there enters (enqueueWaiter).
LEMMA Enters ==
  ASSUME NEW s \in Seq(Entries), Apart(s), NEW e \in Entries, e.thread \notin ThreadsIn(s)
  PROVE  /\ Append(s, e) \in Seq(Entries) /\ Apart(Append(s, e))
         /\ ThreadsIn(Append(s, e)) = ThreadsIn(s) \cup {e.thread}
<1> DEFINE r == Append(s, e)
<1>1. /\ r \in Seq(Entries) /\ Len(r) = Len(s) + 1 /\ r[Len(s) + 1] = e
      /\ \A i \in 1 .. Len(s) : r[i] = s[i]
  OBVIOUS
<1>2. DOMAIN r = 1 .. Len(s) + 1 /\ DOMAIN s = 1 .. Len(s) /\ Len(s) \in Nat
  BY <1>1
<1> HIDE DEF r
<1>3. \A i \in DOMAIN r : (i \in DOMAIN s /\ r[i] = s[i]) \/ (i = Len(s) + 1 /\ r[i] = e)
  BY <1>1, <1>2
<1>4. \A i \in DOMAIN s : i \in DOMAIN r /\ s[i] = r[i]
  BY <1>1, <1>2
<1>5. Len(s) + 1 \in DOMAIN r /\ r[Len(s) + 1] = e
  BY <1>1, <1>2
<1>6. \A i \in DOMAIN s : s[i].thread # e.thread
  BY DEF ThreadsIn
<1>7. Apart(r)
  BY <1>3, <1>6 DEF Apart
<1>8. ThreadsIn(r) = ThreadsIn(s) \cup {e.thread}
  BY <1>3, <1>4, <1>5 DEF ThreadsIn
<1> QED BY <1>1, <1>7, <1>8 DEF r

\* One queue is moved to the end of another (requeueWaiter).
LEMMA Moves ==
  ASSUME NEW s \in Seq(Entries), NEW r \in Seq(Entries), Apart(s), Apart(r),
         ThreadsIn(s) \cap ThreadsIn(r) = {}
  PROVE  /\ s \o r \in Seq(Entries) /\ Apart(s \o r)
         /\ ThreadsIn(s \o r) = ThreadsIn(s) \cup ThreadsIn(r)
<1> DEFINE t == s \o r
<1>1. /\ t \in Seq(Entries) /\ Len(t) = Len(s) + Len(r)
      /\ \A i \in 1 .. Len(s) : t[i] = s[i]
      /\ \A i \in 1 .. Len(r) : t[Len(s) + i] = r[i]
  OBVIOUS
<1>2. /\ DOMAIN t = 1 .. Len(s) + Len(r) /\ DOMAIN s = 1 .. Len(s) /\ DOMAIN r = 1 .. Len(r)
      /\ Len(s) \in Nat /\ Len(r) \in Nat
  BY <1>1
<1> HIDE DEF t
<1>3. \A i \in DOMAIN t : (i \in DOMAIN s /\ t[i] = s[i])
                          \/ (\E j \in DOMAIN r : i = Len(s) + j /\ t[i] = r[j])
  <2> TAKE i \in DOMAIN t
  <2>1. CASE i <= Len(s)
    BY <1>1, <1>2, <2>1
  <2>2. CASE i > Len(s)
    <3>1. i - Len(s) \in DOMAIN r /\ i = Len(s) + (i - Len(s))
      BY <1>2, <2>2
    <3> QED BY <1>1, <1>2, <3>1
  <2> QED BY <1>2, <2>1, <2>2
<1>4. \A i \in DOMAIN s : i \in DOMAIN t /\ s[i] = t[i]
  BY <1>1, <1>2
<1>5. \A i \in DOMAIN r : Len(s) + i \in DOMAIN t /\ r[i] = t[Len(s) + i]
  BY <1>1, <1>2
<1>6. \A i \in DOMAIN s, j \in DOMAIN r : s[i].thread # r[j].thread
  BY DEF ThreadsIn
<1>7. Apart(t)
  BY <1>3, <1>6 DEF Apart
<1>8. ThreadsIn(t) = ThreadsIn(s) \cup ThreadsIn(r)
  <2>1. \A i \in DOMAIN t : t[i].thread \in ThreadsIn(s) \cup ThreadsIn(r)
    BY <1>3 DEF ThreadsIn
  <2>2. /\ \A i \in DOMAIN s : s[i].thread \in ThreadsIn(t)
        /\ \A i \in DOMAIN r : r[i].thread \in ThreadsIn(t)
    BY <1>4, <1>5 DEF ThreadsIn
  <2> QED BY <2>1, <2>2 DEF ThreadsIn
<1> QED BY <1>1, <1>7, <1>8 DEF t


-----------------------------------------------------------------------------
(* The inductive invariant *)

\* The queues a thread can be in: of sync_server, of syscall_server, of the thread
\* manager (the one thread that joins another).
InPthread(t) == t \in ToSet(mutex.waiting) \/ t \in ToSet(cond) \/ t \in ToSet(barrier)
InSyscall(t) == t \in ThreadsIn(sleeping) \/ \E a \in Addrs : t \in ThreadsIn(futex[a])
InJoin(t) == \E u \in Threads : waiter[u] = t
Waits(t) == InPthread(t) \/ InSyscall(t) \/ InJoin(t)

\* A thread is once in one queue of sync_server, and in that of the call it makes.
PthreadInv ==
  /\ mutex \in [owner : Threads \cup {NoThread}, waiting : Seq(Threads)]
  /\ cond \in Seq(Threads) /\ barrier \in Seq(Threads)
  /\ IsInjective(mutex.waiting) /\ IsInjective(cond)
  /\ \A t \in Threads : ~ (t \in ToSet(mutex.waiting) /\ t \in ToSet(cond))
  /\ \A t \in Threads : t \in ToSet(mutex.waiting) => call[t] \in {"lock", "cond"}
  /\ \A t \in Threads : t \in ToSet(cond) => call[t] = "cond"
  /\ \A t \in Threads : t \in ToSet(barrier) => call[t] = "barrier"

\* The same of the queues of syscall_server.
SyscallInv ==
  /\ sleeping \in Seq(Entries) /\ futex \in [Addrs -> Seq(Entries)] /\ now \in Nat
  /\ Apart(sleeping)
  /\ \A a \in Addrs : Apart(futex[a])
  /\ \A a, b \in Addrs, t \in Threads :
       t \in ThreadsIn(futex[a]) /\ t \in ThreadsIn(futex[b]) => a = b
  /\ \A t \in Threads : t \in ThreadsIn(sleeping) => call[t] = "sleep"
  /\ \A a \in Addrs, t \in Threads : t \in ThreadsIn(futex[a]) => call[t] = "futex"

\* The same of the threads that join another.
JoinInv ==
  /\ waiter \in [Threads -> Threads \cup {NoThread}]
  /\ \A t, u \in Threads : waiter[t] = waiter[u] /\ waiter[t] # NoThread => t = u
  /\ \A t \in Threads : waiter[t] # NoThread => call[waiter[t]] = "join"

\* Whoever is in a queue is stalled, and whoever was signalled is in none.
StalledInv ==
  \A t \in Threads : /\ Waits(t) => status[t] = "stalled"
                     /\ host[t] = "waiting" /\ signalled[t] => ~ Waits(t)

\* Whoever locks is still in a queue or has been handed the mutex.
OwnerInv ==
  \A t \in Threads : call[t] \in {"lock", "cond"} =>
    t \in ToSet(mutex.waiting) \/ t \in ToSet(cond) \/ mutex.owner = t

LockInv ==
  /\ program \in Programs /\ ThreadTypes
  /\ PthreadInv /\ SyscallInv /\ JoinInv
  /\ StalledInv /\ OwnerInv
  /\ holds \subseteq Threads /\ HolderOwns

LEMMA LockInit == Init => LockInv
<1> SUFFICES ASSUME Init PROVE LockInv
  OBVIOUS
<1> USE ThreadSyncAssumption
<1>1. ToSet(<<>>) = {} /\ ThreadsIn(<<>>) = {} /\ Apart(<<>>) /\ IsInjective(<<>>)
  BY DEF ToSet, ThreadsIn, Apart, IsInjective
<1>2. /\ mutex = [owner |-> NoThread, waiting |-> <<>>] /\ cond = <<>> /\ barrier = <<>>
      /\ sleeping = <<>> /\ futex = [a \in Addrs |-> <<>>] /\ now = 0
      /\ waiter = [t \in Threads |-> NoThread] /\ call = [t \in Threads |-> "none"]
      /\ holds = {} /\ program \in Programs
  BY DEF Init
<1>3. ThreadTypes
  BY DEF Init, ThreadTypes, States, HostStates, CallNames
<1>4. PthreadInv /\ SyscallInv /\ JoinInv
  BY <1>1, <1>2 DEF PthreadInv, SyscallInv, JoinInv
<1>5. \A t \in Threads : ~ Waits(t)
  BY <1>1, <1>2 DEF Waits, InPthread, InSyscall, InJoin
<1> QED BY <1>2, <1>3, <1>4, <1>5 DEF LockInv, StalledInv, OwnerInv, HolderOwns

-----------------------------------------------------------------------------
(* What the parts of a step leave alone *)

\* Whoever is in a queue stays in its call.
CallsStay == \A t \in Threads : Waits(t) => call'[t] = call[t]

LEMMA PthreadStays ==
  ASSUME PthreadInv, CallsStay, UNCHANGED <<mutex, cond, barrier>>
  PROVE  PthreadInv' /\ \A t \in Threads : InPthread(t)' => InPthread(t)
<1>1. \A t \in Threads : t \in ToSet(mutex.waiting) => call'[t] = call[t]
  BY DEF CallsStay, Waits, InPthread
<1>2. \A t \in Threads : t \in ToSet(cond) => call'[t] = call[t]
  BY DEF CallsStay, Waits, InPthread
<1>3. \A t \in Threads : t \in ToSet(barrier) => call'[t] = call[t]
  BY DEF CallsStay, Waits, InPthread
<1>4. PthreadInv'
  BY <1>1, <1>2, <1>3 DEF PthreadInv
<1> QED BY <1>4 DEF InPthread

LEMMA SyscallStays ==
  ASSUME SyscallInv, CallsStay, UNCHANGED <<program, sleeping, futex, now>>
  PROVE  SyscallInv' /\ \A t \in Threads : InSyscall(t)' => InSyscall(t)
<1>1. \A t \in Threads : t \in ThreadsIn(sleeping) => call'[t] = call[t]
  BY DEF CallsStay, Waits, InSyscall
<1>2. \A a \in Addrs, t \in Threads : t \in ThreadsIn(futex[a]) => call'[t] = call[t]
  BY DEF CallsStay, Waits, InSyscall
<1>3. Addrs' = Addrs
  BY DEF Addrs
<1>4. SyscallInv'
  BY <1>1, <1>2, <1>3 DEF SyscallInv
<1> QED BY <1>3, <1>4 DEF InSyscall

LEMMA JoinStays ==
  ASSUME JoinInv, CallsStay, UNCHANGED waiter
  PROVE  JoinInv' /\ \A t \in Threads : InJoin(t)' => InJoin(t)
<1>1. \A t \in Threads : waiter[t] # NoThread => call'[waiter[t]] = call[waiter[t]]
  BY DEF JoinInv, CallsStay, Waits, InJoin
<1>2. JoinInv'
  BY <1>1 DEF JoinInv
<1> QED BY <1>2 DEF InJoin

\* A thread that makes a call is in no queue.
LEMMA CallerFree ==
  ASSUME LockInv, NEW t \in Threads, call[t] = "none"
  PROVE  ~ Waits(t)
<1>1. ~ InPthread(t)
  BY DEF LockInv, PthreadInv, InPthread
<1>2. ~ InSyscall(t)
  BY DEF LockInv, SyscallInv, InSyscall
<1>3. ~ InJoin(t)
  BY ThreadSyncAssumption DEF LockInv, JoinInv, InJoin
<1> QED BY <1>1, <1>2, <1>3 DEF Waits

\* A call of one that goes on: it takes threads out of queues and resumes them.
LEMMA Resumes ==
  ASSUME LockInv, NEW woken, NEW m, Resume(woken, m)
  PROVE  /\ program' \in Programs /\ ThreadTypes' /\ program' = program
         /\ call' = call /\ CallsStay
         /\ (\A t \in Threads : Waits(t)' => Waits(t) /\ t \notin woken) => StalledInv'
<1>1. /\ status' = [t \in Threads |-> IF t \in woken THEN "running" ELSE status[t]]
      /\ signalled' = [t \in Threads |-> signalled[t] \/ t \in woken]
      /\ UNCHANGED <<program, host, call>>
  BY DEF Resume
<1>2. program' \in Programs /\ ThreadTypes'
  BY <1>1 DEF LockInv, ThreadTypes, States
<1>3. ASSUME \A t \in Threads : Waits(t)' => Waits(t) /\ t \notin woken
      PROVE  StalledInv'
  <2> SUFFICES ASSUME NEW t \in Threads, Waits(t)'
               PROVE  status'[t] = "stalled" /\ ~ (host'[t] = "waiting" /\ signalled'[t])
    BY DEF StalledInv
  <2>1. Waits(t) /\ t \notin woken
    BY <1>3
  <2>2. status'[t] = status[t] /\ host'[t] = host[t] /\ signalled'[t] = signalled[t]
    BY <1>1, <2>1 DEF LockInv, ThreadTypes
  <2> QED BY <2>1, <2>2 DEF LockInv, StalledInv
<1> QED BY <1>1, <1>2, <1>3 DEF CallsStay

\* A call of one that stalls itself, too.
LEMMA Stalls ==
  ASSUME LockInv, NEW woken, NEW self \in Threads, call[self] = "none", NEW name \in CallNames,
         ResumeAndStall(woken, self, name), program' = program
  PROVE  /\ program' \in Programs /\ ThreadTypes' /\ ~ Waits(self)
         /\ call'[self] = name /\ \A t \in Threads \ {self} : call'[t] = call[t]
         /\ CallsStay
         /\ (\A t \in Threads \ {self} : Waits(t)' => Waits(t) /\ t \notin woken) => StalledInv'
<1>1. /\ status' = [t \in Threads |-> IF t = self THEN "stalled"
                                      ELSE IF t \in woken THEN "running" ELSE status[t]]
      /\ signalled' = [t \in Threads |-> signalled[t] \/ t \in woken]
      /\ host' = [host EXCEPT ![self] = "stalling"]
      /\ call' = [call EXCEPT ![self] = name]
  BY DEF ResumeAndStall
<1>2. program' \in Programs /\ ThreadTypes'
  BY <1>1 DEF LockInv, ThreadTypes, States, HostStates
<1>3. call'[self] = name /\ \A t \in Threads \ {self} : call'[t] = call[t]
  BY <1>1 DEF LockInv, ThreadTypes
<1>4. ~ Waits(self)
  BY CallerFree
<1>5. CallsStay
  BY <1>3, <1>4 DEF CallsStay
<1>6. ASSUME \A t \in Threads \ {self} : Waits(t)' => Waits(t) /\ t \notin woken
      PROVE  StalledInv'
  <2> SUFFICES ASSUME NEW t \in Threads, Waits(t)'
               PROVE  status'[t] = "stalled" /\ ~ (host'[t] = "waiting" /\ signalled'[t])
    BY DEF StalledInv
  <2>1. CASE t = self
    BY <1>1, <2>1 DEF LockInv, ThreadTypes
  <2>2. CASE t # self
    <3>1. Waits(t) /\ t \notin woken
      BY <1>6, <2>2
    <3>2. status'[t] = status[t] /\ host'[t] = host[t] /\ signalled'[t] = signalled[t]
      BY <1>1, <2>2, <3>1 DEF LockInv, ThreadTypes
    <3> QED BY <3>1, <3>2 DEF LockInv, StalledInv
  <2> QED BY <2>1, <2>2
<1> QED BY <1>2, <1>3, <1>4, <1>5, <1>6

\* A step that leaves the threads alone.
LEMMA Goes ==
  ASSUME LockInv, UNCHANGED <<program, threads>>
  PROVE  /\ program' \in Programs /\ ThreadTypes' /\ call' = call /\ CallsStay
         /\ (\A t \in Threads : Waits(t)' => Waits(t)) => StalledInv'
<1>1. status' = status /\ host' = host /\ signalled' = signalled /\ call' = call
  BY DEF threads
<1> QED BY <1>1 DEF LockInv, ThreadTypes, StalledInv, CallsStay

\* sync_server leaves the queues of the others alone.
LEMMA SyncServer ==
  ASSUME LockInv, CallsStay, UNCHANGED <<program, waiter, kernel, now>>
  PROVE  /\ SyscallInv' /\ JoinInv'
         /\ \A t \in Threads : (InSyscall(t)' => InSyscall(t)) /\ (InJoin(t)' => InJoin(t))
<1>1. UNCHANGED <<program, sleeping, futex, now>>
  BY DEF kernel
<1> QED BY <1>1, SyscallStays, JoinStays DEF LockInv

-----------------------------------------------------------------------------
(* sync_server *)

\* The mutex is free and taken.
LEMMA Taken ==
  ASSUME LockInv, NEW t \in Threads, mutex.owner = NoThread,
         mutex' = [mutex EXCEPT !.owner = t], holds' = holds \cup {t},
         UNCHANGED <<program, threads, waiter, cond, barrier, kernel, now>>
  PROVE  LockInv'
<1>1. program' \in Programs /\ ThreadTypes' /\ call' = call /\ CallsStay
  BY Goes
<1>2. mutex'.waiting = mutex.waiting /\ mutex'.owner = t /\ cond' = cond /\ barrier' = barrier
  BY DEF LockInv, PthreadInv
<1>3. PthreadInv'
  <2>1. mutex' \in [owner : Threads \cup {NoThread}, waiting : Seq(Threads)]
    BY DEF LockInv, PthreadInv
  <2> QED BY <1>1, <1>2, <2>1 DEF LockInv, PthreadInv
<1>4. SyscallInv' /\ JoinInv' /\ \A u \in Threads : Waits(u)' => Waits(u)
  BY <1>1, <1>2, SyncServer DEF Waits, InPthread
<1>5. StalledInv'
  BY <1>4, Goes
<1>6. \A u \in Threads : mutex.owner # u
  BY ThreadSyncAssumption
<1>7. OwnerInv' /\ holds' \subseteq Threads /\ HolderOwns'
  BY <1>1, <1>2, <1>6 DEF LockInv, OwnerInv, HolderOwns
<1> QED BY <1>1, <1>3, <1>4, <1>5, <1>7 DEF LockInv

\* The mutex is somebody's and queued for.
LEMMA QueuedFor ==
  ASSUME LockInv, NEW t \in Threads, call[t] = "none",
         mutex' = [mutex EXCEPT !.waiting = Append(@, t)], Stall(t, "lock"),
         UNCHANGED <<program, holds, waiter, cond, barrier, kernel, now>>
  PROVE  LockInv'
<1>1. ResumeAndStall({}, t, "lock") /\ "lock" \in CallNames /\ program' = program
  BY DEF Stall, CallNames
<1>2. /\ program' \in Programs /\ ThreadTypes' /\ CallsStay /\ ~ Waits(t)
      /\ call'[t] = "lock" /\ \A u \in Threads \ {t} : call'[u] = call[u]
  BY <1>1, Stalls
<1>3. /\ mutex'.waiting = Append(mutex.waiting, t) /\ mutex'.owner = mutex.owner
      /\ cond' = cond /\ barrier' = barrier
  BY DEF LockInv, PthreadInv
<1>4. /\ mutex'.waiting \in Seq(Threads)
      /\ ToSet(mutex'.waiting) = ToSet(mutex.waiting) \cup {t}
      /\ IsInjective(mutex'.waiting)
  <2>1. mutex.waiting \in Seq(Threads) /\ IsInjective(mutex.waiting)
    BY DEF LockInv, PthreadInv
  <2>2. t \notin ToSet(mutex.waiting)
    BY <1>2 DEF Waits, InPthread
  <2> QED BY <1>3, <2>1, <2>2, AppendSets
<1>5. PthreadInv'
  <2>1. mutex' \in [owner : Threads \cup {NoThread}, waiting : Seq(Threads)]
    BY <1>3, <1>4 DEF LockInv, PthreadInv
  <2>2. t \notin ToSet(cond) /\ t \notin ToSet(barrier)
    BY <1>2 DEF Waits, InPthread
  <2> QED BY <1>2, <1>3, <1>4, <2>1, <2>2 DEF LockInv, PthreadInv
<1>6. SyscallInv' /\ JoinInv' /\ \A u \in Threads \ {t} : Waits(u)' => Waits(u)
  BY <1>2, <1>3, <1>4, SyncServer DEF Waits, InPthread
<1>7. StalledInv'
  BY <1>1, <1>6, Stalls
<1>8. OwnerInv'
  BY <1>2, <1>3, <1>4 DEF LockInv, OwnerInv
<1>9. holds' \subseteq Threads /\ HolderOwns'
  BY <1>3 DEF LockInv, HolderOwns
<1> QED BY <1>2, <1>5, <1>6, <1>7, <1>8, <1>9 DEF LockInv

\* What SimMutex::unlock makes of the queue, which the next owner leaves.
LEMMA HandsOver ==
  ASSUME LockInv, mutex' = HandedOver
  PROVE  /\ mutex' \in [owner : Threads \cup {NoThread}, waiting : Seq(Threads)]
         /\ IsInjective(mutex'.waiting)
         /\ \A t \in Threads : t \in ToSet(mutex'.waiting)
                               <=> t \in ToSet(mutex.waiting) /\ t \notin NextInLine
         /\ NextInLine \subseteq ToSet(mutex.waiting)
         /\ \A t \in NextInLine : t \in Threads /\ mutex'.owner = t
<1>1. /\ mutex.waiting \in Seq(Threads) /\ IsInjective(mutex.waiting)
      /\ mutex.owner \in Threads \cup {NoThread}
  BY DEF LockInv, PthreadInv
<1>2. CASE mutex.waiting = <<>>
  <2>1. mutex' = [owner |-> NoThread, waiting |-> <<>>] /\ NextInLine = {}
    BY <1>2 DEF HandedOver, NextInLine
  <2> QED BY <1>1, <1>2, <2>1
<1>3. CASE mutex.waiting # <<>>
  <2>1. /\ mutex' = [owner |-> Head(mutex.waiting), waiting |-> Tail(mutex.waiting)]
        /\ NextInLine = {Head(mutex.waiting)}
    BY <1>3 DEF HandedOver, NextInLine
  <2>2. /\ Head(mutex.waiting) \in Threads /\ Head(mutex.waiting) \in ToSet(mutex.waiting)
        /\ Tail(mutex.waiting) \in Seq(Threads) /\ IsInjective(Tail(mutex.waiting))
        /\ ToSet(mutex.waiting) = {Head(mutex.waiting)} \union ToSet(Tail(mutex.waiting))
        /\ Head(mutex.waiting) \notin ToSet(Tail(mutex.waiting))
    BY <1>1, <1>3, TailSets
  <2> QED BY <2>1, <2>2
<1> QED BY <1>2, <1>3

\* Whoever is in a queue of sync_server is in no other and joins nobody.
LEMMA InOneQueue ==
  ASSUME LockInv, NEW t \in Threads
  PROVE  /\ InPthread(t) => ~ InSyscall(t) /\ ~ InJoin(t)
         /\ t \in ToSet(mutex.waiting) => t \notin ToSet(cond) /\ t \notin ToSet(barrier)
         /\ t \in ToSet(cond) => t \notin ToSet(mutex.waiting) /\ t \notin ToSet(barrier)
         /\ InSyscall(t) => ~ InJoin(t)
         /\ \A a \in Addrs : t \in ThreadsIn(futex[a]) => t \notin ThreadsIn(sleeping)
<1>1. InPthread(t) => call[t] \in {"lock", "cond", "barrier"}
  BY DEF LockInv, PthreadInv, InPthread
<1>2. InSyscall(t) => call[t] \in {"sleep", "futex"}
  BY DEF LockInv, SyscallInv, InSyscall
<1>3. InJoin(t) => call[t] = "join"
  BY ThreadSyncAssumption DEF LockInv, JoinInv, InJoin
<1>4. /\ t \in ToSet(mutex.waiting) => t \notin ToSet(cond) /\ t \notin ToSet(barrier)
      /\ t \in ToSet(cond) => t \notin ToSet(mutex.waiting) /\ t \notin ToSet(barrier)
  BY DEF LockInv, PthreadInv
<1>5. \A a \in Addrs : t \in ThreadsIn(futex[a]) => t \notin ThreadsIn(sleeping)
  BY DEF LockInv, SyscallInv
<1> QED BY <1>1, <1>2, <1>3, <1>4, <1>5

LEMMA LockUnlock ==
  ASSUME LockInv, NEW t \in Threads, MutexUnlock(t)
  PROVE  LockInv'
<1>1. /\ call[t] = "none" /\ mutex.owner = t /\ mutex' = HandedOver /\ Resume(NextInLine, FALSE)
      /\ holds' = holds \ {t} /\ cond' = cond /\ barrier' = barrier
      /\ UNCHANGED <<waiter, kernel, now>>
  BY DEF MutexUnlock, Caller
<1>2. program' \in Programs /\ ThreadTypes' /\ program' = program /\ call' = call /\ CallsStay
  BY <1>1, Resumes
<1>3. /\ mutex' \in [owner : Threads \cup {NoThread}, waiting : Seq(Threads)]
      /\ IsInjective(mutex'.waiting)
      /\ \A u \in Threads : u \in ToSet(mutex'.waiting)
                            <=> u \in ToSet(mutex.waiting) /\ u \notin NextInLine
      /\ NextInLine \subseteq ToSet(mutex.waiting)
      /\ \A u \in NextInLine : u \in Threads /\ mutex'.owner = u
  BY <1>1, HandsOver
<1>4. PthreadInv'
  BY <1>1, <1>2, <1>3 DEF LockInv, PthreadInv
<1>5. /\ SyscallInv' /\ JoinInv'
      /\ \A u \in Threads : (InSyscall(u)' => InSyscall(u)) /\ (InJoin(u)' => InJoin(u))
  BY <1>1, <1>2, SyncServer
<1>6. \A u \in Threads : Waits(u)' => Waits(u) /\ u \notin NextInLine
  <2>1. \A u \in Threads : InPthread(u)' => InPthread(u) /\ u \notin NextInLine
    BY <1>1, <1>3, InOneQueue DEF InPthread
  <2>2. \A u \in Threads : InSyscall(u) \/ InJoin(u) => u \notin NextInLine
    BY <1>3, InOneQueue DEF InPthread
  <2> QED BY <1>5, <2>1, <2>2 DEF Waits
<1>7. StalledInv'
  BY <1>1, <1>6, Resumes
<1>8. OwnerInv'
  BY <1>1, <1>2, <1>3 DEF LockInv, OwnerInv
<1>9. holds' \subseteq Threads /\ HolderOwns'
  BY <1>1 DEF LockInv, HolderOwns
<1> QED BY <1>2, <1>4, <1>5, <1>7, <1>8, <1>9 DEF LockInv

LEMMA LockCondWait ==
  ASSUME LockInv, NEW t \in Threads, CondWait(t)
  PROVE  LockInv'
<1>1. /\ call[t] = "none" /\ mutex.owner = t /\ mutex' = HandedOver
      /\ cond' = Append(cond, t) /\ ResumeAndStall(NextInLine, t, "cond")
      /\ holds' = holds \ {t} /\ barrier' = barrier /\ program' = program
      /\ UNCHANGED <<waiter, kernel, now>> /\ "cond" \in CallNames
  BY DEF CondWait, Caller, CallNames
<1>2. /\ program' \in Programs /\ ThreadTypes' /\ CallsStay /\ ~ Waits(t)
      /\ call'[t] = "cond" /\ \A u \in Threads \ {t} : call'[u] = call[u]
  BY <1>1, Stalls
<1>3. t \notin ToSet(mutex.waiting) /\ t \notin ToSet(cond) /\ t \notin ToSet(barrier)
  BY <1>2 DEF Waits, InPthread
<1>4. /\ mutex' \in [owner : Threads \cup {NoThread}, waiting : Seq(Threads)]
      /\ IsInjective(mutex'.waiting)
      /\ \A u \in Threads : u \in ToSet(mutex'.waiting)
                            <=> u \in ToSet(mutex.waiting) /\ u \notin NextInLine
      /\ NextInLine \subseteq ToSet(mutex.waiting)
      /\ \A u \in NextInLine : u \in Threads /\ mutex'.owner = u
  BY <1>1, HandsOver
<1>5. cond' \in Seq(Threads) /\ ToSet(cond') = ToSet(cond) \cup {t} /\ IsInjective(cond')
  <2>1. cond \in Seq(Threads) /\ IsInjective(cond)
    BY DEF LockInv, PthreadInv
  <2> QED BY <1>1, <1>3, <2>1, AppendSets
<1>6. PthreadInv'
  BY <1>1, <1>2, <1>3, <1>4, <1>5, ZenonT(60) DEF LockInv, PthreadInv
<1>7. /\ SyscallInv' /\ JoinInv'
      /\ \A u \in Threads : (InSyscall(u)' => InSyscall(u)) /\ (InJoin(u)' => InJoin(u))
  BY <1>1, <1>2, SyncServer
<1>8. \A u \in Threads \ {t} : Waits(u)' => Waits(u) /\ u \notin NextInLine
  <2>1. \A u \in Threads \ {t} : InPthread(u)' => InPthread(u) /\ u \notin NextInLine
    BY <1>1, <1>4, <1>5, InOneQueue DEF InPthread
  <2>2. \A u \in Threads : InSyscall(u) \/ InJoin(u) => u \notin NextInLine
    BY <1>4, InOneQueue DEF InPthread
  <2> QED BY <1>7, <2>1, <2>2 DEF Waits
<1>9. StalledInv'
  BY <1>1, <1>8, Stalls
<1>10. OwnerInv'
  BY <1>1, <1>2, <1>4, <1>5 DEF LockInv, OwnerInv
<1>11. holds' \subseteq Threads /\ HolderOwns'
  BY <1>1 DEF LockInv, HolderOwns
<1> QED BY <1>2, <1>6, <1>7, <1>9, <1>10, <1>11 DEF LockInv

\* Waiters of the condition variable go on to the mutex: the first owns it when it
\* is free, and the others queue for it.
LEMMA LocksAsync ==
  ASSUME LockInv, NEW woken \in Seq(Threads), woken # <<>>, IsInjective(woken),
         LockAsync(woken), cond' \in Seq(Threads), IsInjective(cond'),
         \A t \in Threads : /\ t \in ToSet(woken) => t \in ToSet(cond)
                            /\ t \in ToSet(cond') <=> t \in ToSet(cond) /\ t \notin ToSet(woken),
         UNCHANGED <<program, waiter, barrier, holds, kernel, now>>
  PROVE  LockInv'
<1>1. /\ mutex \in [owner : Threads \cup {NoThread}, waiting : Seq(Threads)]
      /\ mutex.waiting \in Seq(Threads) /\ IsInjective(mutex.waiting) /\ barrier' = barrier
  BY DEF LockInv, PthreadInv
<1>2. /\ Head(woken) \in Threads /\ Head(woken) \in ToSet(woken) /\ Tail(woken) \in Seq(Threads)
      /\ ToSet(woken) = {Head(woken)} \union ToSet(Tail(woken))
      /\ IsInjective(Tail(woken)) /\ Head(woken) \notin ToSet(Tail(woken))
  BY TailSets
<1>3. \A t \in ToSet(woken) : t \in Threads /\ t \notin ToSet(mutex.waiting)
  <2>1. ToSet(woken) \subseteq Threads
    BY SetOfSequence
  <2> QED BY <2>1, InOneQueue
<1>4. CASE mutex.owner = NoThread
  <2>1. /\ mutex' = [owner |-> Head(woken), waiting |-> mutex.waiting \o Tail(woken)]
        /\ Resume({Head(woken)}, FALSE)
    BY <1>4 DEF LockAsync
  <2>2. program' \in Programs /\ ThreadTypes' /\ call' = call /\ CallsStay
    BY <2>1, Resumes
  <2>3. /\ mutex'.waiting \in Seq(Threads) /\ mutex'.owner = Head(woken)
        /\ ToSet(mutex'.waiting) = ToSet(mutex.waiting) \union ToSet(Tail(woken))
        /\ IsInjective(mutex'.waiting)
    <3>1. ToSet(mutex.waiting) \intersect ToSet(Tail(woken)) = {}
      BY <1>2, <1>3
    <3>2. mutex'.waiting = mutex.waiting \o Tail(woken) /\ mutex'.owner = Head(woken)
      BY <2>1
    <3>3. /\ mutex.waiting \o Tail(woken) \in Seq(Threads)
          /\ ToSet(mutex.waiting \o Tail(woken))
               = ToSet(mutex.waiting) \union ToSet(Tail(woken))
          /\ IsInjective(mutex.waiting \o Tail(woken))
      <4> DEFINE q == mutex.waiting
                 r == Tail(woken)
      <4>1. /\ q \in Seq(Threads) /\ r \in Seq(Threads)
            /\ IsInjective(q) /\ IsInjective(r) /\ ToSet(q) \intersect ToSet(r) = {}
        BY <1>1, <1>2, <3>1
      <4> HIDE DEF q, r
      <4>2. /\ q \o r \in Seq(Threads) /\ ToSet(q \o r) = ToSet(q) \union ToSet(r)
            /\ IsInjective(q \o r)
        BY <4>1, ConcatSets
      <4> QED BY <4>2 DEF q, r
    <3> QED BY <3>2, <3>3
  <2>4. mutex' \in [owner : Threads \cup {NoThread}, waiting : Seq(Threads)]
    BY <1>2, <2>1, <2>3
  <2>5. PthreadInv'
    BY <1>1, <1>2, <2>2, <2>3, <2>4 DEF LockInv, PthreadInv
  <2>6. /\ SyscallInv' /\ JoinInv'
        /\ \A u \in Threads : (InSyscall(u)' => InSyscall(u)) /\ (InJoin(u)' => InJoin(u))
    BY <2>2, SyncServer
  <2>7. \A u \in Threads : Waits(u)' => Waits(u) /\ u \notin {Head(woken)}
    <3>1. \A u \in Threads : InPthread(u)' => InPthread(u) /\ u # Head(woken)
      BY <1>1, <1>2, <1>3, <2>3, InOneQueue DEF InPthread
    <3>2. \A u \in Threads : InSyscall(u) \/ InJoin(u) => u # Head(woken)
      BY <1>2, InOneQueue DEF InPthread
    <3> QED BY <2>6, <3>1, <3>2 DEF Waits
  <2>8. StalledInv'
    BY <2>1, <2>7, Resumes
  <2>9. OwnerInv'
    BY <1>2, <1>4, <2>2, <2>3, ThreadSyncAssumption DEF LockInv, OwnerInv
  <2>10. holds' \subseteq Threads /\ HolderOwns'
    BY <1>4, ThreadSyncAssumption DEF LockInv, HolderOwns
  <2> QED BY <2>2, <2>5, <2>6, <2>8, <2>9, <2>10 DEF LockInv
<1>5. CASE mutex.owner # NoThread
  <2>1. mutex' = [mutex EXCEPT !.waiting = @ \o woken] /\ UNCHANGED <<program, threads>>
    BY <1>5 DEF LockAsync
  <2>2. program' \in Programs /\ ThreadTypes' /\ call' = call /\ CallsStay
    BY <2>1, Goes
  <2>3. /\ mutex'.waiting \in Seq(Threads) /\ mutex'.owner = mutex.owner
        /\ ToSet(mutex'.waiting) = ToSet(mutex.waiting) \union ToSet(woken)
        /\ IsInjective(mutex'.waiting)
    <3>1. ToSet(mutex.waiting) \intersect ToSet(woken) = {}
      BY <1>3
    <3>2. mutex'.waiting = mutex.waiting \o woken /\ mutex'.owner = mutex.owner
      BY <1>1, <2>1
    <3> QED BY <1>1, <3>1, <3>2, ConcatSets
  <2>4. mutex' \in [owner : Threads \cup {NoThread}, waiting : Seq(Threads)]
    BY <1>1, <2>1, <2>3
  <2>5. PthreadInv'
    BY <1>1, <2>2, <2>3, <2>4 DEF LockInv, PthreadInv
  <2>6. /\ SyscallInv' /\ JoinInv' /\ \A u \in Threads : Waits(u)' => Waits(u)
    BY <1>1, <2>2, <2>3, SyncServer DEF Waits, InPthread
  <2>7. StalledInv'
    BY <2>1, <2>6, Goes
  <2>8. OwnerInv' /\ holds' \subseteq Threads /\ HolderOwns'
    BY <2>2, <2>3 DEF LockInv, OwnerInv, HolderOwns
  <2> QED BY <2>2, <2>5, <2>6, <2>7, <2>8 DEF LockInv
<1> QED BY <1>4, <1>5

LEMMA LockCondSignal ==
  ASSUME LockInv, NEW t \in Threads, CondSignal(t) \/ CondBroadcast(t)
  PROVE  LockInv'
<1>1. cond \in Seq(Threads) /\ IsInjective(cond) /\ cond # <<>>
  BY DEF LockInv, PthreadInv, CondSignal, CondBroadcast
<1>2. CASE CondSignal(t)
  <2> DEFINE woken == <<Head(cond)>>
  <2>1. LockAsync(woken) /\ cond' = Tail(cond)
        /\ UNCHANGED <<program, waiter, barrier, holds, kernel, now>>
    BY <1>2 DEF CondSignal
  <2>2. /\ Head(cond) \in Threads /\ Head(cond) \in ToSet(cond) /\ Tail(cond) \in Seq(Threads)
        /\ ToSet(cond) = {Head(cond)} \union ToSet(Tail(cond))
        /\ IsInjective(Tail(cond)) /\ Head(cond) \notin ToSet(Tail(cond))
    BY <1>1, TailSets
  <2>3. woken \in Seq(Threads) /\ woken # <<>> /\ IsInjective(woken) /\ ToSet(woken) = {Head(cond)}
    BY <2>2 DEF IsInjective, ToSet
  <2> HIDE DEF woken
  <2> QED BY <2>1, <2>2, <2>3, LocksAsync
<1>3. CASE CondBroadcast(t)
  <2>1. LockAsync(cond) /\ cond' = <<>>
        /\ UNCHANGED <<program, waiter, barrier, holds, kernel, now>>
    BY <1>3 DEF CondBroadcast
  <2>2. <<>> \in Seq(Threads) /\ IsInjective(<<>>) /\ ToSet(<<>>) = {}
    BY DEF IsInjective, ToSet
  <2> QED BY <1>1, <2>1, <2>2, LocksAsync
<1> QED BY <1>2, <1>3

\* The last to arrive takes everybody out of the barrier.
LEMMA LockBarrier ==
  ASSUME LockInv, NEW t \in Threads, BarrierWait(t)
  PROVE  LockInv'
<1>1. /\ call[t] = "none" /\ program' = program /\ mutex' = mutex /\ cond' = cond
      /\ holds' = holds /\ UNCHANGED <<waiter, kernel, now>>
  BY DEF BarrierWait, Caller
<1>2. holds' \subseteq Threads /\ HolderOwns'
  BY <1>1 DEF LockInv, HolderOwns
<1>3. CASE LastToArrive
  <2>1. Resume(ToSet(barrier), FALSE) /\ barrier' = <<>>
    BY <1>3 DEF BarrierWait
  <2>2. program' \in Programs /\ ThreadTypes' /\ call' = call /\ CallsStay
    BY <2>1, Resumes
  <2>3. barrier' \in Seq(Threads) /\ ToSet(barrier') = {}
    BY <2>1 DEF ToSet
  <2>4. PthreadInv'
    BY <1>1, <2>2, <2>3 DEF LockInv, PthreadInv
  <2>5. /\ SyscallInv' /\ JoinInv'
        /\ \A u \in Threads : (InSyscall(u)' => InSyscall(u)) /\ (InJoin(u)' => InJoin(u))
    BY <1>1, <2>2, SyncServer
  <2>6. \A u \in Threads : Waits(u)' => Waits(u) /\ u \notin ToSet(barrier)
    <3>1. \A u \in Threads : InPthread(u)' => InPthread(u) /\ u \notin ToSet(barrier)
      BY <1>1, <2>3, InOneQueue DEF InPthread
    <3>2. \A u \in Threads : InSyscall(u) \/ InJoin(u) => u \notin ToSet(barrier)
      BY InOneQueue DEF InPthread
    <3> QED BY <2>5, <3>1, <3>2 DEF Waits
  <2>7. StalledInv'
    BY <2>1, <2>6, Resumes
  <2>8. OwnerInv'
    BY <1>1, <2>2 DEF LockInv, OwnerInv
  <2> QED BY <1>2, <2>2, <2>4, <2>5, <2>7, <2>8 DEF LockInv
<1>4. CASE ~ LastToArrive
  <2>1. ResumeAndStall({}, t, "barrier") /\ barrier' = Append(barrier, t) /\ "barrier" \in CallNames
    BY <1>4 DEF BarrierWait, Stall, CallNames
  <2>2. /\ program' \in Programs /\ ThreadTypes' /\ CallsStay /\ ~ Waits(t)
        /\ call'[t] = "barrier" /\ \A u \in Threads \ {t} : call'[u] = call[u]
    BY <1>1, <2>1, Stalls
  <2>3. barrier' \in Seq(Threads) /\ ToSet(barrier') = ToSet(barrier) \cup {t}
    <3>1. barrier \in Seq(Threads)
      BY DEF LockInv, PthreadInv
    <3> QED BY <2>1, <3>1, AppendSets
  <2>4. PthreadInv'
    <3>1. t \notin ToSet(mutex.waiting) /\ t \notin ToSet(cond)
      BY <2>2 DEF Waits, InPthread
    <3> QED BY <1>1, <2>2, <2>3, <3>1 DEF LockInv, PthreadInv
  <2>5. SyscallInv' /\ JoinInv' /\ \A u \in Threads \ {t} : Waits(u)' => Waits(u)
    BY <1>1, <2>2, <2>3, SyncServer DEF Waits, InPthread
  <2>6. StalledInv'
    BY <1>1, <2>1, <2>5, Stalls
  <2>7. OwnerInv'
    BY <1>1, <2>2 DEF LockInv, OwnerInv
  <2> QED BY <1>2, <2>2, <2>4, <2>5, <2>6, <2>7 DEF LockInv
<1> QED BY <1>3, <1>4

-----------------------------------------------------------------------------
(* syscall_server *)

\* syscall_server leaves the mutex and what is queued for it alone.
LEMMA SyscallServer ==
  ASSUME LockInv, CallsStay, UNCHANGED <<program, waiter, pthread>>,
         \A t \in Threads : call'[t] \in {"lock", "cond"} => call'[t] = call[t]
  PROVE  /\ PthreadInv' /\ JoinInv' /\ OwnerInv' /\ holds' \subseteq Threads /\ HolderOwns'
         /\ \A t \in Threads : (InPthread(t)' => InPthread(t)) /\ (InJoin(t)' => InJoin(t))
<1>1. mutex' = mutex /\ cond' = cond /\ barrier' = barrier /\ holds' = holds
  BY DEF pthread
<1>2. OwnerInv' /\ holds' \subseteq Threads /\ HolderOwns'
  BY <1>1 DEF LockInv, OwnerInv, HolderOwns
<1> QED BY <1>1, <1>2, PthreadStays, JoinStays DEF LockInv

\* The entry of a thread that stalls itself for some time.
LEMMA NewEntry ==
  ASSUME LockInv, NEW t \in Threads, NEW len \in InTime, NEW val \in Values
  PROVE  Entry(t, Deadline(len), val) \in Entries /\ Entry(t, Deadline(len), val).thread = t
<1>1. len \in Nat \cup {Never} /\ now \in Nat
  BY ThreadSyncAssumption DEF LockInv, SyscallInv, InTime, Timeouts
<1>2. Deadline(len) \in Nat \cup {Never}
  BY <1>1 DEF Deadline
<1> QED BY <1>2 DEF Entry, Entries

LEMMA LockSleep ==
  ASSUME LockInv, NEW t \in Threads, Sleep(t)
  PROVE  LockInv'
<1>1. /\ call[t] = "none" /\ program' = program /\ futex' = futex /\ now' = now
      /\ ResumeAndStall({}, t, "sleep") /\ "sleep" \in CallNames
      /\ UNCHANGED <<waiter, pthread>>
  BY DEF Sleep, Caller, Stall, CallNames
<1>2. /\ program' \in Programs /\ ThreadTypes' /\ CallsStay /\ ~ Waits(t)
      /\ call'[t] = "sleep" /\ \A u \in Threads \ {t} : call'[u] = call[u]
  BY <1>1, Stalls
<1>3. PICK e \in Entries : e.thread = t /\ sleeping' = Append(sleeping, e)
  BY NewEntry, ThreadSyncAssumption DEF Sleep
<1>4. /\ sleeping' \in Seq(Entries) /\ Apart(sleeping')
      /\ ThreadsIn(sleeping') = ThreadsIn(sleeping) \cup {t}
  <2>1. t \notin ThreadsIn(sleeping)
    BY <1>2 DEF Waits, InSyscall
  <2> QED BY <1>3, <2>1, Enters DEF LockInv, SyscallInv
<1>5. Addrs' = Addrs
  BY <1>1 DEF Addrs
<1>6. SyscallInv'
  <2>1. \A a \in Addrs : t \notin ThreadsIn(futex[a])
    BY <1>2 DEF Waits, InSyscall
  <2> QED BY <1>1, <1>2, <1>4, <1>5, <2>1 DEF LockInv, SyscallInv
<1>7. /\ PthreadInv' /\ JoinInv' /\ OwnerInv' /\ holds' \subseteq Threads /\ HolderOwns'
      /\ \A u \in Threads : (InPthread(u)' => InPthread(u)) /\ (InJoin(u)' => InJoin(u))
  BY <1>1, <1>2, SyscallServer
<1>8. \A u \in Threads \ {t} : Waits(u)' => Waits(u)
  BY <1>1, <1>4, <1>5, <1>7 DEF Waits, InSyscall
<1>9. StalledInv'
  BY <1>1, <1>8, Stalls
<1> QED BY <1>2, <1>6, <1>7, <1>9 DEF LockInv

LEMMA LockFutexWait ==
  ASSUME LockInv, NEW t \in Threads, NEW a \in Addrs, NEW val \in Values, FutexWait(t, a, val)
  PROVE  LockInv'
<1>1. /\ call[t] = "none" /\ program' = program /\ sleeping' = sleeping /\ now' = now
      /\ UNCHANGED <<waiter, pthread>>
  BY DEF FutexWait, Caller
<1>2. Addrs' = Addrs
  BY <1>1 DEF Addrs
<1>3. CASE WouldBlock(a, val)
  <2>1. UNCHANGED <<program, threads>> /\ futex' = futex
    BY <1>1, <1>3 DEF FutexWait
  <2>2. program' \in Programs /\ ThreadTypes' /\ call' = call /\ CallsStay
    BY <2>1, Goes
  <2>3. SyscallInv' /\ \A u \in Threads : InSyscall(u)' => InSyscall(u)
    BY <1>1, <2>1, <2>2, SyscallStays DEF LockInv
  <2>4. /\ PthreadInv' /\ JoinInv' /\ OwnerInv' /\ holds' \subseteq Threads /\ HolderOwns'
        /\ \A u \in Threads : (InPthread(u)' => InPthread(u)) /\ (InJoin(u)' => InJoin(u))
    BY <1>1, <2>2, SyscallServer
  <2>5. StalledInv'
    BY <2>1, <2>3, <2>4, Goes DEF Waits
  <2> QED BY <2>2, <2>3, <2>4, <2>5 DEF LockInv
<1>4. CASE ~ WouldBlock(a, val)
  <2>1. ResumeAndStall({}, t, "futex") /\ "futex" \in CallNames
    BY <1>4 DEF FutexWait, Stall, CallNames
  <2>2. /\ program' \in Programs /\ ThreadTypes' /\ CallsStay /\ ~ Waits(t)
        /\ call'[t] = "futex" /\ \A u \in Threads \ {t} : call'[u] = call[u]
    BY <1>1, <2>1, Stalls
  <2>3. PICK e \in Entries :
          e.thread = t /\ futex' = [futex EXCEPT ![a] = Append(futex[a], e)]
    BY <1>4, NewEntry DEF FutexWait
  <2>4. t \notin ThreadsIn(sleeping) /\ \A b \in Addrs : t \notin ThreadsIn(futex[b])
    BY <2>2 DEF Waits, InSyscall
  <2>5. /\ Append(futex[a], e) \in Seq(Entries) /\ Apart(Append(futex[a], e))
        /\ ThreadsIn(Append(futex[a], e)) = ThreadsIn(futex[a]) \cup {t}
    BY <2>3, <2>4, Enters DEF LockInv, SyscallInv
  <2>6. /\ futex' \in [Addrs -> Seq(Entries)]
        /\ Apart(futex'[a]) /\ ThreadsIn(futex'[a]) = ThreadsIn(futex[a]) \cup {t}
        /\ \A b \in Addrs \ {a} : futex'[b] = futex[b]
    BY <2>3, <2>5 DEF LockInv, SyscallInv
  <2>7. SyscallInv'
    <3>1. \A b \in Addrs : Apart(futex'[b])
      BY <2>6 DEF LockInv, SyscallInv
    <3>2. \A b \in Addrs, u \in Threads :
            u \in ThreadsIn(futex'[b]) => u \in ThreadsIn(futex[b]) \/ (u = t /\ b = a)
      BY <2>6
    <3>3. \A b, c \in Addrs, u \in Threads :
            u \in ThreadsIn(futex'[b]) /\ u \in ThreadsIn(futex'[c]) => b = c
      BY <2>4, <3>2 DEF LockInv, SyscallInv
    <3>4. \A b \in Addrs, u \in Threads : u \in ThreadsIn(futex'[b]) => call'[u] = "futex"
      BY <2>2, <3>2 DEF LockInv, SyscallInv
    <3>5. \A u \in Threads : u \in ThreadsIn(sleeping) => call'[u] = "sleep"
      BY <2>2, <2>4 DEF LockInv, SyscallInv
    <3> QED BY <1>1, <1>2, <2>6, <3>1, <3>3, <3>4, <3>5 DEF LockInv, SyscallInv
  <2>8. /\ PthreadInv' /\ JoinInv' /\ OwnerInv' /\ holds' \subseteq Threads /\ HolderOwns'
        /\ \A u \in Threads : (InPthread(u)' => InPthread(u)) /\ (InJoin(u)' => InJoin(u))
    BY <1>1, <2>2, SyscallServer
  <2>9. \A u \in Threads \ {t} : Waits(u)' => Waits(u)
    BY <1>1, <1>2, <2>6, <2>8 DEF Waits, InSyscall
  <2>10. StalledInv'
    BY <1>1, <2>1, <2>9, Stalls
  <2> QED BY <2>2, <2>7, <2>8, <2>10 DEF LockInv
<1> QED BY <1>3, <1>4

\* Whoever syscall_server resumes was in one of its queues and is in none.
LEMMA ResumesSyscall ==
  ASSUME LockInv, NEW woken, NEW m, Resume(woken, m), UNCHANGED <<waiter, pthread>>,
         SyscallInv', \A t \in Threads : InSyscall(t)' => InSyscall(t) /\ t \notin woken,
         \A t \in Threads : t \in woken => InSyscall(t)
  PROVE  LockInv'
<1>1. program' \in Programs /\ ThreadTypes' /\ program' = program /\ call' = call /\ CallsStay
  BY Resumes
<1>2. /\ PthreadInv' /\ JoinInv' /\ OwnerInv' /\ holds' \subseteq Threads /\ HolderOwns'
      /\ \A t \in Threads : (InPthread(t)' => InPthread(t)) /\ (InJoin(t)' => InJoin(t))
  BY <1>1, SyscallServer
<1>3. \A t \in Threads : InPthread(t) \/ InJoin(t) => t \notin woken
  BY InOneQueue
<1>4. \A t \in Threads : Waits(t)' => Waits(t) /\ t \notin woken
  BY <1>2, <1>3 DEF Waits
<1>5. StalledInv'
  BY <1>4, Resumes
<1> QED BY <1>1, <1>2, <1>5 DEF LockInv

\* Sleepers and waiters are taken out of the queues and resumed.
LEMMA WakesSyscall ==
  ASSUME LockInv, NEW woken, NEW m, Resume(woken, m), UNCHANGED <<waiter, pthread>>,
         now' \in Nat, NEW slept, Gives(sleeping, sleeping', slept),
         futex' \in [Addrs -> Seq(Entries)], NEW waited \in [Addrs -> SUBSET Threads],
         \A a \in Addrs : Gives(futex[a], futex'[a], waited[a]),
         \A t \in woken : t \in slept \/ \E a \in Addrs : t \in waited[a]
  PROVE  LockInv'
<1>1. program' \in Programs /\ ThreadTypes' /\ program' = program /\ call' = call /\ CallsStay
  BY Resumes
<1>2. Addrs' = Addrs
  BY <1>1 DEF Addrs
<1>3. /\ sleeping' \in Seq(Entries) /\ Apart(sleeping')
      /\ ThreadsIn(sleeping') \subseteq ThreadsIn(sleeping)
      /\ slept \subseteq ThreadsIn(sleeping) /\ \A t \in slept : t \notin ThreadsIn(sleeping')
  BY DEF Gives
<1>4. \A a \in Addrs :
        /\ Apart(futex'[a]) /\ ThreadsIn(futex'[a]) \subseteq ThreadsIn(futex[a])
        /\ waited[a] \subseteq ThreadsIn(futex[a])
        /\ \A t \in waited[a] : t \notin ThreadsIn(futex'[a])
  BY DEF Gives
<1>5. SyscallInv'
  BY <1>1, <1>2, <1>3, <1>4 DEF LockInv, SyscallInv
<1>7. \A u \in Threads : InSyscall(u)' => InSyscall(u)
  BY <1>2, <1>3, <1>4 DEF InSyscall
<1>8. \A u \in Threads : u \in woken => InSyscall(u) /\ ~ InSyscall(u)'
  <2> SUFFICES ASSUME NEW u \in Threads, u \in woken PROVE InSyscall(u) /\ ~ InSyscall(u)'
    OBVIOUS
  <2>1. CASE u \in slept
    <3>1. u \in ThreadsIn(sleeping) /\ u \notin ThreadsIn(sleeping')
      BY <1>3, <2>1
    <3>2. \A a \in Addrs : u \notin ThreadsIn(futex'[a])
      BY <1>4, <3>1, InOneQueue
    <3> QED BY <1>2, <3>1, <3>2 DEF InSyscall
  <2>2. ASSUME NEW a \in Addrs, u \in waited[a] PROVE InSyscall(u) /\ ~ InSyscall(u)'
    <3>1. u \in ThreadsIn(futex[a]) /\ u \notin ThreadsIn(futex'[a])
      BY <1>4, <2>2
    <3>2. u \notin ThreadsIn(sleeping')
      BY <1>3, <3>1, InOneQueue
    <3>3. \A b \in Addrs : u \in ThreadsIn(futex[b]) => b = a
      BY <3>1 DEF LockInv, SyscallInv
    <3>4. \A b \in Addrs : u \notin ThreadsIn(futex'[b])
      BY <1>4, <3>1, <3>3
    <3> QED BY <1>2, <3>1, <3>2, <3>4 DEF InSyscall
  <2> QED BY <2>1, <2>2
<1> QED BY <1>5, <1>7, <1>8, ResumesSyscall

\* Any number is taken from the front of the queue of a word.
LEMMA FutexTakes ==
  ASSUME LockInv, NEW a \in Addrs, NEW n \in Nat
  PROVE  /\ LeftBy(a, n) \in Seq(Entries)
         /\ Gives(futex[a], LeftBy(a, n), ThreadsOf(WokenBy(a, n)))
         /\ ThreadsOf(WokenBy(a, n)) \subseteq Threads
<1>1. futex[a] \in Seq(Entries) /\ Apart(futex[a])
  BY DEF LockInv, SyscallInv
<1>2. UpTo(a, n) \in Nat /\ UpTo(a, n) <= Len(futex[a])
  BY <1>1 DEF UpTo
<1>3. Gives(futex[a], LeftBy(a, n), ThreadsOf(WokenBy(a, n)))
  BY <1>1, <1>2, TakesFirst DEF LeftBy, WokenBy
<1> QED BY <1>1, <1>3, ThreadsTyped DEF Gives

\* A queue from which nobody is taken.
LEMMA NobodyLeaves ==
  ASSUME LockInv
  PROVE  /\ Gives(sleeping, sleeping, {})
         /\ \A a \in Addrs : Gives(futex[a], futex[a], {})
BY DEF LockInv, SyscallInv, Gives

LEMMA LockFutexWake ==
  ASSUME LockInv, NEW t \in Threads, NEW a \in Addrs, NEW n \in Nat, FutexWake(t, a, n)
  PROVE  LockInv'
<1>1. /\ futex' = [futex EXCEPT ![a] = LeftBy(a, n)] /\ sleeping' = sleeping /\ now' = now
      /\ Resume(ThreadsOf(WokenBy(a, n)), TRUE) /\ UNCHANGED <<waiter, pthread>>
  BY DEF FutexWake
<1> DEFINE waited == [b \in Addrs |-> IF b = a THEN ThreadsOf(WokenBy(a, n)) ELSE {}]
<1>2. LeftBy(a, n) \in Seq(Entries) /\ ThreadsOf(WokenBy(a, n)) \subseteq Threads
      /\ Gives(futex[a], LeftBy(a, n), ThreadsOf(WokenBy(a, n)))
  BY FutexTakes
<1>3. futex \in [Addrs -> Seq(Entries)] /\ now \in Nat
  BY DEF LockInv, SyscallInv
<1>4. waited \in [Addrs -> SUBSET Threads] /\ futex' \in [Addrs -> Seq(Entries)]
  BY <1>1, <1>2, <1>3
<1>5. \A b \in Addrs : Gives(futex[b], futex'[b], waited[b])
  <2> TAKE b \in Addrs
  <2>1. CASE b = a
    BY <1>1, <1>2, <1>3, <2>1
  <2>2. CASE b # a
    <3>1. futex'[b] = futex[b] /\ waited[b] = {}
      BY <1>1, <1>3, <2>2
    <3> QED BY <3>1, NobodyLeaves
  <2> QED BY <2>1, <2>2
<1>6. waited[a] = ThreadsOf(WokenBy(a, n))
  OBVIOUS
<1> DEFINE woken == ThreadsOf(WokenBy(a, n))
           slept == {}
<1>7. Resume(woken, TRUE) /\ \A u \in woken : u \in slept \/ \E b \in Addrs : u \in waited[b]
  BY <1>1, <1>6
<1>8. Gives(sleeping, sleeping', slept) /\ now' \in Nat
  BY <1>1, <1>3, NobodyLeaves
<1>9. UNCHANGED <<waiter, pthread>>
  BY <1>1
<1> HIDE DEF waited, woken, slept
<1> QED BY <1>4, <1>5, <1>7, <1>8, <1>9, WakesSyscall

LEMMA LockFutexWakeOp ==
  ASSUME LockInv, NEW t \in Threads, NEW a \in Addrs, NEW b \in Addrs, NEW val \in Values,
         FutexWakeOp(t, a, b, val)
  PROVE  LockInv'
<1> DEFINE n == IF mem[b] = 0 THEN 1 ELSE 0
           wa == ThreadsOf(WokenBy(a, 1))
           wb == ThreadsOf(WokenBy(b, n))
           waited == [c \in Addrs |-> IF c = a THEN wa ELSE IF c = b THEN wb ELSE {}]
<1>1. /\ futex' = [futex EXCEPT ![a] = LeftBy(a, 1), ![b] = LeftBy(b, n)]
      /\ sleeping' = sleeping /\ now' = now /\ a # b
      /\ Resume(ThreadsOf(WokenBy(a, 1) \cup WokenBy(b, n)), TRUE) /\ UNCHANGED <<waiter, pthread>>
  BY DEF FutexWakeOp
<1>2. n \in Nat /\ 1 \in Nat
  OBVIOUS
<1> HIDE DEF n
<1>3. /\ LeftBy(a, 1) \in Seq(Entries) /\ wa \subseteq Threads /\ Gives(futex[a], LeftBy(a, 1), wa)
      /\ LeftBy(b, n) \in Seq(Entries) /\ wb \subseteq Threads /\ Gives(futex[b], LeftBy(b, n), wb)
  BY <1>2, FutexTakes
<1>4. ThreadsOf(WokenBy(a, 1) \cup WokenBy(b, n)) = wa \cup wb
  BY DEF ThreadsOf
<1> HIDE DEF wa, wb
<1>5. futex \in [Addrs -> Seq(Entries)] /\ now \in Nat
  BY DEF LockInv, SyscallInv
<1>6. waited \in [Addrs -> SUBSET Threads] /\ futex' \in [Addrs -> Seq(Entries)]
  BY <1>1, <1>3, <1>5
<1>7. \A c \in Addrs : Gives(futex[c], futex'[c], waited[c])
  <2> TAKE c \in Addrs
  <2>1. CASE c = a
    BY <1>1, <1>3, <1>5, <2>1
  <2>2. CASE c = b
    BY <1>1, <1>3, <1>5, <2>2
  <2>3. CASE c # a /\ c # b
    <3>1. futex'[c] = futex[c] /\ waited[c] = {}
      BY <1>1, <1>5, <2>3
    <3> QED BY <3>1, NobodyLeaves
  <2> QED BY <2>1, <2>2, <2>3
<1>8. waited[a] = wa /\ waited[b] = wb
  BY <1>1
<1> DEFINE woken == wa \cup wb
           slept == {}
<1>9. \A u \in woken : u \in slept \/ \E c \in Addrs : u \in waited[c]
  BY <1>8
<1>10. Gives(sleeping, sleeping', slept) /\ now' \in Nat
  BY <1>1, <1>5, NobodyLeaves
<1>11. Resume(woken, TRUE)
  BY <1>1, <1>4
<1>12. UNCHANGED <<waiter, pthread>>
  BY <1>1
<1> HIDE DEF waited, woken, slept
<1> QED BY <1>6, <1>7, <1>9, <1>10, <1>11, <1>12, WakesSyscall

\* The first quantum whose turn it is for an entry takes it out (futexPeriodic).
LEMMA LockPeriodic ==
  ASSUME LockInv, Periodic
  PROVE  LockInv'
<1> DEFINE slept == ThreadsOf(Expired(sleeping, Tick))
           waited == [a \in Addrs |-> ThreadsOf(Expired(futex[a], Tick))]
           gone == Expired(sleeping, Tick) \cup UNION {Expired(futex[a], Tick) : a \in Addrs}
<1>1. /\ sleeping' = NotExpired(sleeping, Tick)
      /\ futex' = [a \in Addrs |-> NotExpired(futex[a], Tick)]
      /\ Resume(ThreadsOf(gone), FALSE) /\ now' = Tick /\ UNCHANGED <<waiter, pthread>>
  BY DEF Periodic, FutexPeriodic
<1>2. sleeping \in Seq(Entries) /\ Apart(sleeping) /\ now \in Nat
      /\ \A a \in Addrs : futex[a] \in Seq(Entries) /\ Apart(futex[a])
  BY DEF LockInv, SyscallInv
<1>3. now' \in Nat
  BY <1>1, <1>2 DEF Tick
<1>4. Gives(sleeping, sleeping', slept)
  BY <1>1, <1>2, TakesDue
<1>5. \A a \in Addrs : Gives(futex[a], futex'[a], waited[a])
  BY <1>1, <1>2, TakesDue
<1>6. waited \in [Addrs -> SUBSET Threads] /\ futex' \in [Addrs -> Seq(Entries)]
  <2>1. \A a \in Addrs : waited[a] \subseteq Threads /\ futex'[a] \in Seq(Entries)
    BY <1>2, <1>5, ThreadsTyped DEF Gives
  <2> QED BY <1>1, <2>1
<1>7. \A t \in ThreadsOf(gone) : t \in slept \/ \E a \in Addrs : t \in waited[a]
  <2>1. \A e \in gone : \/ e \in Expired(sleeping, Tick)
                        \/ \E a \in Addrs : e \in Expired(futex[a], Tick)
    OBVIOUS
  <2> QED BY <2>1 DEF ThreadsOf
<1> HIDE DEF slept, waited, gone
<1> QED BY <1>1, <1>3, <1>4, <1>5, <1>6, <1>7, WakesSyscall

\* The first is resumed and the others go to the queue of another word.
LEMMA LockRequeue ==
  ASSUME LockInv, NEW t \in Threads, NEW a \in Addrs, NEW b \in Addrs, NEW val \in Values,
         FutexCmpRequeue(t, a, b, 1, val), mem[a] = val
  PROVE  LockInv'
<1> DEFINE woken == ThreadsOf(WokenBy(a, 1))
           rest == LeftBy(a, 1)
<1>1. /\ futex' = [futex EXCEPT ![a] = <<>>, ![b] = futex[b] \o rest]
      /\ sleeping' = sleeping /\ now' = now /\ a # b
      /\ Resume(woken, TRUE) /\ UNCHANGED <<waiter, pthread>>
  BY DEF FutexCmpRequeue
<1>2. rest \in Seq(Entries) /\ Gives(futex[a], rest, woken) /\ 1 \in Nat
  BY FutexTakes
<1> HIDE DEF woken, rest
<1>3. /\ futex \in [Addrs -> Seq(Entries)] /\ Apart(futex[b]) /\ Apart(rest)
      /\ ThreadsIn(rest) \subseteq ThreadsIn(futex[a]) /\ woken \subseteq ThreadsIn(futex[a])
      /\ \A u \in woken : u \notin ThreadsIn(rest)
      /\ ThreadsIn(futex[a]) \subseteq Threads
  BY <1>2, ThreadsTyped DEF LockInv, SyscallInv, Gives
<1>4. \A u \in Threads : u \in ThreadsIn(futex[a]) => u \notin ThreadsIn(futex[b])
  BY <1>1 DEF LockInv, SyscallInv
<1>5. /\ futex[b] \o rest \in Seq(Entries) /\ Apart(futex[b] \o rest)
      /\ ThreadsIn(futex[b] \o rest) = ThreadsIn(futex[b]) \cup ThreadsIn(rest)
  <2>1. ThreadsIn(futex[b]) \cap ThreadsIn(rest) = {}
    BY <1>3, <1>4
  <2> QED BY <1>2, <1>3, <2>1, Moves
<1>6. /\ futex' \in [Addrs -> Seq(Entries)]
      /\ futex'[a] = <<>> /\ futex'[b] = futex[b] \o rest
      /\ \A c \in Addrs \ {a, b} : futex'[c] = futex[c]
  <2> DEFINE q == futex[b] \o rest
             empty == <<>>
  <2>1. /\ q \in Seq(Entries) /\ empty \in Seq(Entries) /\ a # b
        /\ futex' = [futex EXCEPT ![a] = empty, ![b] = q]
    BY <1>1, <1>5
  <2>2. futex \in [Addrs -> Seq(Entries)]
    BY <1>3
  <2> HIDE DEF q, empty
  <2>3. /\ futex' \in [Addrs -> Seq(Entries)] /\ futex'[a] = empty /\ futex'[b] = q
        /\ \A c \in Addrs \ {a, b} : futex'[c] = futex[c]
    BY <2>1, <2>2
  <2> QED BY <2>3 DEF q, empty
<1>7. ThreadsIn(<<>>) = {} /\ Apart(<<>>)
  BY DEF ThreadsIn, Apart
<1>8. \A c \in Addrs : Apart(futex'[c])
  BY <1>5, <1>6, <1>7 DEF LockInv, SyscallInv
<1>9. \A c \in Addrs, u \in Threads : u \in ThreadsIn(futex'[c]) =>
        c # a /\ u \notin woken /\ (u \in ThreadsIn(futex[c]) \/ (c = b /\ u \in ThreadsIn(futex[a])))
  <2> SUFFICES ASSUME NEW c \in Addrs, NEW u \in Threads, u \in ThreadsIn(futex'[c])
               PROVE  /\ c # a /\ u \notin woken
                      /\ u \in ThreadsIn(futex[c]) \/ (c = b /\ u \in ThreadsIn(futex[a]))
    OBVIOUS
  <2>1. CASE c = a
    BY <1>6, <1>7, <2>1
  <2>2. CASE c = b
    BY <1>1, <1>3, <1>4, <1>5, <1>6, <2>2
  <2>3. CASE c # a /\ c # b
    <3>1. u \in ThreadsIn(futex[c])
      BY <1>6, <2>3
    <3>2. u \notin ThreadsIn(futex[a])
      BY <2>3, <3>1 DEF LockInv, SyscallInv
    <3> QED BY <1>3, <2>3, <3>1, <3>2
  <2> QED BY <2>1, <2>2, <2>3
<1>10. call' = call /\ program' = program
  BY <1>1 DEF Resume
<1>11. Addrs' = Addrs
  BY <1>10 DEF Addrs
<1>12. SyscallInv'
  <2>1. \A c, d \in Addrs, u \in Threads :
          u \in ThreadsIn(futex'[c]) /\ u \in ThreadsIn(futex'[d]) => c = d
    BY <1>9 DEF LockInv, SyscallInv
  <2>2. \A c \in Addrs, u \in Threads : u \in ThreadsIn(futex'[c]) => call'[u] = "futex"
    BY <1>9, <1>10 DEF LockInv, SyscallInv
  <2> QED BY <1>1, <1>6, <1>8, <1>10, <1>11, <2>1, <2>2 DEF LockInv, SyscallInv
<1>13. \A u \in Threads : InSyscall(u)' => InSyscall(u) /\ u \notin woken
  <2> SUFFICES ASSUME NEW u \in Threads, InSyscall(u)' PROVE InSyscall(u) /\ u \notin woken
    OBVIOUS
  <2>1. CASE u \in ThreadsIn(sleeping)
    <3>1. u \notin ThreadsIn(futex[a])
      BY <2>1, InOneQueue
    <3> QED BY <1>3, <2>1, <3>1 DEF InSyscall
  <2>2. CASE u \notin ThreadsIn(sleeping)
    <3>1. PICK c \in Addrs : u \in ThreadsIn(futex'[c])
      BY <1>1, <1>11, <2>2 DEF InSyscall
    <3> QED BY <1>9, <3>1 DEF InSyscall
  <2> QED BY <2>1, <2>2
<1>14. \A u \in Threads : u \in woken => InSyscall(u)
  BY <1>3 DEF InSyscall
<1> QED BY <1>1, <1>12, <1>13, <1>14, ResumesSyscall

-----------------------------------------------------------------------------
(* The thread manager, and the whole specification *)

\* A step that touches nothing of this.
LEMMA LockStutters ==
  ASSUME LockInv, UNCHANGED <<program, threads, waiter, mutex, cond, barrier, holds,
                              sleeping, futex, now>>
  PROVE  LockInv'
<1>1. program' \in Programs /\ ThreadTypes' /\ call' = call /\ CallsStay
  BY Goes
<1>2. /\ PthreadInv' /\ SyscallInv' /\ JoinInv'
      /\ \A t \in Threads : Waits(t)' => Waits(t)
  BY <1>1, PthreadStays, SyscallStays, JoinStays DEF LockInv, Waits
<1>3. StalledInv'
  BY <1>2, Goes
<1>4. OwnerInv' /\ holds' \subseteq Threads /\ HolderOwns'
  BY <1>1 DEF LockInv, OwnerInv, HolderOwns
<1> QED BY <1>1, <1>2, <1>3, <1>4 DEF LockInv

\* The thread manager leaves the queues of both servers alone.
LEMMA ManagerStays ==
  ASSUME LockInv, CallsStay,
         UNCHANGED <<program, mutex, cond, barrier, sleeping, futex, now>>,
         \A t \in Threads : call'[t] \in {"lock", "cond"} => call'[t] = call[t]
  PROVE  /\ PthreadInv' /\ SyscallInv' /\ OwnerInv'
         /\ \A t \in Threads : /\ InPthread(t)' => InPthread(t)
                               /\ InSyscall(t)' => InSyscall(t)
<1>1. PthreadInv' /\ SyscallInv'
      /\ \A t \in Threads : /\ InPthread(t)' => InPthread(t)
                            /\ InSyscall(t)' => InSyscall(t)
  BY PthreadStays, SyscallStays DEF LockInv
<1>2. OwnerInv'
  BY DEF LockInv, OwnerInv
<1> QED BY <1>1, <1>2

\* Of those who join, one at most is released and none is added.
LEMMA JoinLeft ==
  ASSUME LockInv, CallsStay, NEW t \in Threads, waiter' = [waiter EXCEPT ![t] = NoThread]
  PROVE  JoinInv' /\ \A u \in Threads : InJoin(u)' => InJoin(u) /\ u # waiter[t]
<1>1. /\ waiter \in [Threads -> Threads \cup {NoThread}]
      /\ \A u, v \in Threads : waiter[u] = waiter[v] /\ waiter[u] # NoThread => u = v
      /\ \A u \in Threads : waiter[u] # NoThread => call[waiter[u]] = "join"
  BY DEF LockInv, JoinInv
<1>2. /\ waiter'[t] = NoThread /\ \A u \in Threads \ {t} : waiter'[u] = waiter[u]
      /\ waiter' \in [Threads -> Threads \cup {NoThread}]
  BY <1>1
<1>3. \A u \in Threads : waiter[u] # NoThread => call'[waiter[u]] = call[waiter[u]]
  BY <1>1 DEF CallsStay, Waits, InJoin
<1>4. JoinInv'
  BY <1>1, <1>2, <1>3 DEF JoinInv
<1>5. ASSUME NEW u \in Threads, InJoin(u)' PROVE InJoin(u) /\ u # waiter[t]
  <2>1. PICK v \in Threads : waiter'[v] = u
    BY <1>5 DEF InJoin
  <2>2. v # t /\ waiter[v] = u /\ u # NoThread
    BY <1>2, <2>1, ThreadSyncAssumption
  <2> QED BY <1>1, <2>2 DEF InJoin
<1> QED BY <1>4, <1>5

LEMMA LockCreate ==
  ASSUME LockInv, NEW t \in Threads, NEW new \in Threads, Create(t, new)
  PROVE  LockInv'
<1>1. /\ status[new] = "none" /\ status' = [status EXCEPT ![new] = "initializing"]
      /\ host' = host /\ signalled' = signalled /\ call' = call /\ program' = program
      /\ waiter' = waiter /\ holds' = holds /\ mutex' = mutex
      /\ UNCHANGED <<program, mutex, cond, barrier, sleeping, futex, now>>
  BY DEF Create, pthread, kernel
<1>2. ThreadTypes' /\ program' \in Programs /\ CallsStay
  BY <1>1 DEF LockInv, ThreadTypes, States, CallsStay
<1>3. /\ PthreadInv' /\ SyscallInv' /\ OwnerInv' /\ JoinInv'
      /\ \A u \in Threads : Waits(u)' => Waits(u)
  BY <1>1, <1>2, ManagerStays, JoinStays DEF LockInv, Waits
<1>4. StalledInv'
  BY <1>1, <1>3 DEF LockInv, StalledInv, ThreadTypes
<1>5. holds' \subseteq Threads /\ HolderOwns'
  BY <1>1 DEF LockInv, HolderOwns
<1> QED BY <1>2, <1>3, <1>4, <1>5 DEF LockInv

LEMMA LockJoin ==
  ASSUME LockInv, NEW t \in Threads, NEW target \in Threads, JoinThread(t, target)
  PROVE  LockInv'
<1>1. /\ call[t] = "none" /\ waiter[target] = NoThread /\ holds' = holds /\ mutex' = mutex
      /\ program' = program
      /\ UNCHANGED <<program, mutex, cond, barrier, holds, sleeping, futex, now>>
  BY DEF JoinThread, Caller, pthread, kernel
<1>2. CASE status[target] = "idle"
  <2>1. UNCHANGED <<threads, waiter>>
    BY <1>2 DEF JoinThread
  <2> QED BY <1>1, <2>1, LockStutters
<1>3. CASE status[target] # "idle"
  <2>1. /\ waiter' = [waiter EXCEPT ![target] = t]
        /\ ResumeAndStall({}, t, "join") /\ "join" \in CallNames
    BY <1>3 DEF JoinThread, Stall, CallNames
  <2>2. /\ program' \in Programs /\ ThreadTypes' /\ CallsStay /\ ~ Waits(t)
        /\ call'[t] = "join" /\ \A u \in Threads \ {t} : call'[u] = call[u]
    BY <1>1, <2>1, Stalls
  <2>3. \A u \in Threads : call'[u] \in {"lock", "cond"} => call'[u] = call[u]
    BY <2>2
  <2>4. /\ PthreadInv' /\ SyscallInv' /\ OwnerInv'
        /\ \A u \in Threads : /\ InPthread(u)' => InPthread(u)
                              /\ InSyscall(u)' => InSyscall(u)
    BY <1>1, <2>2, <2>3, ManagerStays
  <2>5. /\ waiter \in [Threads -> Threads \cup {NoThread}]
        /\ \A u, v \in Threads : waiter[u] = waiter[v] /\ waiter[u] # NoThread => u = v
        /\ \A u \in Threads : waiter[u] # NoThread => call[waiter[u]] = "join"
    BY DEF LockInv, JoinInv
  <2>6. /\ waiter' \in [Threads -> Threads \cup {NoThread}] /\ waiter'[target] = t
        /\ \A u \in Threads \ {target} : waiter'[u] = waiter[u]
    BY <2>1, <2>5
  <2>7. \A u \in Threads : waiter[u] # t
    BY <2>2 DEF Waits, InJoin
  <2>8. JoinInv'
    BY <2>2, <2>5, <2>6, <2>7 DEF JoinInv
  <2>9. \A u \in Threads \ {t} : InJoin(u)' => InJoin(u)
    BY <2>6 DEF InJoin
  <2>10. \A u \in Threads \ {t} : Waits(u)' => Waits(u)
    BY <2>4, <2>9 DEF Waits
  <2>11. StalledInv'
    BY <1>1, <2>1, <2>10, Stalls
  <2>12. holds' \subseteq Threads /\ HolderOwns'
    BY <1>1 DEF LockInv, HolderOwns
  <2> QED BY <2>2, <2>4, <2>8, <2>11, <2>12 DEF LockInv
<1> QED BY <1>2, <1>3

\* Both the start and the end of a thread signal the one that joins it.
LEMMA LockStartExit ==
  ASSUME LockInv, NEW t \in Threads, OnThreadStart(t) \/ OnThreadExit(t)
  PROVE  LockInv'
<1>1. /\ waiter' = [waiter EXCEPT ![t] = NoThread] /\ holds' = holds /\ mutex' = mutex
      /\ call' = call
      /\ UNCHANGED <<program, mutex, cond, barrier, sleeping, futex, now>>
  BY DEF OnThreadStart, OnThreadExit, pthread, kernel
<1>2. /\ status[t] \in {"initializing", "running"} /\ host'[t] \in {"active", "gone"}
      /\ \A u \in Threads \ {t} : host'[u] = host[u]
      /\ \A u \in Threads \ {t} : u # waiter[t] =>
           status'[u] = status[u] /\ signalled'[u] = signalled[u]
      /\ ThreadTypes'
  <2>1. ThreadTypes
    BY DEF LockInv
  <2>2. CASE OnThreadStart(t)
    <3>1. /\ status[t] = "initializing" /\ status' = [status EXCEPT ![t] = "running"]
          /\ host' = [host EXCEPT ![t] = "active"] /\ call' = call
          /\ signalled' = [u \in Threads |-> signalled[u] \/ u = waiter[t]]
      BY <2>2 DEF OnThreadStart
    <3> QED BY <2>1, <3>1 DEF ThreadTypes, States, HostStates
  <2>3. CASE OnThreadExit(t)
    <3> DEFINE woken == {waiter[t]} \ {NoThread}
    <3>1. /\ status[t] = "running" /\ host' = [host EXCEPT ![t] = "gone"] /\ call' = call
          /\ status' = [u \in Threads |-> IF u = t THEN "idle"
                                          ELSE IF u \in woken THEN "running" ELSE status[u]]
          /\ signalled' = [u \in Threads |-> signalled[u] \/ u \in woken]
      BY <2>3 DEF OnThreadExit
    <3>2. \A u \in Threads : u # waiter[t] => u \notin woken
      OBVIOUS
    <3> HIDE DEF woken
    <3> QED BY <2>1, <3>1, <3>2 DEF ThreadTypes, States, HostStates
  <2> QED BY <2>2, <2>3
<1>3. program' \in Programs /\ CallsStay
  BY <1>1 DEF LockInv, CallsStay
<1>4. /\ PthreadInv' /\ SyscallInv' /\ OwnerInv' /\ JoinInv'
      /\ \A u \in Threads : /\ InPthread(u)' => InPthread(u)
                            /\ InSyscall(u)' => InSyscall(u)
                            /\ InJoin(u)' => InJoin(u) /\ u # waiter[t]
  BY <1>1, <1>3, ManagerStays, JoinLeft
<1>5. \A u \in Threads : Waits(u)' => Waits(u) /\ u # waiter[t]
  <2> SUFFICES ASSUME NEW u \in Threads, Waits(u)' PROVE Waits(u) /\ u # waiter[t]
    OBVIOUS
  <2>1. Waits(u)
    BY <1>4 DEF Waits
  <2>2. u = waiter[t] => InJoin(u)
    BY DEF InJoin
  <2>3. u = waiter[t] => ~ InPthread(u) /\ ~ InSyscall(u)
    BY <2>2, InOneQueue
  <2> QED BY <1>4, <2>1, <2>3 DEF Waits
<1>6. ~ Waits(t)
  BY <1>2 DEF LockInv, StalledInv
<1>7. StalledInv'
  <2> SUFFICES ASSUME NEW u \in Threads, Waits(u)'
               PROVE  status'[u] = "stalled" /\ ~ (host'[u] = "waiting" /\ signalled'[u])
    BY DEF StalledInv
  <2>1. Waits(u) /\ u # waiter[t] /\ u # t
    BY <1>5, <1>6
  <2> QED BY <1>2, <2>1 DEF LockInv, StalledInv
<1>8. holds' \subseteq Threads /\ HolderOwns'
  BY <1>1 DEF LockInv, HolderOwns
<1> QED BY <1>2, <1>3, <1>4, <1>7, <1>8 DEF LockInv

\* A call returns only to a thread that is in no queue: whoever locked owns the mutex.
LEMMA LockReturns ==
  ASSUME LockInv, NEW t \in Threads, Returned(t), ~ Waits(t),
         UNCHANGED <<program, status, waiter, mutex, cond, barrier, sleeping, futex, now,
                     signalled>>
  PROVE  LockInv'
<1>1. /\ call' = [call EXCEPT ![t] = "none"] /\ host' = [host EXCEPT ![t] = "active"]
      /\ holds' = IF call[t] \in {"lock", "cond"} THEN holds \cup {t} ELSE holds
      /\ mutex' = mutex /\ status' = status /\ signalled' = signalled /\ program' = program
  BY DEF Returned
<1>2. /\ call'[t] = "none" /\ \A u \in Threads \ {t} : call'[u] = call[u]
      /\ host'[t] = "active" /\ \A u \in Threads \ {t} : host'[u] = host[u]
      /\ ThreadTypes'
  BY <1>1 DEF LockInv, ThreadTypes, HostStates, CallNames
<1>3. program' \in Programs /\ CallsStay
  BY <1>1, <1>2 DEF LockInv, CallsStay
<1>4. \A u \in Threads : call'[u] \in {"lock", "cond"} => call'[u] = call[u]
  BY <1>2
<1>5. /\ PthreadInv' /\ SyscallInv' /\ OwnerInv' /\ JoinInv'
      /\ \A u \in Threads : Waits(u)' => Waits(u)
  BY <1>3, <1>4, ManagerStays, JoinStays DEF LockInv, Waits
<1>6. StalledInv'
  BY <1>1, <1>2, <1>5 DEF LockInv, StalledInv
<1>7. call[t] \in {"lock", "cond"} => mutex.owner = t
  BY DEF LockInv, OwnerInv, Waits, InPthread
<1>8. holds' \subseteq Threads /\ HolderOwns'
  BY <1>1, <1>7 DEF LockInv, HolderOwns
<1> QED BY <1>2, <1>3, <1>5, <1>6, <1>8 DEF LockInv

\* The thread may have been resumed before it came to wait.
LEMMA LockEnterWait ==
  ASSUME LockInv, NEW t \in Threads, EnterWait(t)
  PROVE  LockInv'
<1>1. UNCHANGED <<program, status, waiter, mutex, cond, barrier, sleeping, futex, now>>
  BY DEF EnterWait, kernel
<1>2. CASE WokenAlready(t)
  <2>1. Returned(t) /\ UNCHANGED signalled /\ status[t] = "running"
    BY <1>2 DEF EnterWait, WokenAlready
  <2>2. ~ Waits(t)
    BY <2>1 DEF LockInv, StalledInv
  <2> QED BY <1>1, <2>1, <2>2, LockReturns
<1>3. CASE ~ WokenAlready(t)
  <2>1. /\ host' = [host EXCEPT ![t] = "waiting"] /\ signalled' = [signalled EXCEPT ![t] = FALSE]
        /\ call' = call /\ holds' = holds /\ status' = status /\ mutex' = mutex
    BY <1>1, <1>3 DEF EnterWait
  <2>2. /\ ~ signalled'[t] /\ \A u \in Threads \ {t} : host'[u] = host[u] /\ signalled'[u] = signalled[u]
        /\ ThreadTypes'
    BY <2>1 DEF LockInv, ThreadTypes, HostStates
  <2>3. program' \in Programs /\ CallsStay
    BY <1>1, <2>1 DEF LockInv, CallsStay
  <2>4. /\ PthreadInv' /\ SyscallInv' /\ OwnerInv' /\ JoinInv'
        /\ \A u \in Threads : Waits(u)' => Waits(u)
    BY <1>1, <2>1, <2>3, ManagerStays, JoinStays DEF LockInv, Waits
  <2>5. StalledInv'
    BY <2>1, <2>2, <2>4 DEF LockInv, StalledInv
  <2>6. holds' \subseteq Threads /\ HolderOwns'
    BY <2>1 DEF LockInv, HolderOwns
  <2> QED BY <2>2, <2>3, <2>4, <2>5, <2>6 DEF LockInv
<1> QED BY <1>2, <1>3

LEMMA LockLeaveWait ==
  ASSUME LockInv, NEW t \in Threads, LeaveWait(t)
  PROVE  LockInv'
<1>1. /\ host[t] = "waiting" /\ signalled[t] /\ Returned(t)
      /\ UNCHANGED <<program, status, waiter, mutex, cond, barrier, sleeping, futex, now, signalled>>
  BY DEF LeaveWait, kernel
<1>2. ~ Waits(t)
  BY <1>1 DEF LockInv, StalledInv
<1> QED BY <1>1, <1>2, LockReturns

LEMMA LockCall ==
  ASSUME LockInv, NEW t \in Threads, Call(t)
  PROVE  LockInv'
<1>1. CASE MutexLock(t)
  <2>1. /\ call[t] = "none" /\ UNCHANGED <<program, waiter, cond, barrier, kernel, now>>
        /\ \/ /\ mutex.owner = NoThread /\ mutex' = [mutex EXCEPT !.owner = t]
              /\ holds' = holds \cup {t} /\ UNCHANGED threads
           \/ /\ mutex' = [mutex EXCEPT !.waiting = Append(@, t)]
              /\ Stall(t, "lock") /\ UNCHANGED holds
    BY <1>1 DEF MutexLock, Caller
  <2> QED BY <2>1, Taken, QueuedFor
<1>2. CASE MutexTryLock(t)
  <2>1. call[t] = "none" /\ UNCHANGED <<program, waiter, cond, barrier, kernel, now>>
    BY <1>2 DEF MutexTryLock, Caller
  <2>2. CASE mutex.owner = NoThread
    <3>1. /\ mutex' = [mutex EXCEPT !.owner = t] /\ holds' = holds \cup {t} /\ UNCHANGED threads
      BY <1>2, <2>2, ThreadSyncAssumption DEF MutexTryLock
    <3> QED BY <2>1, <2>2, <3>1, Taken
  <2>3. CASE mutex.owner = t
    <3>1. /\ mutex' = [mutex EXCEPT !.waiting = Append(@, t)]
          /\ Stall(t, "lock") /\ UNCHANGED holds
      BY <1>2, <2>3, ThreadSyncAssumption DEF MutexTryLock
    <3> QED BY <2>1, <3>1, QueuedFor
  <2>4. CASE mutex.owner # NoThread /\ mutex.owner # t
    <3>1. UNCHANGED <<mutex, holds, threads>>
      BY <1>2, <2>4 DEF MutexTryLock
    <3> QED BY <2>1, <3>1, LockStutters DEF kernel
  <2> QED BY <2>2, <2>3, <2>4
<1>3. ASSUME NEW a \in Addrs, NEW val \in Values, Store(t, a, val) PROVE LockInv'
  BY <1>3, LockStutters DEF Store, pthread
<1>4. ASSUME NEW a \in Addrs, FutexWake(t, a, Cardinality(Threads)) PROVE LockInv'
  <2>1. Cardinality(Threads) \in Nat
    BY ThreadSyncAssumption, FS_CardinalityType
  <2> QED BY <1>4, <2>1, LockFutexWake
<1>5. ASSUME NEW a \in Addrs, NEW b \in Addrs, NEW val \in Values,
             FutexCmpRequeue(t, a, b, 1, val)
      PROVE  LockInv'
  <2>1. CASE mem[a] # val
    BY <1>5, <2>1, LockStutters DEF FutexCmpRequeue, pthread
  <2> QED BY <1>5, <2>1, LockRequeue
<1> QED BY <1>1, <1>2, <1>3, <1>4, <1>5, LockCreate, LockJoin, LockStartExit, LockUnlock,
           LockCondWait, LockCondSignal, LockBarrier, LockSleep, LockFutexWait,
           LockFutexWakeOp DEF Call

LEMMA LockNext == LockInv /\ [Next]_vars => LockInv'
<1> SUFFICES ASSUME LockInv, [Next]_vars PROVE LockInv'
  OBVIOUS
<1>1. CASE UNCHANGED vars
  BY <1>1, LockStutters DEF vars, threads
<1>2. CASE Next
  BY <1>2, LockCall, LockStartExit, LockEnterWait, LockLeaveWait, LockPeriodic DEF Next
<1> QED BY <1>1, <1>2

\* A thread whose lock, try-lock or condition wait has returned owns the mutex until
\* it unlocks it, whatever resumed it and however late it came to wait
\* (sync_server.cc, stallThread).
THEOREM HolderOwnsCorrect == Spec => []HolderOwns
<1>1. LockInv => HolderOwns
  BY DEF LockInv
<1> QED BY <1>1, LockInit, LockNext, PTL DEF Spec

-----------------------------------------------------------------------------
(* The barrier *)

\* As long as a sequence without repetitions is, so many it holds.
LEMMA SizeOfQueue ==
  ASSUME NEW s \in Seq(Threads), IsInjective(s)
  PROVE  IsFiniteSet(ToSet(s)) /\ Cardinality(ToSet(s)) = Len(s)
<1>1. Len(s) \in Nat /\ DOMAIN s = 1 .. Len(s) /\ s \in [1 .. Len(s) -> Threads]
  OBVIOUS
<1>2. IsFiniteSet(1 .. Len(s)) /\ Cardinality(1 .. Len(s)) = Len(s)
  BY <1>1, FS_Interval
<1> DEFINE f == [i \in 1 .. Len(s) |-> s[i]]
<1>3. f \in Bijection(1 .. Len(s), ToSet(s))
  <2>1. f \in [1 .. Len(s) -> ToSet(s)]
    BY <1>1 DEF ToSet
  <2>2. \A i, j \in 1 .. Len(s) : f[i] = f[j] => i = j
    BY <1>1 DEF IsInjective
  <2>3. \A x \in ToSet(s) : \E i \in 1 .. Len(s) : f[i] = x
    BY <1>1 DEF ToSet
  <2> HIDE DEF f
  <2> QED BY <2>1, <2>2, <2>3 DEF Bijection, Injection, Surjection, IsInjective
<1> HIDE DEF f
<1>4. ExistsBijection(1 .. Len(s), ToSet(s))
  BY <1>3 DEF ExistsBijection
<1> QED BY <1>2, <1>4, FS_Bijection

\* Every thread has come to the barrier as often as the barrier has opened, those
\* who wait in it once more; and a thread has passed it each time it has come, but
\* for the call it is still in.
BarrierInv ==
  /\ IsInjective(barrier)
  /\ arrivals \in [Threads -> Nat] /\ passes \in [Threads -> Nat]
  /\ \A t \in Threads : arrivals[t] = passes[t] + (IF call[t] = "barrier" THEN 1 ELSE 0)
  /\ \E opened \in Nat : \A t \in Threads :
       arrivals[t] = opened + (IF t \in ToSet(barrier) THEN 1 ELSE 0)

LEMMA BarrierInit == Init => BarrierInv
<1> SUFFICES ASSUME Init PROVE BarrierInv
  OBVIOUS
<1>1. /\ barrier = <<>> /\ call = [t \in Threads |-> "none"]
      /\ arrivals = [t \in Threads |-> 0] /\ passes = [t \in Threads |-> 0]
  BY DEF Init
<1>2. ToSet(<<>>) = {} /\ IsInjective(<<>>)
  BY DEF ToSet, IsInjective
<1>3. \A t \in Threads : arrivals[t] = 0 + (IF t \in ToSet(barrier) THEN 1 ELSE 0)
  BY <1>1, <1>2
<1> QED BY <1>1, <1>2, <1>3 DEF BarrierInv

\* A step that is not about the barrier.
LEMMA BarrierStays ==
  ASSUME BarrierInv, UNCHANGED <<barrier, arrivals, passes>>,
         \A t \in Threads : call'[t] = "barrier" <=> call[t] = "barrier"
  PROVE  BarrierInv'
BY DEF BarrierInv

\* A call of another kind.
LEMMA BarrierStaysStalled ==
  ASSUME LockInv, BarrierInv, UNCHANGED <<barrier, arrivals, passes>>, NEW self \in Threads,
         NEW woken, NEW name, name # "barrier", call[self] = "none",
         ResumeAndStall(woken, self, name)
  PROVE  BarrierInv'
<1>1. call \in [Threads -> CallNames] /\ call' = [call EXCEPT ![self] = name]
  BY DEF LockInv, ThreadTypes, ResumeAndStall
<1>2. call'[self] = name /\ \A t \in Threads \ {self} : call'[t] = call[t]
  BY <1>1
<1> QED BY <1>2, BarrierStays

\* A call returns, maybe that of a thread that the barrier let pass.
LEMMA BarrierReturns ==
  ASSUME LockInv, BarrierInv, NEW t \in Threads, Returned(t), UNCHANGED <<barrier, arrivals>>
  PROVE  BarrierInv'
<1>1. /\ call \in [Threads -> CallNames] /\ call' = [call EXCEPT ![t] = "none"]
      /\ passes' = IF call[t] = "barrier" THEN [passes EXCEPT ![t] = @ + 1] ELSE passes
  BY DEF LockInv, ThreadTypes, Returned
<1>2. call'[t] = "none" /\ \A u \in Threads \ {t} : call'[u] = call[u]
  BY <1>1
<1>3. CASE call[t] = "barrier"
  <2>1. /\ passes \in [Threads -> Nat] /\ passes' = [passes EXCEPT ![t] = @ + 1]
    BY <1>1, <1>3 DEF BarrierInv
  <2>2. /\ passes' \in [Threads -> Nat] /\ passes'[t] = passes[t] + 1
        /\ \A u \in Threads \ {t} : passes'[u] = passes[u]
    BY <2>1
  <2>3. \A u \in Threads : arrivals[u] = passes'[u] + (IF call'[u] = "barrier" THEN 1 ELSE 0)
    BY <1>2, <1>3, <2>1, <2>2 DEF BarrierInv
  <2> QED BY <2>2, <2>3 DEF BarrierInv
<1>4. CASE call[t] # "barrier"
  <2>1. passes' = passes /\ \A u \in Threads : call'[u] = "barrier" <=> call[u] = "barrier"
    BY <1>1, <1>2, <1>4
  <2> QED BY <2>1, BarrierStays
<1> QED BY <1>3, <1>4

\* A thread comes to the barrier: it waits, or all the others wait already.
LEMMA BarrierCame ==
  ASSUME BarrierCount >= Cardinality(Threads), LockInv, BarrierInv,
         NEW t \in Threads, BarrierWait(t)
  PROVE  BarrierInv'
<1>1. /\ call[t] = "none" /\ arrivals' = [arrivals EXCEPT ![t] = @ + 1]
      /\ call \in [Threads -> CallNames] /\ barrier \in Seq(Threads) /\ IsInjective(barrier)
      /\ arrivals \in [Threads -> Nat] /\ passes \in [Threads -> Nat]
  BY DEF BarrierWait, Caller, LockInv, ThreadTypes, PthreadInv, BarrierInv
<1>2. /\ arrivals' \in [Threads -> Nat] /\ arrivals'[t] = arrivals[t] + 1
      /\ \A u \in Threads \ {t} : arrivals'[u] = arrivals[u]
  BY <1>1
<1>3. t \notin ToSet(barrier)
  BY <1>1 DEF LockInv, PthreadInv
<1>4. PICK opened \in Nat : \A u \in Threads :
        arrivals[u] = opened + (IF u \in ToSet(barrier) THEN 1 ELSE 0)
  BY DEF BarrierInv
<1>5. CASE LastToArrive
  <2>1. /\ barrier' = <<>> /\ passes' = [passes EXCEPT ![t] = @ + 1] /\ call' = call
    BY <1>5 DEF BarrierWait, Resume
  <2>2. \A u \in Threads \ {t} : u \in ToSet(barrier)
    <3>1. /\ IsFiniteSet(Threads \ {t}) /\ IsFiniteSet(Threads)
          /\ Cardinality(Threads) \in Nat
          /\ Cardinality(Threads \ {t}) = Cardinality(Threads) - 1
      BY ThreadSyncAssumption, FS_RemoveElement, FS_CardinalityType
    <3>2. Cardinality(ToSet(barrier)) = Len(barrier) /\ Len(barrier) = BarrierCount - 1
      BY <1>1, <1>5, SizeOfQueue DEF LastToArrive
    <3>3. ToSet(barrier) \in SUBSET (Threads \ {t})
      BY <1>1, <1>3, SetOfSequence
    <3>4. Cardinality(ToSet(barrier)) <= Cardinality(Threads \ {t})
      BY <3>1, <3>3, FS_Subset
    <3>5. Cardinality(ToSet(barrier)) = Cardinality(Threads \ {t})
      BY <3>1, <3>2, <3>4, ThreadSyncAssumption
    <3> QED BY <3>1, <3>3, <3>5, FS_Subset
  <2>3. ToSet(barrier') = {} /\ IsInjective(barrier')
    BY <2>1 DEF ToSet, IsInjective
  <2>4. \A u \in Threads : arrivals'[u] = (opened + 1) + (IF u \in ToSet(barrier') THEN 1 ELSE 0)
    BY <1>2, <1>3, <1>4, <2>2, <2>3
  <2>5. /\ passes' \in [Threads -> Nat] /\ passes'[t] = passes[t] + 1
        /\ \A u \in Threads \ {t} : passes'[u] = passes[u]
    BY <1>1, <2>1
  <2>6. \A u \in Threads : arrivals'[u] = passes'[u] + (IF call'[u] = "barrier" THEN 1 ELSE 0)
    BY <1>1, <1>2, <2>1, <2>5 DEF BarrierInv
  <2> QED BY <1>2, <2>3, <2>4, <2>5, <2>6 DEF BarrierInv
<1>6. CASE ~ LastToArrive
  <2>1. barrier' = Append(barrier, t) /\ passes' = passes /\ call' = [call EXCEPT ![t] = "barrier"]
    BY <1>6 DEF BarrierWait, Stall, ResumeAndStall
  <2>2. ToSet(barrier') = ToSet(barrier) \cup {t} /\ IsInjective(barrier')
    BY <1>1, <1>3, <2>1, AppendSets
  <2>3. \A u \in Threads : arrivals'[u] = opened + (IF u \in ToSet(barrier') THEN 1 ELSE 0)
    BY <1>2, <1>3, <1>4, <2>2
  <2>4. call'[t] = "barrier" /\ \A u \in Threads \ {t} : call'[u] = call[u]
    BY <1>1, <2>1
  <2>5. \A u \in Threads : arrivals'[u] = passes'[u] + (IF call'[u] = "barrier" THEN 1 ELSE 0)
    BY <1>1, <1>2, <2>1, <2>4 DEF BarrierInv
  <2> QED BY <1>1, <1>2, <2>1, <2>2, <2>3, <2>5 DEF BarrierInv
<1> QED BY <1>5, <1>6


LEMMA BarrierCall ==
  ASSUME BarrierCount >= Cardinality(Threads), LockInv, BarrierInv, NEW t \in Threads, Call(t)
  PROVE  BarrierInv'
<1>1. ASSUME NEW new \in Threads, Create(t, new) PROVE BarrierInv'
  BY <1>1, BarrierStays DEF Create, pthread
<1>2. ASSUME NEW target \in Threads, JoinThread(t, target) PROVE BarrierInv'
  <2>1. CASE status[target] = "idle"
    BY <1>2, <2>1, BarrierStays DEF JoinThread, pthread, threads
  <2>2. CASE status[target] # "idle"
    <3>1. ResumeAndStall({}, t, "join") /\ UNCHANGED <<barrier, arrivals, passes>>
          /\ call[t] = "none" /\ "join" # "barrier"
      BY <1>2, <2>2 DEF JoinThread, Stall, pthread, Caller
    <3> QED BY <3>1, BarrierStaysStalled
  <2> QED BY <2>1, <2>2
<1>3. CASE OnThreadExit(t)
  BY <1>3, BarrierStays DEF OnThreadExit, pthread
<1>4. ASSUME MutexLock(t) \/ MutexTryLock(t) PROVE BarrierInv'
  <2>1. UNCHANGED <<barrier, arrivals, passes>> /\ call[t] = "none"
        /\ (Stall(t, "lock") \/ UNCHANGED threads)
    BY <1>4 DEF MutexLock, MutexTryLock, Caller
  <2>2. CASE UNCHANGED threads
    BY <2>1, <2>2, BarrierStays DEF threads
  <2>3. CASE Stall(t, "lock")
    <3>1. ResumeAndStall({}, t, "lock") /\ "lock" # "barrier"
      BY <2>3 DEF Stall
    <3> QED BY <2>1, <3>1, BarrierStaysStalled
  <2> QED BY <2>1, <2>2, <2>3
<1>5. CASE MutexUnlock(t)
  BY <1>5, BarrierStays DEF MutexUnlock, Resume
<1>6. CASE CondWait(t)
  <2>1. ResumeAndStall(NextInLine, t, "cond") /\ UNCHANGED <<barrier, arrivals, passes>>
        /\ call[t] = "none" /\ "cond" # "barrier"
    BY <1>6 DEF CondWait, Caller
  <2> QED BY <2>1, BarrierStaysStalled
<1>7. ASSUME CondSignal(t) \/ CondBroadcast(t) PROVE BarrierInv'
  <2>1. UNCHANGED <<barrier, arrivals, passes, call>>
    BY <1>7 DEF CondSignal, CondBroadcast, LockAsync, Resume, threads
  <2> QED BY <2>1, BarrierStays
<1>8. CASE Sleep(t)
  <2>1. ResumeAndStall({}, t, "sleep") /\ UNCHANGED <<barrier, arrivals, passes>>
        /\ call[t] = "none" /\ "sleep" # "barrier"
    BY <1>8 DEF Sleep, Stall, pthread, Caller
  <2> QED BY <2>1, BarrierStaysStalled
<1>9. ASSUME NEW a \in Addrs, NEW val \in Values, FutexWait(t, a, val) PROVE BarrierInv'
  <2>1. UNCHANGED <<barrier, arrivals, passes>> /\ call[t] = "none"
        /\ (Stall(t, "futex") \/ UNCHANGED threads)
    BY <1>9 DEF FutexWait, Caller, pthread
  <2>2. CASE UNCHANGED threads
    BY <2>1, <2>2, BarrierStays DEF threads
  <2>3. CASE Stall(t, "futex")
    <3>1. ResumeAndStall({}, t, "futex") /\ "futex" # "barrier"
      BY <2>3 DEF Stall
    <3> QED BY <2>1, <3>1, BarrierStaysStalled
  <2> QED BY <2>1, <2>2, <2>3
<1>10. ASSUME NEW a \in Addrs, NEW val \in Values, Store(t, a, val) PROVE BarrierInv'
  BY <1>10, BarrierStays DEF Store, pthread, threads
<1>11. ASSUME NEW a \in Addrs, FutexWake(t, a, Cardinality(Threads)) PROVE BarrierInv'
  BY <1>11, BarrierStays DEF FutexWake, pthread, Resume
<1>12. ASSUME NEW a \in Addrs, NEW b \in Addrs, NEW val \in Values,
              FutexWakeOp(t, a, b, val) \/ FutexCmpRequeue(t, a, b, 1, val)
       PROVE  BarrierInv'
  BY <1>12, BarrierStays DEF FutexWakeOp, FutexCmpRequeue, pthread, Resume, threads
<1> QED BY <1>1, <1>2, <1>3, <1>4, <1>5, <1>6, <1>7, <1>8, <1>9, <1>10, <1>11, <1>12, BarrierCame
        DEF Call

LEMMA BarrierNext ==
  ASSUME BarrierCount >= Cardinality(Threads), LockInv, BarrierInv, [Next]_vars
  PROVE  BarrierInv'
<1>1. ASSUME NEW t \in Threads, OnThreadStart(t) PROVE BarrierInv'
  BY <1>1, BarrierStays DEF OnThreadStart, pthread
<1>2. ASSUME NEW t \in Threads, EnterWait(t) PROVE BarrierInv'
  <2>1. CASE WokenAlready(t)
    BY <1>2, <2>1, BarrierReturns DEF EnterWait
  <2>2. CASE ~ WokenAlready(t)
    BY <1>2, <2>2, BarrierStays DEF EnterWait
  <2> QED BY <2>1, <2>2
<1>3. ASSUME NEW t \in Threads, LeaveWait(t) PROVE BarrierInv'
  BY <1>3, BarrierReturns DEF LeaveWait
<1>4. CASE Periodic
  BY <1>4, BarrierStays DEF Periodic, FutexPeriodic, Resume, pthread
<1>5. CASE UNCHANGED vars
  BY <1>5, BarrierStays DEF vars
<1> QED BY <1>1, <1>2, <1>3, <1>4, <1>5, BarrierCall DEF Next

\* Nobody leaves a barrier that counts every thread before everybody has come to it as
\* often, whatever else the threads do and whenever the resumed ones go on
\* (SimBarrier::wait, stallThread).
THEOREM BarrierTogetherCorrect ==
  ASSUME BarrierCount >= Cardinality(Threads)
  PROVE  Spec => []BarrierTogether
<1>1. LockInv /\ BarrierInv => BarrierTogether
  <2> SUFFICES ASSUME LockInv, BarrierInv, NEW t \in Threads, NEW u \in Threads
               PROVE  passes[t] <= arrivals[u]
    BY DEF BarrierTogether
  <2>1. PICK opened \in Nat : \A v \in Threads :
          arrivals[v] = opened + (IF v \in ToSet(barrier) THEN 1 ELSE 0)
    BY DEF BarrierInv
  <2>2. /\ passes[t] \in Nat /\ arrivals[t] \in Nat /\ arrivals[u] \in Nat
        /\ arrivals[t] = passes[t] + (IF call[t] = "barrier" THEN 1 ELSE 0)
        /\ t \in ToSet(barrier) => call[t] = "barrier"
    BY DEF LockInv, PthreadInv, BarrierInv
  <2>3. arrivals[t] = opened + (IF t \in ToSet(barrier) THEN 1 ELSE 0) /\ arrivals[u] >= opened
    BY <2>1, <2>2
  <2> QED BY <2>2, <2>3
<1>2. LockInv /\ BarrierInv /\ [Next]_vars => BarrierInv'
  BY BarrierNext
<1> QED BY <1>1, <1>2, LockInit, LockNext, BarrierInit, PTL DEF Spec


-----------------------------------------------------------------------------
(* The words of futex calls *)

\* A thread wakes the waiters of the one word it has stored to.
WakeInv ==
  /\ mem \in [Addrs -> Values] /\ storing \in [Threads -> SUBSET Addrs]
  /\ \A t \in Threads : \A a, b \in storing[t] : a = b
  /\ NoLostWakeup

LEMMA WakeInit == Init => WakeInv
<1> SUFFICES ASSUME Init PROVE WakeInv
  OBVIOUS
<1>1. /\ mem = [a \in Addrs |-> 0] /\ storing = [t \in Threads |-> {}]
      /\ futex = [a \in Addrs |-> <<>>]
  BY DEF Init
<1>2. ToSet(<<>>) = {}
  BY DEF ToSet
<1> QED BY <1>1, <1>2, ThreadSyncAssumption DEF WakeInv, NoLostWakeup

\* A step that adds no waiter, changes no word and wakes for none.
LEMMA WakeStays ==
  ASSUME WakeInv, UNCHANGED <<program, mem, storing>>,
         \A a \in Addrs : ToSet(futex'[a]) \subseteq ToSet(futex[a])
  PROVE  WakeInv'
<1>1. Addrs' = Addrs /\ Calls' = Calls
  BY DEF Addrs, Calls
<1>2. NoLostWakeup'
  BY <1>1 DEF WakeInv, NoLostWakeup
<1> QED BY <1>1, <1>2 DEF WakeInv

\* The waiter saw the value the word has.
LEMMA WakeFutexWait ==
  ASSUME LockInv, WakeInv, NEW t \in Threads, NEW a \in Addrs, NEW val \in Values,
         FutexWait(t, a, val)
  PROVE  WakeInv'
<1>1. UNCHANGED <<mem, storing>>
  BY DEF FutexWait
<1>2. CASE WouldBlock(a, val)
  <2>1. futex' = futex /\ UNCHANGED program
    BY <1>2 DEF FutexWait
  <2> QED BY <1>1, <2>1, WakeStays
<1>3. CASE ~ WouldBlock(a, val)
  <2>1. PICK len \in InTime :
          futex' = [futex EXCEPT ![a] = Append(@, Entry(t, Deadline(len), val))]
    BY <1>3 DEF FutexWait
  <2> DEFINE e == Entry(t, Deadline(len), val)
  <2>2. e \in Entries /\ e.val = val /\ mem[a] = val
    BY <1>3, NewEntry DEF Entry, WouldBlock
  <2>3. futex' = [futex EXCEPT ![a] = Append(futex[a], e)]
    BY <2>1
  <2> HIDE DEF e
  <2>4. futex \in [Addrs -> Seq(Entries)]
    BY DEF LockInv, SyscallInv
  <2>5. ToSet(futex'[a]) = ToSet(futex[a]) \cup {e} /\ \A b \in Addrs \ {a} : futex'[b] = futex[b]
    BY <2>2, <2>3, <2>4, AppendSets
  <2>6. UNCHANGED program
    BY DEF FutexWait
  <2>7. Addrs' = Addrs /\ Calls' = Calls
    BY <2>6 DEF Addrs, Calls
  <2>8. NoLostWakeup'
    BY <1>1, <2>2, <2>5, <2>7 DEF WakeInv, NoLostWakeup
  <2> QED BY <1>1, <2>7, <2>8 DEF WakeInv
<1> QED BY <1>2, <1>3

\* The word changes, and the thread that changed it has to wake its waiters.
LEMMA WakeStore ==
  ASSUME LockInv, WakeInv, NEW t \in Threads, NEW a \in Addrs, NEW val \in Values,
         Store(t, a, val)
  PROVE  WakeInv'
<1>1. /\ storing[t] = {} /\ mem' = [mem EXCEPT ![a] = val]
      /\ storing' = [storing EXCEPT ![t] = {a}] /\ UNCHANGED <<program, futex>>
  BY DEF Store
<1>2. Addrs' = Addrs /\ Calls' = Calls
  BY <1>1 DEF Addrs, Calls
<1>3. /\ mem' \in [Addrs -> Values] /\ \A b \in Addrs \ {a} : mem'[b] = mem[b]
      /\ storing' \in [Threads -> SUBSET Addrs] /\ storing'[t] = {a}
      /\ \A u \in Threads \ {t} : storing'[u] = storing[u]
  <2>1. mem \in [Addrs -> Values] /\ storing \in [Threads -> SUBSET Addrs]
    BY DEF WakeInv
  <2>2. mem' \in [Addrs -> Values] /\ \A b \in Addrs \ {a} : mem'[b] = mem[b]
    BY <1>1, <2>1
  <2> QED BY <1>1, <2>1, <2>2
<1>4. \A u \in Threads : storing[u] \subseteq storing'[u]
  BY <1>1, <1>3
<1>5. NoLostWakeup'
  <2> SUFFICES ASSUME Calls \cap {"wakeop", "requeue"} = {}, NEW b \in Addrs,
                      NEW e \in ToSet(futex[b])
               PROVE  mem'[b] = e.val \/ \E u \in Threads : b \in storing'[u]
    BY <1>1, <1>2 DEF NoLostWakeup
  <2>1. CASE b = a
    BY <1>3, <2>1
  <2>2. CASE b # a
    <3>1. mem[b] = e.val \/ \E u \in Threads : b \in storing[u]
      BY DEF WakeInv, NoLostWakeup
    <3> QED BY <1>3, <1>4, <2>2, <3>1
  <2> QED BY <2>1, <2>2
<1>6. ASSUME NEW u \in Threads, NEW b \in storing'[u], NEW c \in storing'[u] PROVE b = c
  <2>1. CASE u = t
    BY <1>3, <2>1
  <2>2. CASE u # t
    <3>1. b \in storing[u] /\ c \in storing[u]
      BY <1>3, <2>2
    <3>2. \A d, e \in storing[u] : d = e
      BY DEF WakeInv
    <3> QED BY <3>1, <3>2
  <2> QED BY <2>1, <2>2
<1> QED BY <1>2, <1>3, <1>5, <1>6 DEF WakeInv

\* No more threads wait for a word than there are.
LEMMA AllWait ==
  ASSUME NEW s \in Seq(Entries), Apart(s)
  PROVE  Len(s) <= Cardinality(Threads)
<1>1. Len(s) \in Nat /\ DOMAIN s = 1 .. Len(s) /\ \A i \in 1 .. Len(s) : s[i].thread \in Threads
  <2>1. Len(s) \in Nat /\ DOMAIN s = 1 .. Len(s) /\ \A i \in 1 .. Len(s) : s[i] \in Entries
    OBVIOUS
  <2> QED BY <2>1 DEF Entries
<1> DEFINE f == [i \in 1 .. Len(s) |-> s[i].thread]
<1>2. f \in [1 .. Len(s) -> Threads] /\ \A i, j \in 1 .. Len(s) : f[i] = f[j] => i = j
  BY <1>1 DEF Apart
<1> HIDE DEF f
<1>3. f \in Injection(1 .. Len(s), Threads)
  BY <1>2 DEF Injection, IsInjective
<1>4. Cardinality(1 .. Len(s)) <= Cardinality(Threads)
  BY <1>3, FS_Injection, ThreadSyncAssumption
<1> QED BY <1>1, <1>4, FS_Interval

\* All the waiters of the word are woken.
LEMMA WakeFutexWake ==
  ASSUME LockInv, WakeInv, NEW t \in Threads, NEW a \in Addrs,
         FutexWake(t, a, Cardinality(Threads))
  PROVE  WakeInv'
<1> DEFINE n == Cardinality(Threads)
<1>1. /\ a \in storing[t] /\ futex' = [futex EXCEPT ![a] = LeftBy(a, n)]
      /\ storing' = [storing EXCEPT ![t] = {}] /\ UNCHANGED <<program, mem>>
  BY DEF FutexWake, Resume
<1>2. /\ futex \in [Addrs -> Seq(Entries)] /\ futex[a] \in Seq(Entries) /\ Apart(futex[a])
      /\ n \in Nat
  BY ThreadSyncAssumption, FS_CardinalityType DEF LockInv, SyscallInv
<1>3. Len(futex[a]) <= n /\ Len(futex[a]) \in Nat
  BY <1>2, AllWait
<1> HIDE DEF n
<1>4. UpTo(a, n) = Len(futex[a])
  BY <1>2, <1>3 DEF UpTo
<1>5. LeftBy(a, n) = <<>>
  BY <1>2, <1>3, <1>4 DEF LeftBy
<1>6. futex'[a] = <<>> /\ \A b \in Addrs \ {a} : futex'[b] = futex[b]
  <2> DEFINE empty == <<>>
  <2>1. futex' = [futex EXCEPT ![a] = empty]
    BY <1>1, <1>5
  <2> HIDE DEF empty
  <2>2. futex'[a] = empty /\ \A b \in Addrs \ {a} : futex'[b] = futex[b]
    BY <1>2, <2>1
  <2> QED BY <2>2 DEF empty
<1>7. ToSet(futex'[a]) = {}
  BY <1>6 DEF ToSet
<1>8. Addrs' = Addrs /\ Calls' = Calls
  BY <1>1 DEF Addrs, Calls
<1>9. /\ storing' \in [Threads -> SUBSET Addrs] /\ storing'[t] = {}
      /\ \A u \in Threads \ {t} : storing'[u] = storing[u]
      /\ \A b \in Addrs \ {a} : b \notin storing[t]
  BY <1>1 DEF WakeInv
<1>10. \A b \in Addrs \ {a} : (\E u \in Threads : b \in storing[u]) => \E u \in Threads : b \in storing'[u]
  BY <1>9
<1>11. NoLostWakeup'
  BY <1>1, <1>6, <1>7, <1>8, <1>10 DEF WakeInv, NoLostWakeup
<1> QED BY <1>1, <1>8, <1>9, <1>11 DEF WakeInv


LEMMA WakeCall ==
  ASSUME LockInv, WakeInv, NEW t \in Threads, Call(t)
  PROVE  WakeInv'
<1>1. ASSUME UNCHANGED <<program, mem, storing, futex>> PROVE WakeInv'
  BY <1>1, WakeStays
<1>2. ASSUME NEW new \in Threads, Create(t, new) \/ JoinThread(t, new) PROVE WakeInv'
  BY <1>1, <1>2 DEF Create, JoinThread, kernel
<1>3. CASE OnThreadExit(t)
  BY <1>1, <1>3 DEF OnThreadExit, kernel
<1>4. ASSUME \/ MutexLock(t) \/ MutexTryLock(t) \/ MutexUnlock(t) \/ CondWait(t)
             \/ CondSignal(t) \/ CondBroadcast(t) \/ BarrierWait(t)
      PROVE  WakeInv'
  BY <1>1, <1>4 DEF MutexLock, MutexTryLock, MutexUnlock, CondWait, CondSignal, CondBroadcast,
                    BarrierWait, kernel
<1>5. CASE Sleep(t)
  BY <1>1, <1>5 DEF Sleep
<1>6. ASSUME NEW a \in Addrs, NEW b \in Addrs, NEW val \in Values,
             FutexWakeOp(t, a, b, val)
      PROVE  WakeInv'
  <2>1. /\ "wakeop" \in Calls /\ UNCHANGED <<program, storing>> /\ mem' = [mem EXCEPT ![b] = val]
    BY <1>6 DEF FutexWakeOp, Caller, Resume
  <2>2. Addrs' = Addrs /\ "wakeop" \in Calls'
    BY <2>1 DEF Addrs, Calls
  <2>3. NoLostWakeup'
    BY <2>2 DEF NoLostWakeup
  <2>4. mem' \in [Addrs -> Values]
    BY <2>1 DEF WakeInv
  <2> QED BY <2>1, <2>2, <2>3, <2>4 DEF WakeInv
<1>7. ASSUME NEW a \in Addrs, NEW b \in Addrs, NEW val \in Values,
             FutexCmpRequeue(t, a, b, 1, val)
      PROVE  WakeInv'
  <2>1. /\ "requeue" \in Calls /\ UNCHANGED <<program, storing, mem>>
    BY <1>7 DEF FutexCmpRequeue, Caller
  <2>2. Addrs' = Addrs /\ "requeue" \in Calls'
    BY <2>1 DEF Addrs, Calls
  <2>3. NoLostWakeup'
    BY <2>2 DEF NoLostWakeup
  <2> QED BY <2>1, <2>2, <2>3 DEF WakeInv
<1> QED BY <1>2, <1>3, <1>4, <1>5, <1>6, <1>7, WakeFutexWait, WakeStore, WakeFutexWake DEF Call

LEMMA WakeNext ==
  ASSUME LockInv, WakeInv, [Next]_vars
  PROVE  WakeInv'
<1>1. ASSUME NEW t \in Threads, OnThreadStart(t) \/ EnterWait(t) \/ LeaveWait(t) PROVE WakeInv'
  BY <1>1, WakeStays DEF OnThreadStart, EnterWait, LeaveWait, kernel
<1>2. CASE Periodic
  <2>1. /\ UNCHANGED <<program, mem, storing>>
        /\ futex' = [a \in Addrs |-> NotExpired(futex[a], Tick)]
    BY <1>2 DEF Periodic, FutexPeriodic
  <2>2. \A a \in Addrs : futex[a] \in Seq(Entries) /\ Apart(futex[a])
    BY DEF LockInv, SyscallInv
  <2>3. \A a \in Addrs : ToSet(futex'[a]) \subseteq ToSet(futex[a])
    BY <2>1, <2>2, TakesDue DEF Gives
  <2> QED BY <2>1, <2>3, WakeStays
<1>3. CASE UNCHANGED vars
  BY <1>3, WakeStays DEF vars
<1> QED BY <1>1, <1>2, <1>3, WakeCall DEF Next

\* No wake-up is lost between the read of a futex word and the wait for it: who waits
\* saw the value the word has, or the thread that changed it has yet to wake the
\* waiters, and wakes them all (futexWait, futexWake).
THEOREM NoLostWakeupCorrect == Spec => []NoLostWakeup
<1>1. LockInv /\ WakeInv /\ [Next]_vars => WakeInv'
  BY WakeNext
<1>2. WakeInv => NoLostWakeup
  BY DEF WakeInv
<1> QED BY <1>1, <1>2, LockInit, LockNext, WakeInit, PTL DEF Spec


-----------------------------------------------------------------------------
(* Whoever is stalled waits in a queue, and in one only *)

StalledWaits == \A t \in Threads : status[t] = "stalled" => Waits(t)

\* A queue that no step touches.
LEMMA SameQueues ==
  /\ UNCHANGED <<mutex, cond, barrier>> => \A t \in Threads : InPthread(t)' <=> InPthread(t)
  /\ UNCHANGED <<program, sleeping, futex>> => \A t \in Threads : InSyscall(t)' <=> InSyscall(t)
  /\ UNCHANGED waiter => \A t \in Threads : InJoin(t)' <=> InJoin(t)
<1>1. ASSUME UNCHANGED <<program, sleeping, futex>>
      PROVE  \A t \in Threads : InSyscall(t)' <=> InSyscall(t)
  <2>1. Addrs' = Addrs
    BY <1>1 DEF Addrs
  <2> QED BY <1>1, <2>1 DEF InSyscall
<1> QED BY <1>1 DEF InPthread, InJoin

\* Who is taken out of a queue and not resumed enters another.
LEMMA KeptResume ==
  ASSUME LockInv, StalledWaits, NEW woken, NEW m, Resume(woken, m),
         \A t \in Threads : Waits(t) => Waits(t)' \/ t \in woken
  PROVE  StalledWaits'
<1>1. status \in [Threads -> States]
      /\ status' = [t \in Threads |-> IF t \in woken THEN "running" ELSE status[t]]
  BY DEF Resume, LockInv, ThreadTypes
<1>2. \A t \in Threads : status'[t] = "stalled" => status[t] = "stalled" /\ t \notin woken
  BY <1>1
<1> QED BY <1>2 DEF StalledWaits

\* Who stalls itself has entered one.
LEMMA KeptStall ==
  ASSUME LockInv, StalledWaits, NEW woken, NEW self \in Threads, NEW name,
         ResumeAndStall(woken, self, name), Waits(self)',
         \A t \in Threads \ {self} : Waits(t) => Waits(t)' \/ t \in woken
  PROVE  StalledWaits'
<1>1. status \in [Threads -> States]
      /\ status' = [t \in Threads |-> IF t = self THEN "stalled"
                                      ELSE IF t \in woken THEN "running" ELSE status[t]]
  BY DEF ResumeAndStall, LockInv, ThreadTypes
<1>2. \A t \in Threads \ {self} :
        status'[t] = "stalled" => status[t] = "stalled" /\ t \notin woken
  BY <1>1
<1> QED BY <1>2 DEF StalledWaits

\* Nobody leaves a queue.
LEMMA KeptStays ==
  ASSUME StalledWaits, \A t \in Threads : status'[t] = "stalled" => status[t] = "stalled",
         \A t \in Threads : Waits(t) => Waits(t)'
  PROVE  StalledWaits'
BY DEF StalledWaits

LEMMA KeptQueues ==
  ASSUME StalledWaits, \A t \in Threads : status'[t] = "stalled" => status[t] = "stalled",
         UNCHANGED <<program, mutex, cond, barrier, sleeping, futex, waiter>>
  PROVE  StalledWaits'
<1>1. \A t \in Threads : Waits(t) => Waits(t)'
  BY SameQueues DEF Waits
<1> QED BY <1>1, KeptStays

\* Calls to sync_server.
LEMMA KeptMutexLock ==
  ASSUME LockInv, StalledWaits, NEW t \in Threads, MutexLock(t) \/ MutexTryLock(t)
  PROVE  StalledWaits'
<1>1. UNCHANGED <<program, waiter, cond, barrier, sleeping, futex>>
  BY DEF MutexLock, MutexTryLock, kernel
<1>2. CASE mutex' = [mutex EXCEPT !.owner = t] /\ UNCHANGED threads
  <2>1. mutex'.waiting = mutex.waiting /\ status' = status
    BY <1>2 DEF LockInv, PthreadInv, threads
  <2>2. \A u \in Threads : Waits(u) => Waits(u)'
    BY <1>1, <2>1, SameQueues DEF Waits, InPthread
  <2> QED BY <2>1, <2>2, KeptStays
<1>3. CASE mutex' = [mutex EXCEPT !.waiting = Append(@, t)] /\ Stall(t, "lock")
  <2>1. mutex.waiting \in Seq(Threads) /\ mutex'.waiting = Append(mutex.waiting, t)
    BY <1>3 DEF LockInv, PthreadInv
  <2>2. ToSet(mutex'.waiting) = ToSet(mutex.waiting) \cup {t}
    BY <2>1, AppendSets
  <2>3. Waits(t)' /\ \A u \in Threads : Waits(u) => Waits(u)'
    BY <1>1, <2>2, SameQueues DEF Waits, InPthread
  <2>4. ResumeAndStall({}, t, "lock")
    BY <1>3 DEF Stall
  <2> QED BY <2>3, <2>4, KeptStall
<1>4. CASE UNCHANGED <<mutex, threads>>
  BY <1>1, <1>4, KeptQueues DEF threads
<1> QED BY <1>2, <1>3, <1>4 DEF MutexLock, MutexTryLock

LEMMA KeptHandsOver ==
  ASSUME LockInv, StalledWaits, NEW t \in Threads, MutexUnlock(t) \/ CondWait(t)
  PROVE  StalledWaits'
<1>1. mutex' = HandedOver /\ UNCHANGED <<program, waiter, barrier, sleeping, futex>>
  BY DEF MutexUnlock, CondWait, kernel, Resume
<1>2. \A u \in Threads : u \in ToSet(mutex'.waiting)
                         <=> u \in ToSet(mutex.waiting) /\ u \notin NextInLine
  BY <1>1, HandsOver
<1>3. CASE MutexUnlock(t)
  <2>1. cond' = cond /\ Resume(NextInLine, FALSE)
    BY <1>3 DEF MutexUnlock
  <2>2. \A u \in Threads : Waits(u) => Waits(u)' \/ u \in NextInLine
    BY <1>1, <1>2, <2>1, SameQueues DEF Waits, InPthread
  <2> QED BY <2>1, <2>2, KeptResume
<1>4. CASE CondWait(t)
  <2>1. cond \in Seq(Threads) /\ cond' = Append(cond, t) /\ ResumeAndStall(NextInLine, t, "cond")
    BY <1>4 DEF CondWait, LockInv, PthreadInv
  <2>2. ToSet(cond') = ToSet(cond) \cup {t}
    BY <2>1, AppendSets
  <2>3. Waits(t)' /\ \A u \in Threads : Waits(u) => Waits(u)' \/ u \in NextInLine
    BY <1>1, <1>2, <2>2, SameQueues DEF Waits, InPthread
  <2> QED BY <2>1, <2>3, KeptStall
<1> QED BY <1>3, <1>4

LEMMA KeptLockAsync ==
  ASSUME LockInv, StalledWaits, NEW woken \in Seq(Threads), woken # <<>>, LockAsync(woken),
         \A t \in Threads : t \in ToSet(cond) => t \in ToSet(cond') \/ t \in ToSet(woken),
         UNCHANGED <<program, waiter, barrier, sleeping, futex>>
  PROVE  StalledWaits'
<1>1. mutex.waiting \in Seq(Threads) /\ mutex \in [owner : Threads \cup {NoThread}, waiting : Seq(Threads)]
  BY DEF LockInv, PthreadInv
<1>2. CASE mutex.owner = NoThread
  <2>1. /\ mutex' = [owner |-> Head(woken), waiting |-> mutex.waiting \o Tail(woken)]
        /\ Resume({Head(woken)}, FALSE)
    BY <1>2 DEF LockAsync
  <2>2. Tail(woken) \in Seq(Threads) /\ ToSet(woken) = {Head(woken)} \union ToSet(Tail(woken))
    BY TailSets
  <2>3. ToSet(mutex'.waiting) = ToSet(mutex.waiting) \union ToSet(Tail(woken))
    <3> DEFINE q == mutex.waiting
               r == Tail(woken)
    <3>1. mutex'.waiting = q \o r /\ q \in Seq(Threads) /\ r \in Seq(Threads)
      BY <1>1, <2>1, <2>2
    <3> HIDE DEF q, r
    <3>2. ToSet(q \o r) = ToSet(q) \union ToSet(r)
      BY <3>1, ConcatSets
    <3> QED BY <3>1, <3>2 DEF q, r
  <2>4. \A u \in Threads : InPthread(u) => InPthread(u)' \/ u \in {Head(woken)}
    BY <2>2, <2>3 DEF InPthread
  <2>5. \A u \in Threads : Waits(u) => Waits(u)' \/ u \in {Head(woken)}
    BY <2>4, SameQueues DEF Waits
  <2> QED BY <2>1, <2>5, KeptResume
<1>3. CASE mutex.owner # NoThread
  <2>1. mutex'.waiting = mutex.waiting \o woken /\ status' = status
    BY <1>1, <1>3 DEF LockAsync, threads
  <2>2. ToSet(mutex'.waiting) = ToSet(mutex.waiting) \union ToSet(woken)
    BY <1>1, <2>1, ConcatSets
  <2>3. \A u \in Threads : InPthread(u) => InPthread(u)'
    BY <2>2 DEF InPthread
  <2>4. \A u \in Threads : Waits(u) => Waits(u)'
    BY <2>3, SameQueues DEF Waits
  <2> QED BY <2>1, <2>4, KeptStays
<1> QED BY <1>2, <1>3

LEMMA KeptCondSignal ==
  ASSUME LockInv, StalledWaits, NEW t \in Threads, CondSignal(t) \/ CondBroadcast(t)
  PROVE  StalledWaits'
<1>1. /\ cond \in Seq(Threads) /\ cond # <<>>
      /\ UNCHANGED <<program, waiter, barrier, sleeping, futex>>
  BY DEF LockInv, PthreadInv, CondSignal, CondBroadcast, kernel
<1>2. CASE CondSignal(t)
  <2> DEFINE woken == <<Head(cond)>>
  <2>1. LockAsync(woken) /\ cond' = Tail(cond)
    BY <1>2 DEF CondSignal
  <2>2. Head(cond) \in Threads /\ ToSet(cond) = {Head(cond)} \union ToSet(Tail(cond))
    BY <1>1, TailSets
  <2>3. woken \in Seq(Threads) /\ woken # <<>> /\ ToSet(woken) = {Head(cond)}
    BY <2>2 DEF ToSet
  <2> HIDE DEF woken
  <2> QED BY <1>1, <2>1, <2>2, <2>3, KeptLockAsync
<1>3. CASE CondBroadcast(t)
  BY <1>1, <1>3, KeptLockAsync DEF CondBroadcast
<1> QED BY <1>2, <1>3

LEMMA KeptBarrier ==
  ASSUME LockInv, StalledWaits, NEW t \in Threads, BarrierWait(t)
  PROVE  StalledWaits'
<1>1. UNCHANGED <<program, waiter, mutex, cond, sleeping, futex>> /\ barrier \in Seq(Threads)
  BY DEF BarrierWait, kernel, LockInv, PthreadInv
<1>2. CASE LastToArrive
  <2>1. Resume(ToSet(barrier), FALSE)
    BY <1>2 DEF BarrierWait
  <2>2. \A u \in Threads : Waits(u) => Waits(u)' \/ u \in ToSet(barrier)
    BY <1>1, SameQueues DEF Waits, InPthread
  <2> QED BY <2>1, <2>2, KeptResume
<1>3. CASE ~ LastToArrive
  <2>1. ResumeAndStall({}, t, "barrier") /\ barrier' = Append(barrier, t)
    BY <1>3 DEF BarrierWait, Stall
  <2>2. ToSet(barrier') = ToSet(barrier) \cup {t}
    BY <1>1, <2>1, AppendSets
  <2>3. Waits(t)' /\ \A u \in Threads : Waits(u) => Waits(u)'
    BY <1>1, <2>2, SameQueues DEF Waits, InPthread
  <2> QED BY <2>1, <2>3, KeptStall
<1> QED BY <1>2, <1>3


\* Calls to syscall_server.
LEMMA KeptSleep ==
  ASSUME LockInv, StalledWaits, NEW t \in Threads, Sleep(t)
  PROVE  StalledWaits'
<1>1. /\ UNCHANGED <<program, waiter, mutex, cond, barrier, futex>>
      /\ ResumeAndStall({}, t, "sleep")
  BY DEF Sleep, pthread, Stall
<1>2. PICK e \in Entries : e.thread = t /\ sleeping' = Append(sleeping, e)
  BY NewEntry, ThreadSyncAssumption DEF Sleep
<1>3. ThreadsIn(sleeping') = ThreadsIn(sleeping) \cup {t}
  <2>1. sleeping \in Seq(Entries) /\ Apart(sleeping)
    BY DEF LockInv, SyscallInv
  <2>2. t \notin ThreadsIn(sleeping)
    <3>1. call[t] = "none"
      BY DEF Sleep, Caller
    <3> QED BY <3>1, CallerFree DEF Waits, InSyscall
  <2> QED BY <1>2, <2>1, <2>2, Enters
<1>4. Addrs' = Addrs
  BY <1>1 DEF Addrs
<1>5. Waits(t)' /\ \A u \in Threads : Waits(u) => Waits(u)'
  BY <1>1, <1>3, <1>4, SameQueues DEF Waits, InSyscall
<1> QED BY <1>1, <1>5, KeptStall

LEMMA KeptFutexWait ==
  ASSUME LockInv, StalledWaits, NEW t \in Threads, NEW a \in Addrs, NEW val \in Values,
         FutexWait(t, a, val)
  PROVE  StalledWaits'
<1>1. UNCHANGED <<program, waiter, mutex, cond, barrier, sleeping>> /\ call[t] = "none"
  BY DEF FutexWait, pthread, Caller
<1>2. CASE WouldBlock(a, val)
  BY <1>1, <1>2, KeptQueues DEF FutexWait, threads
<1>3. CASE ~ WouldBlock(a, val)
  <2>1. PICK e \in Entries :
          e.thread = t /\ futex' = [futex EXCEPT ![a] = Append(futex[a], e)]
    BY <1>3, NewEntry DEF FutexWait
  <2>2. futex \in [Addrs -> Seq(Entries)] /\ futex[a] \in Seq(Entries) /\ Apart(futex[a])
    BY DEF LockInv, SyscallInv
  <2>3. t \notin ThreadsIn(futex[a])
    BY <1>1, CallerFree DEF Waits, InSyscall
  <2>4. ThreadsIn(Append(futex[a], e)) = ThreadsIn(futex[a]) \cup {t}
    BY <2>1, <2>2, <2>3, Enters
  <2>5. /\ ThreadsIn(futex'[a]) = ThreadsIn(futex[a]) \cup {t}
        /\ \A b \in Addrs \ {a} : futex'[b] = futex[b]
    BY <2>1, <2>2, <2>4
  <2>6. Addrs' = Addrs
    BY <1>1 DEF Addrs
  <2>7. InSyscall(t)' /\ \A u \in Threads : InSyscall(u) => InSyscall(u)'
    BY <1>1, <2>5, <2>6 DEF InSyscall
  <2>8. Waits(t)' /\ \A u \in Threads : Waits(u) => Waits(u)'
    BY <1>1, <2>7, SameQueues DEF Waits
  <2>9. ResumeAndStall({}, t, "futex")
    BY <1>3 DEF FutexWait, Stall
  <2> QED BY <2>8, <2>9, KeptStall
<1> QED BY <1>2, <1>3

\* Sleepers and waiters are taken out of the queues, and nobody but those resumed.
LEMMA KeptWakes ==
  ASSUME LockInv, StalledWaits, NEW woken, NEW m, Resume(woken, m),
         UNCHANGED <<waiter, pthread>>,
         NEW slept, Gives(sleeping, sleeping', slept), slept \subseteq woken,
         NEW waited, \A a \in Addrs : Gives(futex[a], futex'[a], waited[a]),
         \A a \in Addrs : waited[a] \subseteq woken
  PROVE  StalledWaits'
<1>1. UNCHANGED <<program, waiter, mutex, cond, barrier>>
  BY DEF Resume, pthread
<1>2. Addrs' = Addrs
  BY <1>1 DEF Addrs
<1>3. /\ ThreadsIn(sleeping) \subseteq ThreadsIn(sleeping') \cup slept
      /\ \A a \in Addrs : ThreadsIn(futex[a]) \subseteq ThreadsIn(futex'[a]) \cup waited[a]
  BY DEF Gives
<1>4. \A u \in Threads : InSyscall(u) => InSyscall(u)' \/ u \in woken
  BY <1>2, <1>3 DEF InSyscall
<1>5. \A u \in Threads : Waits(u) => Waits(u)' \/ u \in woken
  BY <1>1, <1>4, SameQueues DEF Waits
<1> QED BY <1>5, KeptResume

LEMMA KeptFutexWake ==
  ASSUME LockInv, StalledWaits, NEW t \in Threads, NEW a \in Addrs, NEW n \in Nat,
         FutexWake(t, a, n)
  PROVE  StalledWaits'
<1> DEFINE woken == ThreadsOf(WokenBy(a, n))
           waited == [b \in Addrs |-> IF b = a THEN woken ELSE {}]
           slept == {}
<1>1. /\ futex' = [futex EXCEPT ![a] = LeftBy(a, n)] /\ sleeping' = sleeping
      /\ Resume(woken, TRUE) /\ UNCHANGED <<waiter, pthread>>
  BY DEF FutexWake
<1>2. Gives(futex[a], LeftBy(a, n), woken) /\ futex \in [Addrs -> Seq(Entries)]
  BY FutexTakes DEF LockInv, SyscallInv
<1> HIDE DEF woken
<1>3. Gives(sleeping, sleeping', slept) /\ slept \subseteq woken
  BY <1>1, NobodyLeaves
<1>4. \A b \in Addrs : Gives(futex[b], futex'[b], waited[b])
  <2> TAKE b \in Addrs
  <2>1. CASE b = a
    BY <1>1, <1>2, <2>1
  <2>2. CASE b # a
    <3>1. futex'[b] = futex[b] /\ waited[b] = {}
      BY <1>1, <1>2, <2>2
    <3> QED BY <3>1, NobodyLeaves
  <2> QED BY <2>1, <2>2
<1>5. \A b \in Addrs : waited[b] \subseteq woken
  OBVIOUS
<1> HIDE DEF waited, slept
<1> QED BY <1>1, <1>3, <1>4, <1>5, KeptWakes

LEMMA KeptFutexWakeOp ==
  ASSUME LockInv, StalledWaits, NEW t \in Threads, NEW a \in Addrs, NEW b \in Addrs,
         NEW val \in Values, FutexWakeOp(t, a, b, val)
  PROVE  StalledWaits'
<1> DEFINE n == IF mem[b] = 0 THEN 1 ELSE 0
           wa == ThreadsOf(WokenBy(a, 1))
           wb == ThreadsOf(WokenBy(b, n))
           waited == [c \in Addrs |-> IF c = a THEN wa ELSE IF c = b THEN wb ELSE {}]
           woken == wa \cup wb
           slept == {}
<1>1. /\ futex' = [futex EXCEPT ![a] = LeftBy(a, 1), ![b] = LeftBy(b, n)]
      /\ sleeping' = sleeping /\ a # b
      /\ Resume(ThreadsOf(WokenBy(a, 1) \cup WokenBy(b, n)), TRUE) /\ UNCHANGED <<waiter, pthread>>
  BY DEF FutexWakeOp
<1>2. n \in Nat /\ 1 \in Nat
  OBVIOUS
<1> HIDE DEF n
<1>3. /\ Gives(futex[a], LeftBy(a, 1), wa) /\ Gives(futex[b], LeftBy(b, n), wb)
      /\ futex \in [Addrs -> Seq(Entries)]
  BY <1>2, FutexTakes DEF LockInv, SyscallInv
<1>4. ThreadsOf(WokenBy(a, 1) \cup WokenBy(b, n)) = wa \cup wb
  BY DEF ThreadsOf
<1> HIDE DEF wa, wb
<1>5. \A c \in Addrs : Gives(futex[c], futex'[c], waited[c])
  <2> TAKE c \in Addrs
  <2>1. CASE c = a
    BY <1>1, <1>3, <2>1
  <2>2. CASE c = b
    BY <1>1, <1>3, <2>2
  <2>3. CASE c # a /\ c # b
    <3>1. futex'[c] = futex[c] /\ waited[c] = {}
      BY <1>1, <1>3, <2>3
    <3> QED BY <3>1, NobodyLeaves
  <2> QED BY <2>1, <2>2, <2>3
<1>6. \A c \in Addrs : waited[c] \subseteq woken
  OBVIOUS
<1>7. Gives(sleeping, sleeping', slept) /\ slept \subseteq woken
  BY <1>1, NobodyLeaves
<1>8. Resume(woken, TRUE) /\ UNCHANGED <<waiter, pthread>>
  BY <1>1, <1>4
<1> HIDE DEF waited, woken, slept
<1> QED BY <1>5, <1>6, <1>7, <1>8, KeptWakes

LEMMA KeptPeriodic ==
  ASSUME LockInv, StalledWaits, Periodic
  PROVE  StalledWaits'
<1> DEFINE gone == Expired(sleeping, Tick) \cup UNION {Expired(futex[a], Tick) : a \in Addrs}
           slept == ThreadsOf(Expired(sleeping, Tick))
           waited == [a \in Addrs |-> ThreadsOf(Expired(futex[a], Tick))]
           woken == ThreadsOf(gone)
<1>1. /\ sleeping' = NotExpired(sleeping, Tick)
      /\ futex' = [a \in Addrs |-> NotExpired(futex[a], Tick)]
      /\ Resume(woken, FALSE) /\ UNCHANGED <<waiter, pthread>>
  BY DEF Periodic, FutexPeriodic
<1>2. sleeping \in Seq(Entries) /\ Apart(sleeping)
      /\ \A a \in Addrs : futex[a] \in Seq(Entries) /\ Apart(futex[a])
  BY DEF LockInv, SyscallInv
<1>3. Gives(sleeping, sleeping', slept) /\ \A a \in Addrs : Gives(futex[a], futex'[a], waited[a])
  BY <1>1, <1>2, TakesDue
<1>4. slept \subseteq woken /\ \A a \in Addrs : waited[a] \subseteq woken
  <2>1. Expired(sleeping, Tick) \subseteq gone /\ \A a \in Addrs : Expired(futex[a], Tick) \subseteq gone
    OBVIOUS
  <2> HIDE DEF gone
  <2> QED BY <2>1 DEF ThreadsOf
<1> HIDE DEF gone, slept, waited, woken
<1> QED BY <1>1, <1>3, <1>4, KeptWakes

\* Those moved to another word wait there.
LEMMA KeptRequeue ==
  ASSUME LockInv, StalledWaits, NEW t \in Threads, NEW a \in Addrs, NEW b \in Addrs,
         NEW val \in Values, FutexCmpRequeue(t, a, b, 1, val)
  PROVE  StalledWaits'
<1> DEFINE woken == ThreadsOf(WokenBy(a, 1))
           rest == LeftBy(a, 1)
<1>1. /\ UNCHANGED <<program, waiter, mutex, cond, barrier, sleeping>> /\ a # b
  BY DEF FutexCmpRequeue, pthread, Resume
<1>2. CASE mem[a] # val
  BY <1>1, <1>2, KeptQueues DEF FutexCmpRequeue, threads
<1>3. CASE mem[a] = val
  <2>1. /\ futex' = [futex EXCEPT ![a] = <<>>, ![b] = futex[b] \o rest] /\ Resume(woken, TRUE)
    BY <1>3 DEF FutexCmpRequeue
  <2>2. rest \in Seq(Entries) /\ Gives(futex[a], rest, woken) /\ 1 \in Nat
    BY FutexTakes
  <2> HIDE DEF woken, rest
  <2>3. /\ futex \in [Addrs -> Seq(Entries)] /\ Apart(futex[b]) /\ Apart(rest)
        /\ ThreadsIn(rest) \subseteq ThreadsIn(futex[a]) /\ ThreadsIn(futex[a]) \subseteq Threads
        /\ ThreadsIn(futex[a]) \subseteq ThreadsIn(rest) \cup woken
    BY <2>2, ThreadsTyped DEF LockInv, SyscallInv, Gives
  <2>4. ThreadsIn(futex[b]) \cap ThreadsIn(rest) = {}
    <3>1. \A u \in Threads : u \in ThreadsIn(futex[a]) => u \notin ThreadsIn(futex[b])
      BY <1>1 DEF LockInv, SyscallInv
    <3> QED BY <2>3, <3>1
  <2>5. ThreadsIn(futex[b] \o rest) = ThreadsIn(futex[b]) \cup ThreadsIn(rest)
    BY <2>2, <2>3, <2>4, Moves
  <2>6. futex'[b] = futex[b] \o rest /\ \A c \in Addrs \ {a, b} : futex'[c] = futex[c]
    <3> DEFINE q == futex[b] \o rest
               empty == <<>>
    <3>1. futex' = [futex EXCEPT ![a] = empty, ![b] = q]
      BY <2>1
    <3> HIDE DEF q, empty
    <3>2. futex'[b] = q /\ \A c \in Addrs \ {a, b} : futex'[c] = futex[c]
      BY <1>1, <2>3, <3>1
    <3> QED BY <3>2 DEF q
  <2>7. Addrs' = Addrs
    BY <1>1 DEF Addrs
  <2>8. \A c \in Addrs, u \in Threads : u \in ThreadsIn(futex[c]) =>
          u \in woken \/ \E d \in Addrs : u \in ThreadsIn(futex'[d])
    <3> TAKE c \in Addrs, u \in Threads
    <3>1. CASE c = a
      BY <2>3, <2>5, <2>6, <3>1
    <3>2. CASE c = b
      BY <2>5, <2>6, <3>2
    <3>3. CASE c # a /\ c # b
      BY <2>6, <3>3
    <3> QED BY <3>1, <3>2, <3>3
  <2>9. \A u \in Threads : InSyscall(u) => InSyscall(u)' \/ u \in woken
    BY <1>1, <2>7, <2>8 DEF InSyscall
  <2>10. \A u \in Threads : Waits(u) => Waits(u)' \/ u \in woken
    BY <1>1, <2>9, SameQueues DEF Waits
  <2> QED BY <2>1, <2>10, KeptResume
<1> QED BY <1>2, <1>3


\* The thread manager.
LEMMA KeptJoin ==
  ASSUME LockInv, StalledWaits, NEW t \in Threads, NEW target \in Threads, JoinThread(t, target)
  PROVE  StalledWaits'
<1>1. /\ waiter[target] = NoThread
      /\ UNCHANGED <<program, mutex, cond, barrier, sleeping, futex>>
  BY DEF JoinThread, pthread, kernel
<1>2. CASE status[target] = "idle"
  BY <1>1, <1>2, KeptQueues DEF JoinThread, threads
<1>3. CASE status[target] # "idle"
  <2>1. waiter' = [waiter EXCEPT ![target] = t] /\ ResumeAndStall({}, t, "join")
    BY <1>3 DEF JoinThread, Stall
  <2>2. waiter'[target] = t /\ \A u \in Threads \ {target} : waiter'[u] = waiter[u]
    BY <2>1 DEF LockInv, JoinInv
  <2>3. InJoin(t)' /\ \A u \in Threads : InJoin(u) => InJoin(u)'
    BY <1>1, <2>2, ThreadSyncAssumption DEF InJoin
  <2>4. Waits(t)' /\ \A u \in Threads : Waits(u) => Waits(u)'
    BY <1>1, <2>3, SameQueues DEF Waits
  <2> QED BY <2>1, <2>4, KeptStall
<1> QED BY <1>2, <1>3

LEMMA KeptExit ==
  ASSUME LockInv, StalledWaits, NEW t \in Threads, OnThreadExit(t)
  PROVE  StalledWaits'
<1>1. /\ waiter' = [waiter EXCEPT ![t] = NoThread]
      /\ status' = [u \in Threads |-> IF u = t THEN "idle"
                       ELSE IF u \in {waiter[t]} \ {NoThread} THEN "running" ELSE status[u]]
      /\ UNCHANGED <<program, mutex, cond, barrier, sleeping, futex>>
  BY DEF OnThreadExit, pthread, kernel
<1>2. /\ \A u \in Threads \ {t} : waiter'[u] = waiter[u]
      /\ \A u \in Threads : status'[u] = "stalled" =>
           status[u] = "stalled" /\ u # waiter[t]
  BY <1>1, ThreadSyncAssumption DEF LockInv, JoinInv, ThreadTypes
<1>3. \A u \in Threads : InJoin(u) => InJoin(u)' \/ u = waiter[t]
  BY <1>2 DEF InJoin
<1>4. \A u \in Threads : Waits(u) => Waits(u)' \/ u = waiter[t]
  BY <1>1, <1>3, SameQueues DEF Waits
<1> QED BY <1>2, <1>4 DEF StalledWaits

\* Nobody joins a thread that starts.
LEMMA KeptStart ==
  ASSUME LockInv, RunInv, StalledWaits, NEW t \in Threads, OnThreadStart(t)
  PROVE  StalledWaits'
<1>1. /\ status[t] = "initializing" /\ status' = [status EXCEPT ![t] = "running"]
      /\ waiter' = [waiter EXCEPT ![t] = NoThread]
      /\ UNCHANGED <<program, mutex, cond, barrier, sleeping, futex>>
  BY DEF OnThreadStart, pthread, kernel
<1>2. waiter[t] = NoThread
  BY <1>1 DEF RunInv
<1>3. waiter' = waiter /\ \A u \in Threads : status'[u] = "stalled" => status[u] = "stalled"
  BY <1>1, <1>2 DEF LockInv, JoinInv, ThreadTypes
<1> QED BY <1>1, <1>3, KeptQueues

LEMMA KeptNext ==
  ASSUME LockInv, RunInv, StalledWaits, [Next]_vars
  PROVE  StalledWaits'
<1>1. ASSUME NEW t \in Threads, NEW new \in Threads, Create(t, new) PROVE StalledWaits'
  <2>1. /\ status' = [status EXCEPT ![new] = "initializing"]
        /\ UNCHANGED <<program, mutex, cond, barrier, sleeping, futex, waiter>>
    BY <1>1 DEF Create, pthread, kernel
  <2>2. \A u \in Threads : status'[u] = "stalled" => status[u] = "stalled"
    BY <2>1 DEF LockInv, ThreadTypes
  <2> QED BY <2>1, <2>2, KeptQueues
<1>2. ASSUME NEW t \in Threads, NEW a \in Addrs, NEW val \in Values, Store(t, a, val)
      PROVE  StalledWaits'
  BY <1>2, KeptQueues DEF Store, pthread, threads
<1>3. ASSUME NEW t \in Threads, NEW a \in Addrs, FutexWake(t, a, Cardinality(Threads))
      PROVE  StalledWaits'
  BY <1>3, KeptFutexWake, ThreadSyncAssumption, FS_CardinalityType
<1>4. ASSUME NEW t \in Threads, EnterWait(t) \/ LeaveWait(t) PROVE StalledWaits'
  BY <1>4, KeptQueues DEF EnterWait, LeaveWait, kernel
<1>5. CASE UNCHANGED vars
  BY <1>5, KeptQueues DEF vars
<1>6. ASSUME NEW t \in Threads, Call(t) PROVE StalledWaits'
  BY <1>1, <1>2, <1>3, <1>6, KeptJoin, KeptExit, KeptMutexLock, KeptHandsOver, KeptCondSignal,
     KeptBarrier, KeptSleep, KeptFutexWait, KeptFutexWakeOp, KeptRequeue DEF Call
<1> QED BY <1>4, <1>5, <1>6, KeptStart, KeptPeriodic DEF Next

\* A thread is in the barrier once, however many it counts.
BarrierOnce == IsInjective(barrier)

LEMMA OnceNext ==
  ASSUME LockInv, BarrierOnce, [Next]_vars
  PROVE  BarrierOnce'
<1>1. ASSUME NEW t \in Threads, BarrierWait(t) PROVE BarrierOnce'
  <2>1. barrier \in Seq(Threads) /\ t \notin ToSet(barrier)
    BY <1>1 DEF LockInv, PthreadInv, BarrierWait, Caller
  <2>2. CASE barrier' = <<>>
    BY <2>2 DEF BarrierOnce, IsInjective
  <2>3. CASE barrier' = Append(barrier, t)
    BY <2>1, <2>3, AppendSets DEF BarrierOnce
  <2> QED BY <1>1, <2>2, <2>3 DEF BarrierWait
<1>2. ASSUME UNCHANGED barrier PROVE BarrierOnce'
  BY <1>2 DEF BarrierOnce
<1>3. ASSUME NEW t \in Threads, Call(t) PROVE BarrierOnce'
  BY <1>1, <1>2, <1>3 DEF Call, Create, JoinThread, OnThreadExit, MutexLock, MutexTryLock,
       MutexUnlock, CondWait, CondSignal, CondBroadcast, Sleep, FutexWait, Store, FutexWake,
       FutexWakeOp, FutexCmpRequeue, pthread
<1> QED BY <1>2, <1>3 DEF Next, OnThreadStart, EnterWait, LeaveWait, Periodic, pthread, vars

\* How often a thread is in a queue in which it is at most once.
LEMMA CountOne ==
  ASSUME NEW S, \A x, y \in S : x = y
  PROVE  Cardinality(S) = IF S = {} THEN 0 ELSE 1
<1>1. CASE S = {}
  BY <1>1, FS_EmptySet
<1>2. CASE S # {}
  <2>1. PICK x : S = {x}
    BY <1>2
  <2> QED BY <1>2, <2>1, FS_Singleton
<1> QED BY <1>1, <1>2

LEMMA CountQueued ==
  ASSUME NEW s \in Seq(Threads), IsInjective(s), NEW t \in Threads
  PROVE  Cardinality({i \in DOMAIN s : s[i] = t}) = IF t \in ToSet(s) THEN 1 ELSE 0
<1> DEFINE S == {i \in DOMAIN s : s[i] = t}
<1>1. \A x, y \in S : x = y
  BY DEF IsInjective
<1>2. S = {} <=> t \notin ToSet(s)
  BY DEF ToSet
<1> HIDE DEF S
<1>3. Cardinality(S) = IF t \in ToSet(s) THEN 1 ELSE 0
  BY <1>1, <1>2, CountOne
<1> QED BY <1>3 DEF S

LEMMA CountTimed ==
  ASSUME NEW s \in Seq(Entries), Apart(s), NEW t \in Threads
  PROVE  Cardinality({i \in DOMAIN s : s[i].thread = t}) = IF t \in ThreadsIn(s) THEN 1 ELSE 0
<1> DEFINE S == {i \in DOMAIN s : s[i].thread = t}
<1>1. \A x, y \in S : x = y
  BY DEF Apart
<1>2. S = {} <=> t \notin ThreadsIn(s)
  BY DEF ThreadsIn
<1> HIDE DEF S
<1>3. Cardinality(S) = IF t \in ThreadsIn(s) THEN 1 ELSE 0
  BY <1>1, <1>2, CountOne
<1> QED BY <1>3 DEF S

LEMMA CountFutex ==
  ASSUME LockInv, NEW t \in Threads
  PROVE  Cardinality(UNION {{a} \X {i \in DOMAIN futex[a] : futex[a][i].thread = t} : a \in Addrs})
           = IF \E a \in Addrs : t \in ThreadsIn(futex[a]) THEN 1 ELSE 0
<1> DEFINE S == UNION {{a} \X {i \in DOMAIN futex[a] : futex[a][i].thread = t} : a \in Addrs}
<1>1. ASSUME NEW x \in S, NEW y \in S PROVE x = y
  <2>1. PICK a \in Addrs : x \in {a} \X {i \in DOMAIN futex[a] : futex[a][i].thread = t}
    OBVIOUS
  <2>2. PICK b \in Addrs : y \in {b} \X {i \in DOMAIN futex[b] : futex[b][i].thread = t}
    OBVIOUS
  <2>3. PICK i \in DOMAIN futex[a] : x = <<a, i>> /\ futex[a][i].thread = t
    BY <2>1
  <2>4. PICK j \in DOMAIN futex[b] : y = <<b, j>> /\ futex[b][j].thread = t
    BY <2>2
  <2>5. a = b
    BY <2>3, <2>4 DEF LockInv, SyscallInv, ThreadsIn
  <2>6. i = j
    BY <2>3, <2>4, <2>5 DEF LockInv, SyscallInv, Apart
  <2> QED BY <2>3, <2>4, <2>5, <2>6
<1>2. S = {} <=> ~ \E a \in Addrs : t \in ThreadsIn(futex[a])
  <2>1. ASSUME NEW x \in S PROVE \E a \in Addrs : t \in ThreadsIn(futex[a])
    <3>1. PICK a \in Addrs : x \in {a} \X {i \in DOMAIN futex[a] : futex[a][i].thread = t}
      OBVIOUS
    <3>2. PICK i \in DOMAIN futex[a] : futex[a][i].thread = t
      BY <3>1
    <3> QED BY <3>2 DEF ThreadsIn
  <2>2. ASSUME NEW a \in Addrs, t \in ThreadsIn(futex[a]) PROVE S # {}
    <3>1. PICK i \in DOMAIN futex[a] : futex[a][i].thread = t
      BY <2>2 DEF ThreadsIn
    <3>2. <<a, i>> \in {a} \X {j \in DOMAIN futex[a] : futex[a][j].thread = t}
      BY <3>1
    <3> QED BY <3>2
  <2> QED BY <2>1, <2>2
<1> HIDE DEF S
<1>3. Cardinality(S) = IF \E a \in Addrs : t \in ThreadsIn(futex[a]) THEN 1 ELSE 0
  BY <1>1, <1>2, CountOne
<1> QED BY <1>3 DEF S

LEMMA CountJoined ==
  ASSUME LockInv, NEW t \in Threads
  PROVE  Cardinality({u \in Threads : waiter[u] = t}) = IF InJoin(t) THEN 1 ELSE 0
<1> DEFINE S == {u \in Threads : waiter[u] = t}
<1>1. \A x, y \in S : x = y
  BY ThreadSyncAssumption DEF LockInv, JoinInv
<1>2. S = {} <=> ~ InJoin(t)
  BY DEF InJoin
<1> HIDE DEF S
<1>3. Cardinality(S) = IF InJoin(t) THEN 1 ELSE 0
  BY <1>1, <1>2, CountOne
<1> QED BY <1>3 DEF S

\* A stalled thread is in exactly one queue of the whole simulator and any other in none,
\* in every program that joins no thread before it has started: what resumes a thread
\* takes it out of the queue it was in, and what does not leaves it in one.
THEOREM QueuedIffStalledCorrect ==
  ASSUME NoEarlyJoins
  PROVE  Spec => []QueuedIffStalled
<1>1. LockInv /\ BarrierOnce /\ StalledWaits => QueuedIffStalled
  <2> SUFFICES ASSUME LockInv, BarrierOnce, StalledWaits, NEW t \in Threads
               PROVE  Places(t) = (IF status[t] = "stalled" THEN 1 ELSE 0)
    BY DEF QueuedIffStalled
  <2> DEFINE one(P) == IF P THEN 1 ELSE 0
             timedOn == \E a \in Addrs : t \in ThreadsIn(futex[a])
  <2>1. /\ mutex.waiting \in Seq(Threads) /\ IsInjective(mutex.waiting)
        /\ cond \in Seq(Threads) /\ IsInjective(cond)
        /\ barrier \in Seq(Threads) /\ IsInjective(barrier)
        /\ sleeping \in Seq(Entries) /\ Apart(sleeping)
    BY DEF LockInv, PthreadInv, SyscallInv, BarrierOnce
  <2>2. /\ Cardinality({i \in DOMAIN mutex.waiting : mutex.waiting[i] = t})
             = one(t \in ToSet(mutex.waiting))
        /\ Cardinality({i \in DOMAIN cond : cond[i] = t}) = one(t \in ToSet(cond))
        /\ Cardinality({i \in DOMAIN barrier : barrier[i] = t}) = one(t \in ToSet(barrier))
    BY <2>1, CountQueued
  <2>3. Cardinality({i \in DOMAIN sleeping : sleeping[i].thread = t})
          = one(t \in ThreadsIn(sleeping))
    BY <2>1, CountTimed
  <2>4. Places(t) = one(t \in ToSet(mutex.waiting)) + one(t \in ToSet(cond))
                    + one(t \in ToSet(barrier)) + one(t \in ThreadsIn(sleeping))
                    + one(timedOn) + one(InJoin(t))
    BY <2>2, <2>3, CountFutex, CountJoined DEF Places, Queued
  <2>5. status[t] = "stalled" <=> Waits(t)
    BY DEF LockInv, StalledInv, StalledWaits
  <2>6. Waits(t) <=> \/ t \in ToSet(mutex.waiting) \/ t \in ToSet(cond) \/ t \in ToSet(barrier)
                     \/ t \in ThreadsIn(sleeping) \/ timedOn \/ InJoin(t)
    BY DEF Waits, InPthread, InSyscall
  <2>7. /\ t \in ToSet(mutex.waiting) => t \notin ToSet(cond) /\ t \notin ToSet(barrier)
        /\ t \in ToSet(cond) => t \notin ToSet(barrier)
        /\ t \in ToSet(mutex.waiting) \/ t \in ToSet(cond) \/ t \in ToSet(barrier) =>
             t \notin ThreadsIn(sleeping) /\ ~ timedOn /\ ~ InJoin(t)
        /\ timedOn => t \notin ThreadsIn(sleeping)
        /\ timedOn \/ t \in ThreadsIn(sleeping) => ~ InJoin(t)
    BY InOneQueue DEF InPthread, InSyscall
  <2> HIDE DEF timedOn
  <2> QED BY <2>4, <2>5, <2>6, <2>7
<1>2. Init => StalledWaits /\ BarrierOnce
  BY DEF Init, StalledWaits, BarrierOnce, IsInjective
<1>3. LockInv /\ RunInv /\ StalledWaits /\ [Next]_vars => StalledWaits'
  BY KeptNext
<1>4. LockInv /\ BarrierOnce /\ [Next]_vars => BarrierOnce'
  BY OnceNext
<1>5. RunInv /\ [Next]_vars => RunInv'
  BY RunNext
<1> QED BY <1>1, <1>2, <1>3, <1>4, <1>5, LockInit, LockNext, RunInit, PTL DEF Spec

=============================================================================
