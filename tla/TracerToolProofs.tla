--------------------------- MODULE TracerToolProofs ---------------------------
(***************************************************************************)
(* Proofs about TracerTool, for every environment, set of kernels, warps and  *)
(* instructions and every bound: a record is written at most once, the file   *)
(* of a kernel that was closed is exactly what the kernel pushed, and every   *)
(* kernel of the ranges is listed.                                          *)
(***************************************************************************)
EXTENDS TracerTool, Integers, FiniteSetTheorems, TLAPS

-----------------------------------------------------------------------------
(* Queues *)

\* What is taken from the front of a queue and what is left of it.
LEMMA Split ==
  ASSUME NEW S, NEW s \in Seq(S), NEW n \in Nat, n <= Len(s)
  PROVE  /\ SubSeq(s, 1, n) \in Seq(S) /\ Len(SubSeq(s, 1, n)) = n
         /\ \A i \in 1 .. n : SubSeq(s, 1, n)[i] = s[i]
         /\ SubSeq(s, n + 1, Len(s)) \in Seq(S)
         /\ Len(SubSeq(s, n + 1, Len(s))) = Len(s) - n
         /\ \A i \in 1 .. Len(s) - n : SubSeq(s, n + 1, Len(s))[i] = s[n + i]
  OBVIOUS

\* The set of what a sequence holds is finite, and not larger than it is long.
LEMMA SetOfSequence ==
  ASSUME NEW S, NEW s \in Seq(S)
  PROVE  IsFiniteSet(ToSet(s)) /\ Cardinality(ToSet(s)) <= Len(s) /\ ToSet(s) \subseteq S
<1>1. ToSet(s) = {s[i] : i \in 1 .. Len(s)} /\ ToSet(s) \subseteq S
  BY DEF ToSet
<1>2. IsFiniteSet(1 .. Len(s)) /\ Cardinality(1 .. Len(s)) = Len(s)
  <2>1. Len(s) \in Nat /\ Len(s) \in Int /\ 1 \in Int
    OBVIOUS
  <2>2. /\ IsFiniteSet(1 .. Len(s))
        /\ Cardinality(1 .. Len(s)) = IF 1 > Len(s) THEN 0 ELSE Len(s) - 1 + 1
    BY <2>1, FS_Interval
  <2> QED BY <2>1, <2>2
<1>3. s \in Surjection(1 .. Len(s), ToSet(s))
  BY <1>1 DEF Surjection
<1> QED BY <1>1, <1>2, <1>3, FS_Surjection

-----------------------------------------------------------------------------
(* Types *)

Item == Record \union {Flush}

AppTypes ==
  /\ env \in Environments
  /\ at \in {"host", "launched", "graph", "waiting", "joining", "exited"}
  /\ kernelid \in Nat /\ kernelid >= 1 /\ kernelid <= MaxKernels + 1
  /\ names \in Seq(Names) /\ Len(names) = kernelid - 1
  /\ current \in Names /\ closed \subseteq Nat
  /\ resultsFile \in {0} \union KernelIds /\ (open => resultsFile \in KernelIds)
  /\ listed \in Seq(Nat)

QueueTypes ==
  /\ channel \in Seq(Item) /\ buffer \in Seq(Item)
  /\ files \in [KernelIds -> Seq(Record)]
  /\ pushed \in [KernelIds -> Seq(Record)]

Types == AppTypes /\ QueueTypes

LEMMA EnvTypes ==
  ASSUME env \in Environments
  PROVE  /\ NumKernels \in Nat /\ MaxKernels \in 0 .. NumKernels /\ Keep \in Nat
         /\ \A name \in Names : SpinInstrs[name] \subseteq Instrs
BY TracerAssumption DEF MaxKernels

LEMMA FlushIsNoRecord == Flush \notin Record /\ Record \subseteq Item /\ Flush \in Item
<1>1. NumKernels \in Nat
  BY TracerAssumption
<1>2. Flush.k = 0
  BY DEF Flush
<1>3. \A r \in Record : r.k \in KernelIds
  BY DEF Record
<1>4. 0 \notin KernelIds
  BY <1>1 DEF KernelIds
<1> QED BY <1>2, <1>3, <1>4 DEF Item

\* What a sequence is with one more element, and without its first.
LEMMA AppendOne ==
  ASSUME NEW S, NEW s \in Seq(S), NEW x \in S
  PROVE  /\ Append(s, x) \in Seq(S) /\ Len(Append(s, x)) = Len(s) + 1
         /\ DOMAIN Append(s, x) = 1 .. Len(s) + 1 /\ DOMAIN s = 1 .. Len(s) /\ Len(s) \in Nat
         /\ Append(s, x)[Len(s) + 1] = x
         /\ \A i \in 1 .. Len(s) : Append(s, x)[i] = s[i]
OBVIOUS

LEMMA TailOne ==
  ASSUME NEW S, NEW s \in Seq(S), s # <<>>
  PROVE  /\ Tail(s) \in Seq(S) /\ Len(Tail(s)) = Len(s) - 1
         /\ DOMAIN Tail(s) = 1 .. Len(s) - 1 /\ DOMAIN s = 1 .. Len(s) /\ Len(s) \in Nat
         /\ Len(s) >= 1 /\ Head(s) = s[1] /\ Head(s) \in S
         /\ \A i \in 1 .. Len(s) - 1 : Tail(s)[i] = s[i + 1]
OBVIOUS

LEMMA TypesInit == Init => Types
<1> SUFFICES ASSUME Init PROVE Types
  OBVIOUS
<1>1. /\ <<>> \in Seq(Item) /\ <<>> \in Seq(Record) /\ <<>> \in Seq(Nat)
      /\ <<>> \in Seq(Names) /\ Len(<<>>) = 0
  OBVIOUS
<1>2. AppTypes
  <2>1. 1 <= MaxKernels + 1
    BY EnvTypes DEF Init
  <2> QED BY <1>1, <2>1 DEF Init, AppTypes
<1>3. QueueTypes
  BY <1>1 DEF Init, QueueTypes
<1> QED BY <1>2, <1>3 DEF Types

LEMMA EnterTypes ==
  ASSUME AppTypes, NEW name \in Names, enter_kernel_launch(name),
         env' = env, at' \in {"host", "launched"}, closed' = closed
  PROVE  AppTypes'
<1>1. kernelid \in KernelIds
  BY EnvTypes DEF AppTypes, KernelIds, enter_kernel_launch
<1>2. /\ Append(names, name) \in Seq(Names)
      /\ Len(Append(names, name)) = Len(names) + 1
      /\ Append(listed, kernelid) \in Seq(Nat)
  BY AppendOne DEF AppTypes
<1>3. /\ names' = Append(names, name) /\ kernelid' = kernelid + 1 /\ current' = name
      /\ listed' = listed \/ listed' = Append(listed, kernelid)
  BY DEF enter_kernel_launch, NextKernelId
<1>4. resultsFile' \in {0} \union KernelIds /\ (open' => resultsFile' \in KernelIds)
  BY <1>1 DEF AppTypes, enter_kernel_launch
<1>5. /\ kernelid' \in Nat /\ kernelid' >= 1 /\ kernelid' <= (MaxKernels + 1)'
      /\ names' \in Seq(Names) /\ Len(names') = kernelid' - 1
  <2>1. kernelid <= MaxKernels /\ (MaxKernels + 1)' = MaxKernels + 1 /\ MaxKernels \in Nat
    BY EnvTypes DEF AppTypes, enter_kernel_launch, MaxKernels
  <2> QED BY <1>2, <1>3, <2>1 DEF AppTypes
<1>6. listed' \in Seq(Nat) /\ current' \in Names
  BY <1>2, <1>3 DEF AppTypes
<1> QED BY <1>4, <1>5, <1>6 DEF AppTypes

\* A record that is pushed is new, and one of the kernel that pushes it.
NewRecord(k, w, i) == [k |-> k, n |-> Len(pushed[k]) + 1, w |-> w, i |-> i]

LEMMA NewRecordType ==
  ASSUME QueueTypes, NEW k \in KernelIds, NEW w \in Warps, NEW i \in Instrs
  PROVE  NewRecord(k, w, i) \in Record /\ NewRecord(k, w, i) \in Item
<1>1. Len(pushed[k]) + 1 \in Nat
  BY DEF QueueTypes
<1> QED BY <1>1 DEF NewRecord, Record, Item

\* The steps of the application thread other than those that enter a kernel.
LEMMA AppStep ==
  ASSUME \/ ExitAtLimit \/ GraphLaunch \/ FlushChannel \/ leave_kernel_launch
         \/ MemcpyHtoD \/ (\E b \in BOOLEAN : Profiler(b)) \/ CtxTerm \/ Join
  PROVE  /\ UNCHANGED <<env, kernelid, names, current, resultsFile>>
         /\ at' \in {"host", "graph", "waiting", "joining", "exited"}
         /\ open' = open \/ open' = FALSE
         /\ closed' = closed \/ closed' = closed \union {resultsFile}
         /\ listed' = listed \/ listed' = Append(listed, Copy)
         /\ UNCHANGED <<recvVars, pushed>>
         /\ channel' = channel \/ channel' = Append(channel, Flush)
<1>1. CASE ExitAtLimit
  BY <1>1 DEF ExitAtLimit, gpuVars
<1>2. CASE GraphLaunch
  BY <1>2 DEF GraphLaunch
<1>3. CASE FlushChannel
  BY <1>3 DEF FlushChannel
<1>4. CASE leave_kernel_launch
  <2>1. /\ UNCHANGED <<env, kernelid, names, current, resultsFile, listed, recvVars, pushed, channel>>
        /\ at' = "host"
    BY <1>4 DEF leave_kernel_launch, gpuVars
  <2>2. /\ open' = open \/ open' = FALSE
        /\ closed' = closed \/ closed' = closed \union {resultsFile}
    BY <1>4 DEF leave_kernel_launch
  <2> QED BY <2>1, <2>2
<1>5. CASE MemcpyHtoD
  BY <1>5 DEF MemcpyHtoD, gpuVars
<1>6. CASE \E b \in BOOLEAN : Profiler(b)
  BY <1>6 DEF Profiler, gpuVars
<1>7. CASE CtxTerm
  BY <1>7 DEF CtxTerm, gpuVars
<1>8. CASE Join
  BY <1>8 DEF Join, gpuVars
<1> QED BY <1>1, <1>2, <1>3, <1>4, <1>5, <1>6, <1>7, <1>8

-----------------------------------------------------------------------------
(* What a step does to the records *)

Keeps == UNCHANGED <<channel, buffer, files, pushed>>
Flushes == channel' = Append(channel, Flush) /\ UNCHANGED <<buffer, files, pushed>>
Pushes ==
  \E k \in KernelIds, w \in Warps, i \in Instrs :
    /\ channel' = Append(channel, NewRecord(k, w, i))
    /\ pushed' = [pushed EXCEPT ![k] = Append(pushed[k], NewRecord(k, w, i))]
    /\ UNCHANGED <<buffer, files>>
Receives ==
  /\ buffer = <<>> /\ UNCHANGED <<files, pushed>>
  /\ \E n \in 1 .. Len(channel) : /\ buffer' = SubSeq(channel, 1, n)
                                  /\ channel' = SubSeq(channel, n + 1, Len(channel))
Drops == buffer' = <<>> /\ UNCHANGED <<channel, files, pushed>>
Handles ==
  /\ buffer # <<>> /\ Head(buffer) \in Record /\ buffer' = Tail(buffer)
  /\ UNCHANGED <<channel, pushed>>
  /\ \/ files' = files
     \/ \E f \in KernelIds : files' = [files EXCEPT ![f] = Append(files[f], Head(buffer))]

LEMMA RecordStep ==
  ASSUME Types, ReceiveRecord
  PROVE  Handles
<1>1. /\ buffer # <<>> /\ Head(buffer) # Flush /\ buffer' = Tail(buffer)
      /\ UNCHANGED <<channel, pushed>>
  BY DEF ReceiveRecord, RestOfBatch, gpuVars
<1>2. Head(buffer) \in Record
  BY <1>1, TailOne DEF Types, QueueTypes, Item
<1>3. files' = files \/ (open /\ files' = [files EXCEPT ![resultsFile] = Append(@, Head(buffer))])
  BY DEF ReceiveRecord
<1>4. open => resultsFile \in KernelIds
  BY DEF Types, AppTypes
<1> QED BY <1>1, <1>2, <1>3, <1>4 DEF Handles

LEMMA DataSteps ==
  ASSUME Types, [Next]_vars
  PROVE  Keeps \/ Flushes \/ Pushes \/ Receives \/ Drops \/ Handles
<1>1. ASSUME NEW name \in Names, Launch(name) \/ Capture(name) PROVE Keeps
  BY <1>1 DEF Launch, Capture, gpuVars, recvVars, Keeps
<1>2. CASE \/ ExitAtLimit \/ GraphLaunch \/ FlushChannel \/ leave_kernel_launch
           \/ MemcpyHtoD \/ (\E b \in BOOLEAN : Profiler(b)) \/ CtxTerm \/ Join
  <2>1. /\ UNCHANGED <<recvVars, pushed>>
        /\ channel' = channel \/ channel' = Append(channel, Flush)
    BY <1>2, AppStep
  <2> QED BY <2>1 DEF recvVars, Keeps, Flushes
<1>3. CASE Yield \/ Exited \/ UNCHANGED vars
  BY <1>3 DEF Yield, Exited, vars, gpuVars, recvVars, Keeps
<1>4. ASSUME NEW k \in KernelIds, NEW w \in Warps, NEW i \in Instrs, Push(k, w, i)
      PROVE  Pushes
  BY <1>4 DEF Push, Pushes, NewRecord, recvVars
<1>5. ASSUME NEW n \in 1 .. Len(channel), Receive(n)
      PROVE  Receives
  BY <1>5 DEF Receive, Receives, gpuVars
<1>6. CASE ReceiveFlush
  BY <1>6 DEF ReceiveFlush, Drops, gpuVars
<1>7. CASE ReceiveRecord
  BY <1>7, RecordStep
<1>8. CASE ThreadReturns
  BY <1>8 DEF ThreadReturns, Keeps, gpuVars
<1> QED BY <1>1, <1>2, <1>3, <1>4, <1>5, <1>6, <1>7, <1>8
        DEF Next, AppNext, GpuNext, RecvNext

LEMMA QueueTypesNext ==
  ASSUME QueueTypes, Keeps \/ Flushes \/ Pushes \/ Receives \/ Drops \/ Handles
  PROVE  QueueTypes'
<1>1. CASE Keeps
  BY <1>1 DEF Keeps, QueueTypes
<1>2. CASE Flushes
  <2>1. Append(channel, Flush) \in Seq(Item)
    BY FlushIsNoRecord, AppendOne DEF QueueTypes
  <2> QED BY <1>2, <2>1 DEF Flushes, QueueTypes
<1>3. CASE Pushes
  <2>1. PICK k \in KernelIds, w \in Warps, i \in Instrs :
          /\ channel' = Append(channel, NewRecord(k, w, i))
          /\ pushed' = [pushed EXCEPT ![k] = Append(pushed[k], NewRecord(k, w, i))]
          /\ UNCHANGED <<buffer, files>>
    BY <1>3 DEF Pushes
  <2>2. /\ Append(channel, NewRecord(k, w, i)) \in Seq(Item)
        /\ Append(pushed[k], NewRecord(k, w, i)) \in Seq(Record)
    BY NewRecordType, AppendOne DEF QueueTypes
  <2> QED BY <2>1, <2>2 DEF QueueTypes
<1>4. CASE Receives
  <2>1. PICK n \in 1 .. Len(channel) : /\ buffer' = SubSeq(channel, 1, n)
                                       /\ channel' = SubSeq(channel, n + 1, Len(channel))
    BY <1>4 DEF Receives
  <2>2. n \in Nat /\ n <= Len(channel) /\ channel \in Seq(Item)
    BY DEF QueueTypes
  <2>3. buffer' \in Seq(Item) /\ channel' \in Seq(Item)
    BY <2>1, <2>2, Split
  <2> QED BY <1>4, <2>3 DEF Receives, QueueTypes
<1>5. CASE Drops
  BY <1>5 DEF Drops, QueueTypes
<1>6. CASE Handles
  <2>1. Tail(buffer) \in Seq(Item)
    BY <1>6, TailOne DEF Handles, QueueTypes
  <2>2. \A f \in KernelIds : Append(files[f], Head(buffer)) \in Seq(Record)
    BY <1>6, AppendOne DEF Handles, QueueTypes
  <2>3. files' \in [KernelIds -> Seq(Record)]
    BY <1>6, <2>2 DEF Handles, QueueTypes
  <2> QED BY <1>6, <2>1, <2>3 DEF Handles, QueueTypes
<1> QED BY <1>1, <1>2, <1>3, <1>4, <1>5, <1>6

LEMMA AppTypesNext ==
  ASSUME AppTypes, [Next]_vars
  PROVE  AppTypes'
<1>1. ASSUME NEW name \in Names, Launch(name) \/ Capture(name) PROVE AppTypes'
  <2>1. /\ enter_kernel_launch(name) /\ env' = env /\ closed' = closed
        /\ at' \in {"host", "launched"}
    BY <1>1 DEF Launch, Capture
  <2> QED BY <2>1, EnterTypes
<1>2. CASE \/ ExitAtLimit \/ GraphLaunch \/ FlushChannel \/ leave_kernel_launch
           \/ MemcpyHtoD \/ (\E b \in BOOLEAN : Profiler(b)) \/ CtxTerm \/ Join
  <2>1. /\ UNCHANGED <<env, kernelid, names, current, resultsFile>>
        /\ at' \in {"host", "graph", "waiting", "joining", "exited"}
        /\ open' = open \/ open' = FALSE
        /\ closed' = closed \/ closed' = closed \union {resultsFile}
        /\ listed' = listed \/ listed' = Append(listed, Copy)
    BY <1>2, AppStep
  <2>2. Append(listed, Copy) \in Seq(Nat)
    BY AppendOne DEF AppTypes, Copy
  <2>3. resultsFile \in Nat
    BY EnvTypes DEF AppTypes, KernelIds
  <2>4. closed' \subseteq Nat /\ listed' \in Seq(Nat)
    BY <2>1, <2>2, <2>3 DEF AppTypes
  <2>5. open' => resultsFile' \in KernelIds
    BY <2>1 DEF AppTypes
  <2>6. (MaxKernels + 1)' = MaxKernels + 1
    BY <2>1 DEF MaxKernels
  <2> QED BY <2>1, <2>4, <2>5, <2>6 DEF AppTypes
<1>3. ASSUME UNCHANGED <<env, appVars>> PROVE AppTypes'
  BY <1>3 DEF AppTypes, appVars, MaxKernels
<1>4. CASE Yield \/ Exited \/ UNCHANGED vars
  BY <1>3, <1>4 DEF Yield, Exited, vars
<1>5. CASE GpuNext
  BY <1>3, <1>5 DEF GpuNext, Push
<1>6. CASE RecvNext
  BY <1>3, <1>6 DEF RecvNext, Receive, ReceiveFlush, ReceiveRecord, ThreadReturns
<1> QED BY <1>1, <1>2, <1>4, <1>5, <1>6 DEF Next, AppNext

LEMMA TypesNext == Types /\ [Next]_vars => Types'
BY DataSteps, QueueTypesNext, AppTypesNext DEF Types


-----------------------------------------------------------------------------
(* A record is in one place at most. *)

\* Where a record can be: the channel, the batch or one of the files.
Holders == 0 .. NumKernels + 1
Channel == 0
Batch == NumKernels + 1
Holding(c, b, f) ==
  [h \in Holders |-> IF h = Channel THEN c ELSE IF h = Batch THEN b ELSE f[h]]

Once(H) ==
  \A h, g \in Holders : \A p \in DOMAIN H[h], q \in DOMAIN H[g] :
    H[h][p] = H[g][q] /\ H[h][p] # Flush => h = g /\ p = q

\* Records are numbered as they are pushed.
Past(H, sent) ==
  \A h \in Holders : \A p \in DOMAIN H[h] :
    H[h][p] # Flush => H[h][p].n <= Len(sent[H[h][p].k])

OnceInv == LET H == Holding(channel, buffer, files)
           IN  Once(H) /\ Past(H, pushed)

LEMMA HoldersAre ==
  /\ Channel \in Holders /\ Batch \in Holders /\ KernelIds \subseteq Holders
  /\ Channel # Batch /\ Channel \notin KernelIds /\ Batch \notin KernelIds
  /\ Holders = KernelIds \union {Channel, Batch}
BY TracerAssumption DEF Holders, Channel, Batch, KernelIds

LEMMA HoldingIs ==
  ASSUME NEW c, NEW b, NEW f
  PROVE  /\ Holding(c, b, f)[Channel] = c /\ Holding(c, b, f)[Batch] = b
         /\ \A h \in KernelIds : Holding(c, b, f)[h] = f[h]
BY HoldersAre DEF Holding

\* What is in place p of holder h comes from place q of holder g.
From(m, h, p, g, q) == m[h][p] = <<g, q>>

\* Records that are moved, or disappear, stay in one place at most: m says
\* where what is in a place comes from.
LEMMA OnceMoved ==
  ASSUME NEW H, NEW G, NEW sent, NEW m, Once(H), Past(H, sent),
         \A h \in Holders : \A p \in DOMAIN G[h] :
           \E h1 \in Holders : \E p1 \in DOMAIN H[h1] :
             From(m, h, p, h1, p1) /\ G[h][p] = H[h1][p1],
         \A h, g, h1 \in Holders : \A p \in DOMAIN G[h], q \in DOMAIN G[g] : \A p1 :
           From(m, h, p, h1, p1) /\ From(m, g, q, h1, p1) => h = g /\ p = q
  PROVE  Once(G) /\ Past(G, sent)
<1>1. Past(G, sent)
  BY DEF Past
<1>2. ASSUME NEW h \in Holders, NEW g \in Holders, NEW p \in DOMAIN G[h], NEW q \in DOMAIN G[g],
             G[h][p] = G[g][q], G[h][p] # Flush
      PROVE  h = g /\ p = q
  <2>1. PICK h1 \in Holders : \E p1 \in DOMAIN H[h1] :
          From(m, h, p, h1, p1) /\ G[h][p] = H[h1][p1]
    OBVIOUS
  <2>2. PICK p1 \in DOMAIN H[h1] : From(m, h, p, h1, p1) /\ G[h][p] = H[h1][p1]
    BY <2>1
  <2>3. PICK g1 \in Holders : \E q1 \in DOMAIN H[g1] :
          From(m, g, q, g1, q1) /\ G[g][q] = H[g1][q1]
    OBVIOUS
  <2>4. PICK q1 \in DOMAIN H[g1] : From(m, g, q, g1, q1) /\ G[g][q] = H[g1][q1]
    BY <2>3
  <2>5. h1 = g1 /\ p1 = q1
    <3>1. H[h1][p1] = H[g1][q1] /\ H[h1][p1] # Flush
      BY <1>2, <2>2, <2>4
    <3> QED BY <3>1 DEF Once
  <2> QED BY <2>2, <2>4, <2>5
<1> QED BY <1>1, <1>2 DEF Once

LEMMA OnceReceives ==
  ASSUME QueueTypes, OnceInv, Receives
  PROVE  OnceInv'
<1> DEFINE H == Holding(channel, buffer, files)
           G == Holding(channel', buffer', files')
<1>1. PICK n \in 1 .. Len(channel) : /\ buffer' = SubSeq(channel, 1, n)
                                     /\ channel' = SubSeq(channel, n + 1, Len(channel))
  BY DEF Receives
<1>2. /\ DOMAIN channel = 1 .. Len(channel) /\ Len(channel) \in Nat /\ n \in Nat /\ n <= Len(channel)
      /\ buffer' \in Seq(Item) /\ Len(buffer') = n
      /\ \A i \in 1 .. n : buffer'[i] = channel[i]
      /\ channel' \in Seq(Item) /\ Len(channel') = Len(channel) - n
      /\ \A i \in 1 .. Len(channel) - n : channel'[i] = channel[n + i]
  <2>1. channel \in Seq(Item) /\ n \in Nat /\ n <= Len(channel)
    BY DEF QueueTypes
  <2> QED BY <1>1, <2>1, Split
<1>3. DOMAIN buffer' = 1 .. n /\ DOMAIN channel' = 1 .. Len(channel) - n
  BY <1>2
<1>4. files' = files /\ pushed' = pushed
  BY DEF Receives
<1>5. /\ H[Channel] = channel /\ \A h \in KernelIds : H[h] = files[h]
      /\ G[Channel] = channel' /\ G[Batch] = buffer' /\ \A h \in KernelIds : G[h] = files[h]
  BY <1>4, HoldingIs
<1> DEFINE m == [h \in Holders |-> [p \in Int |->
                   IF h = Batch THEN <<Channel, p>>
                   ELSE IF h = Channel THEN <<Channel, n + p>> ELSE <<h, p>>]]
<1>6. \A h \in Holders : \A p \in Int : \A g, q :
        From(m, h, p, g, q) <=>
          IF h = Batch THEN g = Channel /\ q = p
          ELSE IF h = Channel THEN g = Channel /\ q = n + p ELSE g = h /\ q = p
  BY DEF From
<1>7. Once(H) /\ Past(H, pushed)
  BY DEF OnceInv
<1> HIDE DEF H, G, m
<1>8. \A f \in KernelIds : DOMAIN files[f] \subseteq Int
  BY DEF QueueTypes
<1>9. ASSUME NEW h \in Holders, NEW p \in DOMAIN G[h]
      PROVE  /\ p \in Int
             /\ h = Channel => p \in 1 .. Len(channel) - n /\ n + p \in 1 .. Len(channel)
             /\ h = Batch => p \in 1 .. n
             /\ \E h1 \in Holders : \E p1 \in DOMAIN H[h1] :
                  From(m, h, p, h1, p1) /\ G[h][p] = H[h1][p1]
  <2>1. CASE h = Channel
    <3>1. p \in 1 .. Len(channel) - n /\ p \in Int /\ G[h][p] = channel[n + p]
      BY <1>2, <1>3, <1>5, <1>9, <2>1
    <3>2. n + p \in DOMAIN channel
      BY <1>2, <3>1
    <3>3. From(m, h, p, Channel, n + p)
      BY <1>6, <2>1, <3>1, HoldersAre
    <3> QED BY <1>2, <1>5, <2>1, <3>1, <3>2, <3>3, HoldersAre
  <2>2. CASE h = Batch
    <3>1. p \in 1 .. n /\ p \in Int /\ G[h][p] = channel[p] /\ p \in DOMAIN channel
      BY <1>2, <1>3, <1>5, <1>9, <2>2
    <3>2. From(m, h, p, Channel, p)
      BY <1>6, <2>2, <3>1
    <3> QED BY <1>5, <2>2, <3>1, <3>2, HoldersAre
  <2>3. CASE h \in KernelIds
    <3>1. p \in Int /\ G[h] = files[h] /\ H[h] = files[h]
      BY <1>5, <1>8, <1>9, <2>3
    <3>2. From(m, h, p, h, p)
      BY <1>6, <2>3, <3>1, HoldersAre
    <3> QED BY <1>9, <2>3, <3>1, <3>2, HoldersAre
  <2> QED BY <2>1, <2>2, <2>3, HoldersAre
<1>10. ASSUME NEW h \in Holders, NEW g \in Holders, NEW h1 \in Holders,
              NEW p \in DOMAIN G[h], NEW q \in DOMAIN G[g], NEW p1,
              From(m, h, p, h1, p1), From(m, g, q, h1, p1)
       PROVE  h = g /\ p = q
  <2>1. p \in Int /\ q \in Int /\ n \in Int
    BY <1>9
  <2>2. /\ h = Channel => p \in 1 .. Len(channel) - n
        /\ h = Batch => p \in 1 .. n
        /\ g = Channel => q \in 1 .. Len(channel) - n
        /\ g = Batch => q \in 1 .. n
    BY <1>9
  <2>3. IF h = Batch THEN h1 = Channel /\ p1 = p
        ELSE IF h = Channel THEN h1 = Channel /\ p1 = n + p ELSE h1 = h /\ p1 = p
    BY <1>6, <1>10, <2>1
  <2>4. IF g = Batch THEN h1 = Channel /\ p1 = q
        ELSE IF g = Channel THEN h1 = Channel /\ p1 = n + q ELSE h1 = g /\ p1 = q
    BY <1>6, <1>10, <2>1
  <2> QED BY <1>2, <2>1, <2>2, <2>3, <2>4, HoldersAre
<1>11. \A h \in Holders : \A p \in DOMAIN G[h] :
         \E h1 \in Holders : \E p1 \in DOMAIN H[h1] :
           From(m, h, p, h1, p1) /\ G[h][p] = H[h1][p1]
  BY <1>9
<1>12. \A h, g, h1 \in Holders : \A p \in DOMAIN G[h], q \in DOMAIN G[g] : \A p1 :
         From(m, h, p, h1, p1) /\ From(m, g, q, h1, p1) => h = g /\ p = q
  BY <1>10
<1>13. Once(G) /\ Past(G, pushed)
  BY <1>7, <1>11, <1>12, OnceMoved
<1> QED BY <1>4, <1>13 DEF OnceInv, G

LEMMA OnceHandles ==
  ASSUME QueueTypes, OnceInv, Handles
  PROVE  OnceInv'
<1> DEFINE H == Holding(channel, buffer, files)
           G == Holding(channel', buffer', files')
<1>1. /\ buffer \in Seq(Item) /\ buffer # <<>> /\ buffer' = Tail(buffer)
      /\ channel' = channel /\ pushed' = pushed
  BY DEF Handles, QueueTypes
<1>2. /\ Len(buffer) \in Nat /\ Len(buffer) >= 1 /\ Head(buffer) = buffer[1]
      /\ DOMAIN buffer = 1 .. Len(buffer) /\ DOMAIN buffer' = 1 .. Len(buffer) - 1
      /\ \A i \in 1 .. Len(buffer) - 1 : buffer'[i] = buffer[i + 1]
  BY <1>1, TailOne
<1>3. PICK to \in {0} \union KernelIds :
        /\ \A f \in KernelIds : f # to => files'[f] = files[f]
        /\ to \in KernelIds =>
             /\ DOMAIN files'[to] = 1 .. Len(files[to]) + 1
             /\ files'[to][Len(files[to]) + 1] = buffer[1]
             /\ \A i \in 1 .. Len(files[to]) : files'[to][i] = files[to][i]
  <2>1. CASE files' = files
    <3>1. 0 \notin KernelIds
      BY TracerAssumption DEF KernelIds
    <3> QED BY <2>1, <3>1
  <2>2. CASE \E f \in KernelIds : files' = [files EXCEPT ![f] = Append(files[f], Head(buffer))]
    <3>1. PICK to \in KernelIds : files' = [files EXCEPT ![to] = Append(files[to], Head(buffer))]
      BY <2>2
    <3>2. files \in [KernelIds -> Seq(Record)] /\ Head(buffer) \in Record
      BY DEF QueueTypes, Handles
    <3>3. files'[to] = Append(files[to], Head(buffer)) /\ \A f \in KernelIds : f # to => files'[f] = files[f]
      BY <3>1, <3>2
    <3>4. /\ DOMAIN Append(files[to], Head(buffer)) = 1 .. Len(files[to]) + 1
          /\ Append(files[to], Head(buffer))[Len(files[to]) + 1] = Head(buffer)
          /\ \A i \in 1 .. Len(files[to]) : Append(files[to], Head(buffer))[i] = files[to][i]
      BY <3>2, AppendOne
    <3> QED BY <1>2, <3>3, <3>4
  <2> QED BY <2>1, <2>2 DEF Handles
<1>4. \A f \in KernelIds : Len(files[f]) \in Nat /\ DOMAIN files[f] = 1 .. Len(files[f])
  BY DEF QueueTypes
<1>5. /\ H[Channel] = channel /\ H[Batch] = buffer /\ \A h \in KernelIds : H[h] = files[h]
      /\ G[Channel] = channel /\ G[Batch] = buffer' /\ \A h \in KernelIds : G[h] = files'[h]
  <2>1. H[Channel] = channel /\ H[Batch] = buffer /\ \A h \in KernelIds : H[h] = files[h]
    BY HoldingIs
  <2>2. G[Channel] = channel' /\ G[Batch] = buffer' /\ \A h \in KernelIds : G[h] = files'[h]
    BY HoldingIs
  <2> HIDE DEF H, G
  <2> QED BY <1>1, <2>1, <2>2
<1> DEFINE Written(h, p) == h = to /\ h \in KernelIds /\ p = Len(files[h]) + 1
           m == [h \in Holders |-> [p \in Int |->
                   IF h = Batch THEN <<Batch, p + 1>>
                   ELSE IF Written(h, p) THEN <<Batch, 1>> ELSE <<h, p>>]]
<1>6. \A h \in Holders : \A p \in Int : \A g, q :
        From(m, h, p, g, q) <=>
          IF h = Batch THEN g = Batch /\ q = p + 1
          ELSE IF Written(h, p) THEN g = Batch /\ q = 1 ELSE g = h /\ q = p
  <2> HIDE DEF Written
  <2> QED BY DEF From
<1>7. Once(H) /\ Past(H, pushed)
  BY DEF OnceInv
<1> HIDE DEF H, G, m
<1>8. DOMAIN channel \subseteq Int
  BY DEF QueueTypes
<1>9. ASSUME NEW h \in Holders, NEW p \in DOMAIN G[h]
      PROVE  /\ p \in Int
             /\ h = Batch => p \in 1 .. Len(buffer) - 1
             /\ \E h1 \in Holders : \E p1 \in DOMAIN H[h1] :
                  From(m, h, p, h1, p1) /\ G[h][p] = H[h1][p1]
  <2>1. CASE h = Channel
    <3>1. p \in DOMAIN channel /\ p \in Int /\ G[h] = channel /\ H[h] = channel /\ ~ Written(h, p)
      BY <1>5, <1>8, <1>9, <2>1, HoldersAre
    <3>2. From(m, h, p, h, p)
      BY <1>6, <2>1, <3>1, HoldersAre
    <3> QED BY <2>1, <3>1, <3>2, HoldersAre
  <2>2. CASE h = Batch
    <3>1. p \in 1 .. Len(buffer) - 1 /\ p \in Int /\ G[h][p] = buffer[p + 1] /\ p + 1 \in DOMAIN buffer
      BY <1>2, <1>5, <1>9, <2>2
    <3>2. From(m, h, p, Batch, p + 1)
      BY <1>6, <2>2, <3>1
    <3> QED BY <1>5, <2>2, <3>1, <3>2, HoldersAre
  <2>3. CASE h \in KernelIds /\ h # to
    <3>1. p \in Int /\ G[h] = files[h] /\ H[h] = files[h] /\ ~ Written(h, p)
      BY <1>3, <1>4, <1>5, <1>9, <2>3
    <3>2. From(m, h, p, h, p)
      BY <1>6, <2>3, <3>1, HoldersAre
    <3> QED BY <1>9, <2>3, <3>1, <3>2, HoldersAre
  <2>4. CASE h \in KernelIds /\ h = to
    <3>1. /\ DOMAIN G[h] = 1 .. Len(files[h]) + 1 /\ G[h][Len(files[h]) + 1] = buffer[1]
          /\ \A i \in 1 .. Len(files[h]) : G[h][i] = files[h][i]
      BY <1>3, <1>5, <2>4
    <3>2. p \in Int
      BY <1>4, <1>9, <2>4, <3>1
    <3>3. CASE p = Len(files[h]) + 1
      <4>1. From(m, h, p, Batch, 1)
        BY <1>6, <2>4, <3>2, <3>3, HoldersAre
      <4>2. 1 \in DOMAIN H[Batch] /\ G[h][p] = H[Batch][1]
        BY <1>2, <1>5, <3>1, <3>3
      <4> QED BY <2>4, <3>2, <4>1, <4>2, HoldersAre
    <3>4. CASE p # Len(files[h]) + 1
      <4>1. p \in 1 .. Len(files[h])
        BY <1>4, <1>9, <2>4, <3>1, <3>4
      <4>2. From(m, h, p, h, p)
        BY <1>6, <2>4, <3>2, <3>4, HoldersAre
      <4>3. p \in DOMAIN H[h] /\ G[h][p] = H[h][p]
        BY <1>4, <1>5, <2>4, <3>1, <4>1
      <4> QED BY <2>4, <3>2, <4>2, <4>3, HoldersAre
    <3> QED BY <3>3, <3>4
  <2> QED BY <2>1, <2>2, <2>3, <2>4, HoldersAre
<1>10. ASSUME NEW h \in Holders, NEW g \in Holders, NEW h1 \in Holders,
              NEW p \in DOMAIN G[h], NEW q \in DOMAIN G[g], NEW p1,
              From(m, h, p, h1, p1), From(m, g, q, h1, p1)
       PROVE  h = g /\ p = q
  <2>1. /\ p \in Int /\ q \in Int
        /\ h = Batch => p >= 1
        /\ g = Batch => q >= 1
    BY <1>2, <1>9
  <2>2. IF h = Batch THEN h1 = Batch /\ p1 = p + 1
        ELSE IF Written(h, p) THEN h1 = Batch /\ p1 = 1 ELSE h1 = h /\ p1 = p
    BY <1>6, <1>10, <2>1
  <2>3. IF g = Batch THEN h1 = Batch /\ p1 = q + 1
        ELSE IF Written(g, q) THEN h1 = Batch /\ p1 = 1 ELSE h1 = g /\ p1 = q
    BY <1>6, <1>10, <2>1
  <2>4. Written(h, p) /\ Written(g, q) => h = g /\ p = q
    OBVIOUS
  <2> HIDE DEF Written
  <2> QED BY <2>1, <2>2, <2>3, <2>4
<1>11. \A h \in Holders : \A p \in DOMAIN G[h] :
         \E h1 \in Holders : \E p1 \in DOMAIN H[h1] :
           From(m, h, p, h1, p1) /\ G[h][p] = H[h1][p1]
  BY <1>9
<1>12. \A h, g, h1 \in Holders : \A p \in DOMAIN G[h], q \in DOMAIN G[g] : \A p1 :
         From(m, h, p, h1, p1) /\ From(m, g, q, h1, p1) => h = g /\ p = q
  BY <1>10
<1>13. Once(G) /\ Past(G, pushed)
  BY <1>7, <1>11, <1>12, OnceMoved
<1> QED BY <1>1, <1>13 DEF OnceInv, G

LEMMA OnceDrops ==
  ASSUME QueueTypes, OnceInv, Drops
  PROVE  OnceInv'
<1> DEFINE H == Holding(channel, buffer, files)
           G == Holding(channel', buffer', files')
<1>1. /\ H[Channel] = channel /\ \A h \in KernelIds : H[h] = files[h]
      /\ G[Channel] = channel /\ G[Batch] = <<>> /\ \A h \in KernelIds : G[h] = files[h]
      /\ pushed' = pushed
  BY HoldingIs DEF Drops
<1>2. Once(H) /\ Past(H, pushed)
  BY DEF OnceInv
<1> HIDE DEF H, G
<1>3. \A h \in Holders : G[h] = H[h] \/ DOMAIN G[h] = {}
  BY <1>1, HoldersAre
<1>4. Once(G) /\ Past(G, pushed)
  BY <1>2, <1>3 DEF Once, Past
<1> QED BY <1>1, <1>4 DEF OnceInv, G

LEMMA OnceFlushes ==
  ASSUME QueueTypes, OnceInv, Flushes
  PROVE  OnceInv'
<1> DEFINE H == Holding(channel, buffer, files)
           G == Holding(channel', buffer', files')
<1>1. /\ H[Channel] = channel /\ H[Batch] = buffer /\ \A h \in KernelIds : H[h] = files[h]
      /\ G[Channel] = Append(channel, Flush) /\ G[Batch] = buffer
      /\ \A h \in KernelIds : G[h] = files[h]
      /\ pushed' = pushed
  <2>1. H[Channel] = channel /\ H[Batch] = buffer /\ \A h \in KernelIds : H[h] = files[h]
    BY HoldingIs
  <2>2. G[Channel] = channel' /\ G[Batch] = buffer' /\ \A h \in KernelIds : G[h] = files'[h]
    BY HoldingIs
  <2> HIDE DEF H, G
  <2> QED BY <2>1, <2>2 DEF Flushes
<1>2. Once(H) /\ Past(H, pushed)
  BY DEF OnceInv
<1>3. /\ DOMAIN Append(channel, Flush) = 1 .. Len(channel) + 1 /\ DOMAIN channel = 1 .. Len(channel)
      /\ Append(channel, Flush)[Len(channel) + 1] = Flush /\ Len(channel) \in Nat
      /\ \A i \in 1 .. Len(channel) : Append(channel, Flush)[i] = channel[i]
  BY FlushIsNoRecord, AppendOne DEF QueueTypes
<1> HIDE DEF H, G
<1>4. ASSUME NEW h \in Holders, NEW p \in DOMAIN G[h], G[h][p] # Flush
      PROVE  p \in DOMAIN H[h] /\ G[h][p] = H[h][p]
  <2>1. CASE h = Channel
    BY <1>1, <1>3, <1>4, <2>1
  <2>2. CASE h # Channel
    BY <1>1, <2>2, HoldersAre
  <2> QED BY <2>1, <2>2
<1>5. Once(G) /\ Past(G, pushed)
  BY <1>2, <1>4 DEF Once, Past
<1> QED BY <1>1, <1>5 DEF OnceInv, G

LEMMA OncePushes ==
  ASSUME QueueTypes, OnceInv, Pushes
  PROVE  OnceInv'
<1> DEFINE H == Holding(channel, buffer, files)
           G == Holding(channel', buffer', files')
<1>1. PICK k \in KernelIds, w \in Warps, i \in Instrs :
        /\ channel' = Append(channel, NewRecord(k, w, i))
        /\ pushed' = [pushed EXCEPT ![k] = Append(pushed[k], NewRecord(k, w, i))]
        /\ UNCHANGED <<buffer, files>>
  BY DEF Pushes
<1>2. PICK r : r = NewRecord(k, w, i)
  OBVIOUS
<1>3. r \in Record /\ r \in Item /\ r.k = k /\ r.n = Len(pushed[k]) + 1
  BY <1>2, NewRecordType DEF NewRecord
<1>4. /\ \A j \in KernelIds : Len(pushed[j]) \in Nat /\ Len(pushed'[j]) \in Nat
                              /\ Len(pushed[j]) <= Len(pushed'[j])
      /\ Len(pushed'[k]) = Len(pushed[k]) + 1
  <2>1. /\ Append(pushed[k], r) \in Seq(Record)
        /\ Len(Append(pushed[k], r)) = Len(pushed[k]) + 1
        /\ pushed \in [KernelIds -> Seq(Record)]
    BY <1>3, AppendOne DEF QueueTypes
  <2>2. pushed'[k] = Append(pushed[k], r) /\ \A j \in KernelIds : j # k => pushed'[j] = pushed[j]
    BY <1>1, <1>2, <2>1
  <2>3. \A j \in KernelIds : Len(pushed[j]) \in Nat
    BY <2>1
  <2> QED BY <2>1, <2>2, <2>3
<1>5. /\ H[Channel] = channel /\ H[Batch] = buffer /\ \A h \in KernelIds : H[h] = files[h]
      /\ G[Channel] = channel' /\ G[Batch] = buffer
      /\ \A h \in KernelIds : G[h] = files[h]
  <2>1. H[Channel] = channel /\ H[Batch] = buffer /\ \A h \in KernelIds : H[h] = files[h]
    BY HoldingIs
  <2>2. G[Channel] = channel' /\ G[Batch] = buffer' /\ \A h \in KernelIds : G[h] = files'[h]
    BY HoldingIs
  <2> HIDE DEF H, G
  <2> QED BY <1>1, <2>1, <2>2
<1>6. Once(H) /\ Past(H, pushed)
  BY DEF OnceInv
<1>7. /\ DOMAIN channel' = 1 .. Len(channel) + 1 /\ DOMAIN channel = 1 .. Len(channel)
      /\ channel'[Len(channel) + 1] = r /\ Len(channel) \in Nat
      /\ \A j \in 1 .. Len(channel) : channel'[j] = channel[j]
  <2>1. channel \in Seq(Item) /\ channel' = Append(channel, r)
    BY <1>1, <1>2 DEF QueueTypes
  <2> QED BY <1>3, <2>1, AppendOne
<1> HIDE DEF H, G
<1>8. \A h \in Holders : \A p \in DOMAIN H[h] : H[h][p] # Flush => H[h][p] \in Record /\ H[h][p] # r
  <2> SUFFICES ASSUME NEW h \in Holders, NEW p \in DOMAIN H[h], H[h][p] # Flush
               PROVE  H[h][p] \in Record /\ H[h][p] # r
    OBVIOUS
  <2>1. H[h] \in Seq(Item)
    <3>1. channel \in Seq(Item) /\ buffer \in Seq(Item) /\ \A f \in KernelIds : files[f] \in Seq(Record)
      BY DEF QueueTypes
    <3>2. \A s \in Seq(Record) : s \in Seq(Item)
      BY FlushIsNoRecord
    <3> QED BY <1>5, <3>1, <3>2, HoldersAre
  <2>2. H[h][p] \in Record
    BY <2>1 DEF Item
  <2>3. H[h][p].n <= Len(pushed[H[h][p].k])
    BY <1>6 DEF Past
  <2> QED BY <1>3, <1>4, <2>2, <2>3
<1>9. ASSUME NEW h \in Holders, NEW p \in DOMAIN G[h]
      PROVE  \/ p \in DOMAIN H[h] /\ G[h][p] = H[h][p]
             \/ h = Channel /\ p = Len(channel) + 1 /\ G[h][p] = r
  <2>1. CASE h = Channel
    BY <1>5, <1>7, <1>9, <2>1
  <2>2. CASE h # Channel
    BY <1>5, <2>2, HoldersAre
  <2> QED BY <2>1, <2>2
<1>10. Once(G)
  <2> SUFFICES ASSUME NEW h \in Holders, NEW g \in Holders, NEW p \in DOMAIN G[h], NEW q \in DOMAIN G[g],
                      G[h][p] = G[g][q], G[h][p] # Flush
               PROVE  h = g /\ p = q
    BY DEF Once
  <2>1. CASE p \in DOMAIN H[h] /\ G[h][p] = H[h][p] /\ q \in DOMAIN H[g] /\ G[g][q] = H[g][q]
    <3>1. H[h][p] = H[g][q] /\ H[h][p] # Flush
      BY <2>1
    <3> QED BY <1>6, <2>1, <3>1 DEF Once
  <2>2. CASE h = Channel /\ p = Len(channel) + 1 /\ G[h][p] = r
    BY <1>8, <1>9, <2>2
  <2>3. CASE g = Channel /\ q = Len(channel) + 1 /\ G[g][q] = r
    BY <1>8, <1>9, <2>3
  <2> QED BY <1>9, <2>1, <2>2, <2>3
<1>11. Past(G, pushed')
  <2> SUFFICES ASSUME NEW h \in Holders, NEW p \in DOMAIN G[h], G[h][p] # Flush
               PROVE  G[h][p].n <= Len(pushed'[G[h][p].k])
    BY DEF Past
  <2>1. CASE p \in DOMAIN H[h] /\ G[h][p] = H[h][p]
    <3>1. H[h][p].n <= Len(pushed[H[h][p].k]) /\ H[h][p] \in Record
      BY <1>6, <1>8, <2>1 DEF Past
    <3>2. H[h][p].n \in Nat /\ H[h][p].k \in KernelIds
      BY <3>1 DEF Record
    <3> QED BY <1>4, <2>1, <3>1, <3>2
  <2>2. CASE G[h][p] = r
    <3>1. Len(pushed[k]) \in Nat
      BY <1>4
    <3> QED BY <1>3, <1>4, <2>2, <3>1
  <2> QED BY <1>9, <2>1, <2>2
<1> QED BY <1>10, <1>11 DEF OnceInv, G


LEMMA OnceInit == Init => OnceInv
<1> SUFFICES ASSUME Init PROVE OnceInv
  OBVIOUS
<1> DEFINE H == Holding(channel, buffer, files)
<1>1. channel = <<>> /\ buffer = <<>> /\ \A f \in KernelIds : files[f] = <<>>
  BY DEF Init
<1>2. H[Channel] = channel /\ H[Batch] = buffer /\ \A h \in KernelIds : H[h] = files[h]
  BY HoldingIs
<1> HIDE DEF H
<1>3. \A h \in Holders : DOMAIN H[h] = {}
  BY <1>1, <1>2, HoldersAre
<1> QED BY <1>3 DEF OnceInv, Once, Past, H

LEMMA OnceNext == Types /\ OnceInv /\ [Next]_vars => OnceInv'
<1> SUFFICES ASSUME Types, OnceInv, [Next]_vars PROVE OnceInv'
  OBVIOUS
<1>1. CASE Keeps
  BY <1>1 DEF Keeps, OnceInv
<1>2. QueueTypes
  BY DEF Types
<1> QED BY <1>1, <1>2, DataSteps, OnceFlushes, OncePushes, OnceReceives, OnceDrops, OnceHandles

\* At most one place: three sets of which two are empty and the third has no
\* two elements.
LEMMA OneOfThree ==
  ASSUME NEW A, NEW B, NEW C,
         \A x, y \in A : x = y, \A x, y \in B : x = y, \A x, y \in C : x = y,
         A # {} => B = {}, A # {} => C = {}, B # {} => C = {}
  PROVE  Cardinality(A) + Cardinality(B) + Cardinality(C) <= 1
<1>1. Cardinality({}) = 0
  BY FS_EmptySet
<1>2. ASSUME NEW S, \A x, y \in S : x = y PROVE S = {} \/ Cardinality(S) = 1
  <2>1. CASE S # {}
    <3>1. PICK x \in S : TRUE
      BY <2>1
    <3>2. S = {x}
      BY <1>2
    <3> QED BY <3>2, FS_Singleton
  <2> QED BY <2>1
<1>3. /\ A = {} \/ Cardinality(A) = 1
      /\ B = {} \/ Cardinality(B) = 1
      /\ C = {} \/ Cardinality(C) = 1
  BY <1>2
<1> QED BY <1>1, <1>3

\* No record is written twice, whatever graph launches, batches and flush
\* records do: the channel is split, not copied, and a batch is worked off from
\* its front (recv_thread_fun).
THEOREM RecordsCorrect == Spec => []RecordsAtMostOnce
<1>1. Types /\ OnceInv => RecordsAtMostOnce
  <2> SUFFICES ASSUME Types, OnceInv, NEW k \in Kernels, NEW r \in ToSet(pushed[k])
               PROVE  LET inside(s) == {p \in DOMAIN s : s[p] = r}
                          written == UNION {{f} \X inside(files[f]) : f \in KernelIds}
                      IN  Cardinality(written) + Cardinality(inside(channel))
                            + Cardinality(inside(buffer)) <= 1
    BY DEF RecordsAtMostOnce
  <2> DEFINE H == Holding(channel, buffer, files)
             A == UNION {{f} \X {p \in DOMAIN files[f] : files[f][p] = r} : f \in KernelIds}
             B == {p \in DOMAIN channel : channel[p] = r}
             C == {p \in DOMAIN buffer : buffer[p] = r}
  <2>1. r # Flush
    <3>1. k \in KernelIds
      BY EnvTypes DEF Types, AppTypes, Kernels, KernelIds
    <3>2. pushed[k] \in Seq(Record)
      BY <3>1 DEF Types, QueueTypes
    <3>3. r \in Record
      BY <3>2, SetOfSequence
    <3> QED BY <3>3, FlushIsNoRecord
  <2>2. H[Channel] = channel /\ H[Batch] = buffer /\ \A h \in KernelIds : H[h] = files[h]
    BY HoldingIs
  <2>3. Once(H)
    BY DEF OnceInv
  <2> HIDE DEF H
  <2>4. ASSUME NEW h \in Holders, NEW g \in Holders, NEW p \in DOMAIN H[h], NEW q \in DOMAIN H[g],
               H[h][p] = r, H[g][q] = r
        PROVE  h = g /\ p = q
    <3>1. H[h][p] = H[g][q] /\ H[h][p] # Flush
      BY <2>1, <2>4
    <3> QED BY <2>3, <3>1 DEF Once
  <2>5. \A x \in A : /\ x[1] \in KernelIds /\ x = <<x[1], x[2]>>
                     /\ x[2] \in DOMAIN H[x[1]] /\ H[x[1]][x[2]] = r
    <3>1. ASSUME NEW x \in A
          PROVE  \E f \in KernelIds : \E p \in DOMAIN files[f] : x = <<f, p>> /\ files[f][p] = r
      OBVIOUS
    <3> HIDE DEF A
    <3>2. SUFFICES ASSUME NEW x \in A
                   PROVE  /\ x[1] \in KernelIds /\ x = <<x[1], x[2]>>
                          /\ x[2] \in DOMAIN H[x[1]] /\ H[x[1]][x[2]] = r
      OBVIOUS
    <3>3. PICK f \in KernelIds : \E p \in DOMAIN files[f] : x = <<f, p>> /\ files[f][p] = r
      BY <3>1
    <3>4. PICK p \in DOMAIN files[f] : x = <<f, p>> /\ files[f][p] = r
      BY <3>3
    <3>5. x[1] = f /\ x[2] = p
      BY <3>4
    <3> QED BY <2>2, <3>4, <3>5
  <2>6. \A p \in B : p \in DOMAIN H[Channel] /\ H[Channel][p] = r
    BY <2>2
  <2>7. \A p \in C : p \in DOMAIN H[Batch] /\ H[Batch][p] = r
    BY <2>2
  <2> HIDE DEF A, B, C
  <2>8. \A x, y \in A : x = y
    <3> SUFFICES ASSUME NEW x \in A, NEW y \in A PROVE x = y
      OBVIOUS
    <3>1. x[1] = y[1] /\ x[2] = y[2]
      BY <2>4, <2>5, HoldersAre
    <3> QED BY <2>5, <3>1
  <2>9. (\A x, y \in B : x = y) /\ (\A x, y \in C : x = y)
    BY <2>4, <2>6, <2>7, HoldersAre
  <2>10. (A # {} => B = {}) /\ (A # {} => C = {}) /\ (B # {} => C = {})
    <3>1. ASSUME NEW x \in A, NEW p \in B PROVE FALSE
      BY <2>4, <2>5, <2>6, HoldersAre
    <3>2. ASSUME NEW x \in A, NEW p \in C PROVE FALSE
      BY <2>4, <2>5, <2>7, HoldersAre
    <3>3. ASSUME NEW p \in B, NEW q \in C PROVE FALSE
      BY <2>4, <2>6, <2>7, HoldersAre
    <3> QED BY <3>1, <3>2, <3>3
  <2>11. Cardinality(A) + Cardinality(B) + Cardinality(C) <= 1
    BY <2>8, <2>9, <2>10, OneOfThree
  <2> QED BY <2>11 DEF A, B, C
<1> QED BY <1>1, TypesInit, TypesNext, OnceInit, OnceNext, PTL DEF Spec

-----------------------------------------------------------------------------
(* The list of kernels *)

\* With ACTIVE_FROM_START, a kernel whose number and name are in a range has
\* been listed when it was entered.
ListedInv ==
  ActiveFromStart =>
    \A k \in 1 .. kernelid - 1 :
      should_trace_kernel(k, names[k]) => \E i \in 1 .. Len(listed) : listed[i] = k

LEMMA ListedEnter ==
  ASSUME AppTypes, ListedInv, NEW name \in Names, enter_kernel_launch(name), env' = env
  PROVE  ListedInv'
<1>1. /\ kernelid' = kernelid + 1 /\ names' = Append(names, name)
      /\ IF RegionOnEnter(name) THEN listed' = Append(listed, kernelid) ELSE listed' = listed
  BY DEF enter_kernel_launch, NextKernelId
<1>2. /\ kernelid \in Nat /\ kernelid >= 1 /\ Len(names) = kernelid - 1
      /\ names'[kernelid] = name /\ \A k \in 1 .. kernelid - 1 : names'[k] = names[k]
  BY <1>1, AppendOne DEF AppTypes
<1>3. /\ Len(listed) \in Nat /\ Len(listed') \in Nat /\ Len(listed) <= Len(listed')
      /\ \A i \in 1 .. Len(listed) : listed'[i] = listed[i]
      /\ listed' = Append(listed, kernelid) =>
           Len(listed') = Len(listed) + 1 /\ listed'[Len(listed')] = kernelid
  <2>1. listed \in Seq(Nat) /\ Len(listed) \in Nat
    BY DEF AppTypes
  <2>2. CASE listed' = listed
    <3>1. Len(Append(listed, kernelid)) = Len(listed) + 1
      BY <1>2, <2>1, AppendOne
    <3>2. listed' # Append(listed, kernelid)
      BY <2>1, <2>2, <3>1
    <3> QED BY <2>1, <2>2, <3>2
  <2>3. CASE listed' = Append(listed, kernelid)
    BY <1>2, <2>1, <2>3, AppendOne
  <2> QED BY <1>1, <2>2, <2>3
<1> SUFFICES ASSUME ActiveFromStart', NEW k \in 1 .. kernelid' - 1,
                    should_trace_kernel(k, names[k])'
             PROVE  \E i \in 1 .. Len(listed') : listed'[i] = k
  BY DEF ListedInv
<1>4. ActiveFromStart /\ should_trace_kernel(k, names'[k])
  BY DEF ActiveFromStart, should_trace_kernel, Ranges
<1>5. CASE k = kernelid
  <2>1. RegionOnEnter(name)
    BY <1>2, <1>4, <1>5 DEF RegionOnEnter
  <2> QED BY <1>1, <1>3, <1>5, <2>1
<1>6. CASE k # kernelid
  <2>1. k \in 1 .. kernelid - 1
    BY <1>1, <1>2, <1>6
  <2>2. should_trace_kernel(k, names[k])
    BY <1>2, <1>4, <2>1
  <2>3. PICK i \in 1 .. Len(listed) : listed[i] = k
    BY <1>4, <2>1, <2>2 DEF ListedInv
  <2> QED BY <1>3, <2>3
<1> QED BY <1>5, <1>6

LEMMA ListedNext == AppTypes /\ ListedInv /\ [Next]_vars => ListedInv'
<1> SUFFICES ASSUME AppTypes, ListedInv, [Next]_vars PROVE ListedInv'
  OBVIOUS
<1>1. ASSUME NEW name \in Names, Launch(name) \/ Capture(name) PROVE ListedInv'
  <2>1. enter_kernel_launch(name) /\ env' = env
    BY <1>1 DEF Launch, Capture
  <2> QED BY <2>1, ListedEnter
<1>2. ASSUME UNCHANGED <<env, kernelid, names>>,
             listed' = listed \/ listed' = Append(listed, Copy)
      PROVE  ListedInv'
  <2>1. /\ Len(listed) \in Nat /\ Len(listed') \in Nat /\ Len(listed) <= Len(listed')
        /\ \A i \in 1 .. Len(listed) : listed'[i] = listed[i]
    <3>1. listed \in Seq(Nat) /\ Copy \in Nat
      BY DEF AppTypes, Copy
    <3> QED BY <1>2, <3>1, AppendOne
  <2> SUFFICES ASSUME ActiveFromStart', NEW k \in 1 .. kernelid' - 1,
                      should_trace_kernel(k, names[k])'
               PROVE  \E i \in 1 .. Len(listed') : listed'[i] = k
    BY DEF ListedInv
  <2>2. ActiveFromStart /\ k \in 1 .. kernelid - 1 /\ should_trace_kernel(k, names[k])
    BY <1>2 DEF ActiveFromStart, should_trace_kernel, Ranges
  <2>3. PICK i \in 1 .. Len(listed) : listed[i] = k
    BY <2>2 DEF ListedInv
  <2> QED BY <2>1, <2>3
<1>3. CASE \/ ExitAtLimit \/ GraphLaunch \/ FlushChannel \/ leave_kernel_launch
           \/ MemcpyHtoD \/ (\E b \in BOOLEAN : Profiler(b)) \/ CtxTerm \/ Join
  <2>1. /\ UNCHANGED <<env, kernelid, names>>
        /\ listed' = listed \/ listed' = Append(listed, Copy)
    BY <1>3, AppStep
  <2> QED BY <1>2, <2>1
<1>4. CASE Yield \/ Exited \/ UNCHANGED vars
  BY <1>2, <1>4 DEF Yield, Exited, vars, appVars
<1>5. CASE GpuNext
  BY <1>2, <1>5 DEF GpuNext, Push, appVars
<1>6. CASE RecvNext
  BY <1>2, <1>6 DEF RecvNext, Receive, ReceiveFlush, ReceiveRecord, ThreadReturns, appVars
<1> QED BY <1>1, <1>3, <1>4, <1>5, <1>6 DEF Next, AppNext

\* Every kernel of the ranges is listed although leave_kernel_launch closes the
\* region on the number of the next kernel and the name of the last: the region
\* is opened anew when a kernel of a range is entered.
THEOREM MatchingKernelsCorrect == Spec => []MatchingKernelsTraced
<1>1. Init => ListedInv
  BY DEF Init, ListedInv
<1>2. ListedInv => MatchingKernelsTraced
  BY DEF ListedInv, MatchingKernelsTraced, Kernels, Contains
<1>3. Types => AppTypes
  BY DEF Types
<1> QED BY <1>1, <1>2, <1>3, TypesInit, TypesNext, ListedNext, PTL DEF Spec


-----------------------------------------------------------------------------
(* The files of closed kernels *)

\* Records of a kernel are numbered in the order they were pushed.
Numbered(s) == \A m \in 1 .. Len(s) : s[m].n = m

\* The m-th element of what a kernel pushes, the flush record behind it.
Elem(s, m) == IF m <= Len(s) THEN s[m] ELSE Flush

\* Of the records s of a kernel, and the flush record when last is 1, the first d
\* have been dealt with, and the batch and the channel hold the others in order.
Pending(s, d, last, b, c) ==
  /\ d \in 0 .. Len(s) /\ last \in 0 .. 1
  /\ Len(b) + Len(c) = Len(s) + last - d
  /\ \A p \in 1 .. Len(b) : b[p] = Elem(s, d + p)
  /\ \A p \in 1 .. Len(c) : c[p] = Elem(s, d + Len(b) + p)

\* The spinlock instructions i of warp w among the first d records, since the
\* warp last executed anything else.
Since(s, d, w, i, spins) ==
  {m \in 1 .. d : /\ s[m].w = w /\ s[m].i = i
                  /\ \A o \in 1 .. d : s[o].w = w /\ s[o].i \notin spins => o < m}

CountsMatch(count, s, d, spins) ==
  \A w \in Warps : \A i \in Instrs :
    count[w][i] = IF i \in spins THEN Cardinality(Since(s, d, w, i, spins)) ELSE 0

ZeroCounts == counter = ZeroCounter /\ indices = NoIndices

\* A file f holds those of the first d records s that are to be kept, in order.
ExactOf(f, s, d, spins) ==
  /\ ToSet(f) = {s[m] : m \in {m \in 1 .. d : Kept(s, m, spins)}}
  /\ \A p, q \in 1 .. Len(f) : p < q => f[p].n < f[q].n

Spins(k) == SpinInstrs[names[k]]
Exact(k, d) == ExactOf(files[k], pushed[k], d, Spins(k))

\* No kernel is under way.
Calm ==
  /\ at \in {"host", "joining", "exited"}
  /\ channel = <<>> /\ buffer = <<>> /\ running = {} /\ ZeroCounts

\* The warps seen of kernel k were given its spinlock instructions.
IndicesOf(k) == \A w \in DOMAIN indices : indices[w] = Spins(k)

\* The last kernel entered is, and the receive thread has still to see its flush
\* record, or has seen it.
Under(k) ==
  /\ at \in {"launched", "waiting"} /\ k \in KernelIds /\ k \notin closed
  /\ current = names[k]
  /\ running = IF at = "launched" THEN {k} ELSE {}
  /\ IF stop_report THEN pushed[k] = <<>> ELSE open /\ resultsFile = k
Unfinished(k, d) ==
  /\ receiving
  /\ Pending(pushed[k], d, IF at = "waiting" THEN 1 ELSE 0, buffer, channel)
  /\ CountsMatch(counter, pushed[k], d, Spins(k)) /\ Exact(k, d) /\ IndicesOf(k)
Finished(k) ==
  /\ at = "waiting" /\ ~ receiving
  /\ channel = <<>> /\ buffer = <<>> /\ ZeroCounts /\ Exact(k, Len(pushed[k]))

FutureEmpty == \A k \in KernelIds : k >= kernelid => pushed[k] = <<>> /\ files[k] = <<>>
ClosedExact ==
  \A k \in closed : k \in KernelIds /\ k < kernelid /\ Exact(k, Len(pushed[k]))
UnderWay(k) == Under(k) /\ ((\E d \in Nat : Unfinished(k, d)) \/ Finished(k))
FilesInv ==
  /\ ~ stray /\ FutureEmpty /\ ClosedExact
  /\ Calm \/ UnderWay(kernelid - 1)

CounterTypes ==
  /\ graphLaunches \in Nat
  /\ counter \in [Warps -> [Instrs -> Nat]]
  /\ \A k \in KernelIds : Numbered(pushed[k])

ExactInv == CounterTypes /\ (graphLaunches = 0 => FilesInv)

-----------------------------------------------------------------------------
(* Counts and kept records *)

LEMMA SinceFinite ==
  ASSUME NEW s, NEW d \in Nat, NEW w, NEW i, NEW spins
  PROVE  IsFiniteSet(Since(s, d, w, i, spins)) /\ Cardinality(Since(s, d, w, i, spins)) \in Nat
<1>1. IsFiniteSet(1 .. d)
  BY FS_Interval
<1>2. Since(s, d, w, i, spins) \in SUBSET (1 .. d)
  BY DEF Since
<1> QED BY <1>1, <1>2, FS_Subset, FS_CardinalityType

\* The reference for a kept record is what Count has counted.
LEMMA KeptIsCounted ==
  ASSUME NEW s, NEW j \in Nat, NEW spins
  PROVE  Kept(s, j, spins) <=>
           Cardinality(Since(s, j, s[j].w, s[j].i, spins)) <= Keep \/ s[j].i \notin spins
<1> DEFINE other == {m \in 1 .. j : s[m].w = s[j].w /\ s[m].i \notin spins}
           since == {m \in 1 .. j : /\ \A o \in other : o < m
                                    /\ s[m].w = s[j].w /\ s[m].i = s[j].i}
<1>1. since = Since(s, j, s[j].w, s[j].i, spins)
  BY DEF Since
<1>2. Kept(s, j, spins) <=> Cardinality(since) <= Keep \/ s[j].i \notin spins
  BY DEF Kept
<1> QED BY <1>1, <1>2

\* Whether a record is kept does not depend on those that follow it.
LEMMA KeptOfPrefix ==
  ASSUME NEW s, NEW t, NEW j \in Nat, j >= 1, NEW spins, \A m \in 1 .. j : t[m] = s[m]
  PROVE  Kept(t, j, spins) <=> Kept(s, j, spins)
<1>1. Since(t, j, s[j].w, s[j].i, spins) = Since(s, j, s[j].w, s[j].i, spins)
  BY DEF Since
<1>2. t[j] = s[j]
  OBVIOUS
<1> QED BY <1>1, <1>2, KeptIsCounted

\* One more record of another warp.
LEMMA SinceOther ==
  ASSUME NEW s, NEW d \in Nat, NEW w, NEW i, NEW spins, s[d + 1].w # w
  PROVE  Since(s, d + 1, w, i, spins) = Since(s, d, w, i, spins)
<1>1. 1 .. d + 1 = (1 .. d) \union {d + 1}
  OBVIOUS
<1> QED BY <1>1 DEF Since

\* One more record that is no spinlock instruction.
LEMMA SinceBroken ==
  ASSUME NEW s, NEW d \in Nat, NEW w, NEW i, NEW spins,
         s[d + 1].w = w, s[d + 1].i \notin spins
  PROVE  Since(s, d + 1, w, i, spins) = {}
<1>1. d + 1 \in 1 .. d + 1 /\ \A m \in 1 .. d + 1 : ~ (d + 1 < m)
  OBVIOUS
<1> QED BY <1>1 DEF Since

\* One more spinlock instruction.
LEMMA SinceSpin ==
  ASSUME NEW s, NEW d \in Nat, NEW w, NEW i, NEW spins,
         s[d + 1].w = w, s[d + 1].i \in spins
  PROVE  \A m : m \in Since(s, d + 1, w, i, spins) <=>
                  m \in Since(s, d, w, i, spins) \/ (m = d + 1 /\ s[d + 1].i = i)
<1>1. 1 .. d + 1 = (1 .. d) \union {d + 1} /\ \A m \in 1 .. d : m < d + 1
  OBVIOUS
<1>2. \A m \in 1 .. d :
        (\A o \in 1 .. d + 1 : s[o].w = w /\ s[o].i \notin spins => o < m) <=>
        (\A o \in 1 .. d : s[o].w = w /\ s[o].i \notin spins => o < m)
  BY <1>1
<1>3. \A o \in 1 .. d + 1 : s[o].w = w /\ s[o].i \notin spins => o < d + 1
  BY <1>1
<1> QED BY <1>1, <1>2, <1>3 DEF Since

\* Counting one more record keeps the counts right.
LEMMA CountStep ==
  ASSUME NEW count \in [Warps -> [Instrs -> Nat]], NEW s \in Seq(Record), NEW d \in Nat,
         d + 1 \in 1 .. Len(s), NEW spins \in SUBSET Instrs, CountsMatch(count, s, d, spins)
  PROVE  LET r == s[d + 1]
             c == Count(count[r.w], spins, r.i)
             new == [count EXCEPT ![r.w] = c]
         IN  /\ c \in [Instrs -> Nat] /\ new \in [Warps -> [Instrs -> Nat]]
             /\ CountsMatch(new, s, d + 1, spins)
             /\ FastForwarded(c, spins, r.i) <=> ~ Kept(s, d + 1, spins)
<1> DEFINE r == s[d + 1]
           c == Count(count[r.w], spins, r.i)
           new == [count EXCEPT ![r.w] = c]
<1>1. r \in Record
  OBVIOUS
<1>2. r.w \in Warps /\ r.i \in Instrs
  BY <1>1 DEF Record
<1>3. count[r.w] \in [Instrs -> Nat]
  BY <1>2
<1>4. c \in [Instrs -> Nat]
  BY <1>2, <1>3 DEF Count
<1>5. new \in [Warps -> [Instrs -> Nat]]
  BY <1>4
<1>6. ASSUME NEW i \in Instrs
      PROVE  c[i] = IF i \in spins THEN Cardinality(Since(s, d + 1, r.w, i, spins)) ELSE 0
  <2>1. count[r.w][i] = IF i \in spins THEN Cardinality(Since(s, d, r.w, i, spins)) ELSE 0
    BY <1>2 DEF CountsMatch
  <2>2. CASE r.i \notin spins
    <3>1. Since(s, d + 1, r.w, i, spins) = {}
      BY <2>2, SinceBroken
    <3>2. c[i] = 0
      BY <2>2 DEF Count
    <3> QED BY <3>1, <3>2, FS_EmptySet
  <2>3. CASE r.i \in spins /\ r.i # i
    <3>1. Since(s, d + 1, r.w, i, spins) = Since(s, d, r.w, i, spins)
      <4>1. s[d + 1].i \in spins /\ s[d + 1].i # i
        BY <2>3
      <4>2. \A m : m \in Since(s, d + 1, s[d + 1].w, i, spins) <=>
                     m \in Since(s, d, s[d + 1].w, i, spins)
        BY <4>1, SinceSpin
      <4> QED BY <4>2
    <3>2. c[i] = count[r.w][i]
      <4>1. c = [count[r.w] EXCEPT ![r.i] = @ + 1]
        BY <2>3 DEF Count
      <4> HIDE DEF c, r
      <4> QED BY <1>3, <2>3, <4>1
    <3> QED BY <2>1, <3>1, <3>2
  <2>4. CASE r.i \in spins /\ r.i = i
    <3>1. Since(s, d + 1, r.w, i, spins) = Since(s, d, r.w, i, spins) \union {d + 1}
      <4>1. s[d + 1].i \in spins /\ s[d + 1].i = i
        BY <2>4
      <4>2. Since(s, d + 1, s[d + 1].w, i, spins)
              = Since(s, d, s[d + 1].w, i, spins) \union {d + 1}
        BY ONLY d \in Nat, <4>1, SinceSpin
      <4> QED BY <4>2
    <3>2. c[i] = count[r.w][i] + 1
      <4>1. c = [count[r.w] EXCEPT ![r.i] = @ + 1]
        BY <2>4 DEF Count
      <4> HIDE DEF c, r
      <4> QED BY <1>3, <2>4, <4>1
    <3>3. d + 1 \notin Since(s, d, r.w, i, spins)
      BY DEF Since
    <3>4. Cardinality(Since(s, d, r.w, i, spins) \union {d + 1})
            = Cardinality(Since(s, d, r.w, i, spins)) + 1
      BY <3>3, SinceFinite, FS_AddElement
    <3> QED BY <2>1, <2>4, <3>1, <3>2, <3>4
  <2> QED BY <2>2, <2>3, <2>4
<1>7. CountsMatch(new, s, d + 1, spins)
  <2> SUFFICES ASSUME NEW w \in Warps, NEW i \in Instrs
               PROVE  new[w][i] = IF i \in spins THEN Cardinality(Since(s, d + 1, w, i, spins)) ELSE 0
    BY DEF CountsMatch
  <2>1. CASE w = r.w
    <3>1. new[w] = c
      BY <1>2, <2>1
    <3> HIDE DEF new, c
    <3> QED BY <1>6, <2>1, <3>1
  <2>2. CASE w # r.w
    <3>1. new[w] = count[w]
      BY <2>2
    <3>2. Since(s, d + 1, w, i, spins) = Since(s, d, w, i, spins)
      BY <2>2, SinceOther
    <3> HIDE DEF new, c
    <3> QED BY <3>1, <3>2 DEF CountsMatch
  <2> QED BY <2>1, <2>2
<1>8. FastForwarded(c, spins, r.i) <=> ~ Kept(s, d + 1, spins)
  <2>1. r.i \in spins => c[r.i] = Cardinality(Since(s, d + 1, r.w, r.i, spins))
    BY <1>2, <1>6
  <2>2. Kept(s, d + 1, spins) <=>
          Cardinality(Since(s, d + 1, r.w, r.i, spins)) <= Keep \/ r.i \notin spins
    BY KeptIsCounted
  <2>3. Cardinality(Since(s, d + 1, r.w, r.i, spins)) \in Nat /\ Keep \in Nat
    BY SinceFinite, TracerAssumption
  <2> HIDE DEF c, r
  <2> QED BY <2>1, <2>2, <2>3 DEF FastForwarded
<1> QED BY <1>4, <1>5, <1>7, <1>8

-----------------------------------------------------------------------------
(* Files *)

LEMMA ExactStart ==
  ASSUME NEW s, NEW spins
  PROVE  ExactOf(<<>>, s, 0, spins)
<1>1. DOMAIN <<>> = {} /\ 1 .. Len(<<>>) = {} /\ 1 .. 0 = {}
  OBVIOUS
<1> QED BY <1>1 DEF ExactOf, ToSet

\* What a file holds does not change when its kernel pushes one more record.
LEMMA ExactAppend ==
  ASSUME NEW s \in Seq(Record), NEW x \in Record, NEW d \in 0 .. Len(s), NEW spins, NEW f,
         ExactOf(f, s, d, spins)
  PROVE  ExactOf(f, Append(s, x), d, spins)
<1> DEFINE t == Append(s, x)
<1>1. \A m \in 1 .. d : t[m] = s[m]
  BY AppendOne
<1> HIDE DEF t
<1>2. \A m \in 1 .. d : Kept(t, m, spins) <=> Kept(s, m, spins)
  <2> TAKE m \in 1 .. d
  <2>1. m \in Nat /\ m >= 1 /\ \A o \in 1 .. m : t[o] = s[o]
    BY <1>1
  <2> QED BY <2>1, KeptOfPrefix
<1>3. {t[m] : m \in {m \in 1 .. d : Kept(t, m, spins)}}
        = {s[m] : m \in {m \in 1 .. d : Kept(s, m, spins)}}
  BY <1>1, <1>2
<1>4. ExactOf(f, t, d, spins)
  BY <1>3 DEF ExactOf
<1> QED BY <1>4 DEF t

\* A record that is to be kept is appended, another is not.
LEMMA ExactSkip ==
  ASSUME NEW s \in Seq(Record), NEW d \in Nat, d + 1 \in 1 .. Len(s), NEW spins, NEW f,
         ExactOf(f, s, d, spins), ~ Kept(s, d + 1, spins)
  PROVE  ExactOf(f, s, d + 1, spins)
<1>1. 1 .. d + 1 = (1 .. d) \union {d + 1}
  OBVIOUS
<1>2. {m \in 1 .. d + 1 : Kept(s, m, spins)} = {m \in 1 .. d : Kept(s, m, spins)}
  BY <1>1
<1> QED BY <1>2 DEF ExactOf

LEMMA ExactWrite ==
  ASSUME NEW s \in Seq(Record), Numbered(s), NEW d \in Nat, d + 1 \in 1 .. Len(s),
         NEW spins, NEW f \in Seq(Record),
         ExactOf(f, s, d, spins), Kept(s, d + 1, spins)
  PROVE  ExactOf(Append(f, s[d + 1]), s, d + 1, spins)
<1> DEFINE g == Append(f, s[d + 1])
           kept == {m \in 1 .. d : Kept(s, m, spins)}
<1>1. 1 .. d + 1 = (1 .. d) \union {d + 1} /\ Len(s) \in Nat /\ s[d + 1] \in Record
  OBVIOUS
<1>2. {m \in 1 .. d + 1 : Kept(s, m, spins)} = kept \union {d + 1}
  BY <1>1
<1>3. /\ Len(f) \in Nat /\ DOMAIN f = 1 .. Len(f) /\ Len(g) = Len(f) + 1
      /\ DOMAIN g = 1 .. Len(f) + 1 /\ g[Len(f) + 1] = s[d + 1]
      /\ \A p \in 1 .. Len(f) : g[p] = f[p]
  BY <1>1, AppendOne
<1>4. ToSet(f) = {s[m] : m \in kept} /\ \A p, q \in 1 .. Len(f) : p < q => f[p].n < f[q].n
  BY DEF ExactOf
<1> HIDE DEF g
<1>5. ToSet(g) = ToSet(f) \union {s[d + 1]}
  BY <1>3 DEF ToSet
<1>6. ToSet(g) = {s[m] : m \in kept \union {d + 1}}
  BY <1>4, <1>5
<1>7. ASSUME NEW p \in 1 .. Len(g), NEW q \in 1 .. Len(g), p < q PROVE g[p].n < g[q].n
  <2>1. p \in 1 .. Len(f) /\ g[p] = f[p]
    BY <1>3, <1>7
  <2>2. CASE q \in 1 .. Len(f)
    <3>1. f[p].n < f[q].n
      BY <1>4, <1>7, <2>1, <2>2
    <3> QED BY <1>3, <2>1, <2>2, <3>1
  <2>3. CASE q = Len(f) + 1
    <3>1. f[p] \in ToSet(f)
      BY <1>3, <2>1 DEF ToSet
    <3>2. PICK m \in kept : f[p] = s[m]
      BY <1>4, <3>1
    <3>3. m \in 1 .. Len(s) /\ m < d + 1
      BY <1>1, <3>2
    <3>4. s[m].n = m /\ s[d + 1].n = d + 1
      BY <3>3 DEF Numbered
    <3> QED BY <1>3, <2>1, <2>3, <3>2, <3>3, <3>4
  <2> QED BY <1>3, <2>2, <2>3
<1>8. ExactOf(g, s, d + 1, spins)
  BY <1>2, <1>6, <1>7 DEF ExactOf
<1> QED BY <1>8 DEF g

\* A file that holds what is to be kept of all records is what is promised.
LEMMA ExactDone ==
  ASSUME NEW s \in Seq(Record), Numbered(s), NEW spins, NEW f \in Seq(Record),
         ExactOf(f, s, Len(s), spins)
  PROVE  /\ ToSet(f) = {r \in ToSet(s) : Kept(s, r.n, spins)}
         /\ \A p, q \in DOMAIN f : p < q => f[p].n < f[q].n
<1>1. DOMAIN s = 1 .. Len(s) /\ DOMAIN f = 1 .. Len(f)
  OBVIOUS
<1>2. \A m \in 1 .. Len(s) : s[m].n = m
  BY DEF Numbered
<1>3. {s[m] : m \in {m \in 1 .. Len(s) : Kept(s, m, spins)}}
        = {r \in ToSet(s) : Kept(s, r.n, spins)}
  BY <1>1, <1>2 DEF ToSet
<1> QED BY <1>1, <1>3 DEF ExactOf

-----------------------------------------------------------------------------
(* What is under way *)

LEMMA PendingStart == Pending(<<>>, 0, 0, <<>>, <<>>)
<1>1. Len(<<>>) = 0
  OBVIOUS
<1> QED BY <1>1 DEF Pending

LEMMA PendingPush ==
  ASSUME NEW s \in Seq(Record), NEW d, NEW b \in Seq(Item), NEW c \in Seq(Item),
         NEW x \in Record, Pending(s, d, 0, b, c)
  PROVE  Pending(Append(s, x), d, 0, b, Append(c, x))
<1> DEFINE t == Append(s, x)
           e == Append(c, x)
<1>1. /\ Len(s) \in Nat /\ Len(t) = Len(s) + 1 /\ t[Len(s) + 1] = x
      /\ \A m \in 1 .. Len(s) : t[m] = s[m]
  BY AppendOne
<1>2. /\ Len(c) \in Nat /\ Len(e) = Len(c) + 1 /\ e[Len(c) + 1] = x
      /\ \A m \in 1 .. Len(c) : e[m] = c[m]
  BY AppendOne, FlushIsNoRecord
<1>3. Len(b) \in Nat
  OBVIOUS
<1> HIDE DEF t, e
<1>4. /\ d \in 0 .. Len(s) /\ Len(b) + Len(c) = Len(s) - d
      /\ \A p \in 1 .. Len(b) : b[p] = Elem(s, d + p)
      /\ \A p \in 1 .. Len(c) : c[p] = Elem(s, d + Len(b) + p)
  BY <1>1, <1>2, <1>3 DEF Pending
<1>0. /\ d \in Nat /\ Len(s) \in Nat /\ Len(b) \in Nat /\ Len(c) \in Nat
      /\ Len(b) + Len(c) = Len(s) - d /\ d <= Len(s)
  BY <1>1, <1>2, <1>3, <1>4
<1>5. \A m \in 1 .. Len(s) : Elem(t, m) = Elem(s, m)
  BY <1>1 DEF Elem
<1>6. \A p \in 1 .. Len(b) : b[p] = Elem(t, d + p)
  BY <1>1, <1>2, <1>3, <1>4, <1>5
<1>7. ASSUME NEW p \in 1 .. Len(e) PROVE e[p] = Elem(t, d + Len(b) + p)
  <2>1. CASE p \in 1 .. Len(c)
    <3>1. d + Len(b) + p \in 1 .. Len(s)
      BY <1>1, <1>2, <1>3, <1>4, <2>1
    <3> QED BY <1>2, <1>4, <1>5, <2>1, <3>1
  <2>2. CASE p = Len(c) + 1
    <3>1. d + Len(b) + p = Len(s) + 1
      BY <1>0, <2>2
    <3> QED BY <1>1, <1>2, <2>2, <3>1 DEF Elem
  <2> QED BY <1>2, <2>1, <2>2
<1>8. d \in 0 .. Len(t) /\ Len(b) + Len(e) = Len(t) + 0 - d
  <2>1. Len(t) = Len(s) + 1 /\ Len(e) = Len(c) + 1
    BY <1>1, <1>2
  <2>2. d \in 0 .. Len(s) + 1
    BY <1>0
  <2>3. Len(b) + (Len(c) + 1) = Len(s) + 1 + 0 - d
    BY <1>0
  <2> QED BY <2>1, <2>2, <2>3
<1>9. Pending(t, d, 0, b, e)
  BY <1>6, <1>7, <1>8 DEF Pending
<1> QED BY <1>9 DEF t, e

LEMMA PendingFlush ==
  ASSUME NEW s \in Seq(Record), NEW d, NEW b \in Seq(Item), NEW c \in Seq(Item),
         Pending(s, d, 0, b, c)
  PROVE  Pending(s, d, 1, b, Append(c, Flush))
<1> DEFINE e == Append(c, Flush)
<1>1. /\ Len(c) \in Nat /\ Len(e) = Len(c) + 1 /\ e[Len(c) + 1] = Flush
      /\ \A m \in 1 .. Len(c) : e[m] = c[m]
  BY AppendOne, FlushIsNoRecord
<1>2. Len(b) \in Nat /\ Len(s) \in Nat
  OBVIOUS
<1> HIDE DEF e
<1>3. /\ d \in 0 .. Len(s) /\ Len(b) + Len(c) = Len(s) - d
      /\ \A p \in 1 .. Len(b) : b[p] = Elem(s, d + p)
      /\ \A p \in 1 .. Len(c) : c[p] = Elem(s, d + Len(b) + p)
  BY <1>1, <1>2 DEF Pending
<1>4. ASSUME NEW p \in 1 .. Len(e) PROVE e[p] = Elem(s, d + Len(b) + p)
  <2>1. CASE p \in 1 .. Len(c)
    BY <1>1, <1>3, <2>1
  <2>2. CASE p = Len(c) + 1
    <3>1. d + Len(b) + p = Len(s) + 1 /\ ~ (Len(s) + 1 <= Len(s))
      BY <1>1, <1>2, <1>3, <2>2
    <3> QED BY <1>1, <2>2, <3>1 DEF Elem
  <2> QED BY <1>1, <2>1, <2>2
<1>5. Len(b) + Len(e) = Len(s) + 1 - d
  <2>1. Len(e) = Len(c) + 1 /\ Len(b) + Len(c) = Len(s) - d /\ Len(c) \in Nat /\ d \in Nat
    BY <1>1, <1>2, <1>3
  <2> QED BY <1>2, <2>1
<1>6. Pending(s, d, 1, b, e)
  BY <1>3, <1>4, <1>5 DEF Pending
<1> QED BY <1>6 DEF e

\* A batch is taken from the front of the channel.
LEMMA PendingReceive ==
  ASSUME NEW s \in Seq(Record), NEW d, NEW last, NEW c \in Seq(Item), NEW n \in 1 .. Len(c),
         Pending(s, d, last, <<>>, c)
  PROVE  Pending(s, d, last, SubSeq(c, 1, n), SubSeq(c, n + 1, Len(c)))
<1> DEFINE b == SubSeq(c, 1, n)
           e == SubSeq(c, n + 1, Len(c))
<1>1. Len(c) \in Nat /\ Len(s) \in Nat /\ Len(<<>>) = 0
  OBVIOUS
<1>2. Len(b) = n /\ \A p \in 1 .. n : b[p] = c[p]
  OBVIOUS
<1>3. Len(e) = Len(c) - n /\ \A p \in 1 .. Len(c) - n : e[p] = c[n + p]
  OBVIOUS
<1> HIDE DEF b, e
<1>4. /\ d \in 0 .. Len(s) /\ last \in 0 .. 1 /\ Len(c) = Len(s) + last - d
      /\ \A p \in 1 .. Len(c) : c[p] = Elem(s, d + p)
  BY <1>1 DEF Pending
<1>5. ASSUME NEW p \in 1 .. Len(b) PROVE b[p] = Elem(s, d + p)
  <2>1. p \in 1 .. n /\ p \in 1 .. Len(c)
    BY <1>1, <1>2
  <2> QED BY <1>2, <1>4, <2>1
<1>6. ASSUME NEW p \in 1 .. Len(e) PROVE e[p] = Elem(s, d + Len(b) + p)
  <2>1. n + p \in 1 .. Len(c) /\ d + (n + p) = d + n + p
    BY <1>1, <1>3, <1>4
  <2> QED BY <1>2, <1>3, <1>4, <2>1
<1>7. Len(b) + Len(e) = Len(s) + last - d
  BY <1>1, <1>2, <1>3, <1>4
<1>8. Pending(s, d, last, b, e)
  BY <1>4, <1>5, <1>6, <1>7 DEF Pending
<1> QED BY <1>8 DEF b, e

\* The next record of a batch is the next record of the kernel.
LEMMA PendingRecord ==
  ASSUME NEW s \in Seq(Record), NEW d, NEW last, NEW b \in Seq(Item), NEW c \in Seq(Item),
         Pending(s, d, last, b, c), b # <<>>, Head(b) # Flush
  PROVE  /\ d \in Nat /\ d + 1 \in 1 .. Len(s) /\ Head(b) = s[d + 1]
         /\ Pending(s, d + 1, last, Tail(b), c)
<1> DEFINE e == Tail(b)
<1>1. /\ Len(b) \in Nat /\ Len(b) >= 1 /\ Head(b) = b[1] /\ Len(e) = Len(b) - 1
      /\ \A i \in 1 .. Len(b) - 1 : e[i] = b[i + 1]
  BY TailOne
<1>2. Len(s) \in Nat /\ Len(c) \in Nat
  OBVIOUS
<1> HIDE DEF e
<1>3. /\ d \in 0 .. Len(s) /\ last \in 0 .. 1 /\ Len(b) + Len(c) = Len(s) + last - d
      /\ \A p \in 1 .. Len(b) : b[p] = Elem(s, d + p)
      /\ \A p \in 1 .. Len(c) : c[p] = Elem(s, d + Len(b) + p)
  BY DEF Pending
<1>4. b[1] = Elem(s, d + 1)
  BY <1>1, <1>3
<1>5. d + 1 <= Len(s) /\ b[1] = s[d + 1]
  BY <1>1, <1>4 DEF Elem
<1>6. d \in Nat /\ d + 1 \in 1 .. Len(s) /\ d + 1 \in 0 .. Len(s)
  BY <1>2, <1>3, <1>5
<1>7. ASSUME NEW p \in 1 .. Len(e) PROVE e[p] = Elem(s, d + 1 + p)
  <2>1. p + 1 \in 1 .. Len(b) /\ d + (p + 1) = d + 1 + p /\ p \in 1 .. Len(b) - 1
    BY <1>1, <1>6
  <2> QED BY <1>1, <1>3, <2>1
<1>8. ASSUME NEW p \in 1 .. Len(c) PROVE c[p] = Elem(s, d + 1 + Len(e) + p)
  <2>1. d + 1 + Len(e) + p = d + Len(b) + p
    BY <1>1, <1>2, <1>6
  <2> QED BY <1>3, <2>1
<1>9. Len(e) + Len(c) = Len(s) + last - (d + 1)
  BY <1>1, <1>2, <1>3, <1>6
<1>10. Pending(s, d + 1, last, e, c)
  BY <1>3, <1>6, <1>7, <1>8, <1>9 DEF Pending
<1> QED BY <1>1, <1>5, <1>6, <1>10 DEF e

\* When the flush record is seen there is nothing behind it.
LEMMA PendingEnd ==
  ASSUME NEW s \in Seq(Record), NEW d, NEW last, NEW b \in Seq(Item), NEW c \in Seq(Item),
         Pending(s, d, last, b, c), b # <<>>, Head(b) = Flush
  PROVE  d = Len(s) /\ last = 1 /\ c = <<>>
<1>1. Len(b) \in Nat /\ Len(b) >= 1 /\ Head(b) = b[1]
  BY TailOne
<1>2. Len(s) \in Nat /\ Len(c) \in Nat
  OBVIOUS
<1>3. /\ d \in 0 .. Len(s) /\ last \in 0 .. 1 /\ Len(b) + Len(c) = Len(s) + last - d
      /\ \A p \in 1 .. Len(b) : b[p] = Elem(s, d + p)
  BY DEF Pending
<1>4. Elem(s, d + 1) = Flush
  BY <1>1, <1>3
<1>5. ~ (d + 1 <= Len(s))
  <2> SUFFICES ASSUME d + 1 <= Len(s) PROVE FALSE
    OBVIOUS
  <2>1. d + 1 \in 1 .. Len(s)
    BY <1>2, <1>3
  <2>2. s[d + 1] \in Record /\ s[d + 1] = Flush
    BY <1>4, <2>1 DEF Elem
  <2> QED BY <2>2, FlushIsNoRecord
<1>6. d = Len(s) /\ last = 1 /\ Len(c) = 0
  BY <1>1, <1>2, <1>3, <1>5
<1>7. c = <<>>
  BY <1>6
<1> QED BY <1>6, <1>7

-----------------------------------------------------------------------------
(* The steps *)

LEMMA NumberedAppend ==
  ASSUME NEW s \in Seq(Record), NEW x \in Record, Numbered(s), x.n = Len(s) + 1
  PROVE  Numbered(Append(s, x))
BY AppendOne DEF Numbered

LEMMA NumberedNext ==
  ASSUME Types, [Next]_vars, \A k \in KernelIds : Numbered(pushed[k])
  PROVE  \A k \in KernelIds : Numbered(pushed'[k])
<1>1. CASE pushed' = pushed
  BY <1>1
<1>2. ASSUME NEW k \in KernelIds, NEW w \in Warps, NEW i \in Instrs,
             pushed' = [pushed EXCEPT ![k] = Append(pushed[k], NewRecord(k, w, i))]
      PROVE  \A j \in KernelIds : Numbered(pushed'[j])
  <2>1. pushed \in [KernelIds -> Seq(Record)] /\ NewRecord(k, w, i) \in Record
    BY NewRecordType DEF Types, QueueTypes
  <2>2. NewRecord(k, w, i).n = Len(pushed[k]) + 1
    BY DEF NewRecord
  <2>3. Numbered(Append(pushed[k], NewRecord(k, w, i)))
    BY <2>1, <2>2, NumberedAppend
  <2> TAKE j \in KernelIds
  <2>4. CASE j = k
    <3>1. pushed'[j] = Append(pushed[k], NewRecord(k, w, i))
      BY <1>2, <2>1, <2>4
    <3> QED BY <2>3, <3>1
  <2>5. CASE j # k
    <3>1. pushed'[j] = pushed[j]
      BY <1>2, <2>1, <2>5
    <3> QED BY <3>1
  <2> QED BY <2>4, <2>5
<1> QED BY <1>1, <1>2, DataSteps
        DEF Keeps, Flushes, Pushes, Receives, Drops, Handles

\* Counting keeps the type of the counts.
LEMMA CountType ==
  ASSUME NEW c \in [Instrs -> Nat], NEW spins, NEW i \in Instrs
  PROVE  Count(c, spins, i) \in [Instrs -> Nat]
BY DEF Count

LEMMA CounterNext ==
  ASSUME Types, [Next]_vars, graphLaunches \in Nat, counter \in [Warps -> [Instrs -> Nat]]
  PROVE  /\ graphLaunches' \in Nat /\ (graphLaunches' = 0 => graphLaunches = 0)
         /\ counter' \in [Warps -> [Instrs -> Nat]]
<1>1. ASSUME NEW name \in Names, Launch(name) \/ Capture(name)
      PROVE  UNCHANGED <<graphLaunches, counter>>
  BY <1>1 DEF Launch, Capture, recvVars
<1>2. CASE GraphLaunch
  BY <1>2 DEF GraphLaunch, recvVars
<1>3. CASE \/ ExitAtLimit \/ FlushChannel \/ leave_kernel_launch \/ Yield
           \/ MemcpyHtoD \/ (\E b \in BOOLEAN : Profiler(b)) \/ CtxTerm \/ Join \/ Exited
           \/ UNCHANGED vars
  BY <1>3 DEF ExitAtLimit, FlushChannel, leave_kernel_launch, Yield, MemcpyHtoD, Profiler,
              CtxTerm, Join, Exited, vars, appVars, recvVars
<1>4. CASE GpuNext
  BY <1>4 DEF GpuNext, Push, appVars, recvVars
<1>5. CASE (\E n \in 1 .. Len(channel) : Receive(n)) \/ ThreadReturns
  BY <1>5 DEF Receive, ThreadReturns, appVars
<1>6. CASE ReceiveFlush
  BY <1>6 DEF ReceiveFlush, ZeroCounter, appVars
<1>7. CASE ReceiveRecord
  <2>1. graphLaunches' = graphLaunches
    BY <1>7 DEF ReceiveRecord, appVars
  <2>2. Head(buffer) \in Record
    BY <1>7, RecordStep DEF Handles
  <2>3. Head(buffer).w \in Warps /\ Head(buffer).i \in Instrs
    BY <2>2 DEF Record
  <2> DEFINE r == Head(buffer)
             c == Count(counter[r.w], Indices(r.w), r.i)
  <2>4. c \in [Instrs -> Nat]
    BY <2>3, CountType
  <2>5. counter' = [counter EXCEPT ![r.w] = c]
    BY <1>7 DEF ReceiveRecord
  <2> HIDE DEF c
  <2>6. counter' \in [Warps -> [Instrs -> Nat]]
    BY <2>4, <2>5
  <2> QED BY <2>1, <2>6
<1> QED BY <1>1, <1>2, <1>3, <1>4, <1>5, <1>6, <1>7 DEF Next, AppNext, RecvNext

LEMMA CounterTypesNext == Types /\ CounterTypes /\ [Next]_vars => CounterTypes'
<1> SUFFICES ASSUME Types, CounterTypes, [Next]_vars PROVE CounterTypes'
  OBVIOUS
<1>1. /\ graphLaunches' \in Nat /\ counter' \in [Warps -> [Instrs -> Nat]]
      /\ \A k \in KernelIds : Numbered(pushed'[k])
  BY CounterNext, NumberedNext DEF CounterTypes
<1>2. \A k \in KernelIds : Numbered(pushed'[k]) <=> Numbered(pushed[k])'
  BY DEF Numbered
<1> QED BY <1>1, <1>2 DEF CounterTypes

\* Entering a kernel, or anything else of the application, leaves the files of
\* closed kernels as they were, and those of kernels to come empty.
LEMMA FilesKept ==
  ASSUME Types, FutureEmpty, ClosedExact, UNCHANGED <<files, pushed, closed>>,
         \/ UNCHANGED <<kernelid, names>>
         \/ kernelid' = kernelid + 1 /\ \E name \in Names : names' = Append(names, name)
  PROVE  FutureEmpty' /\ ClosedExact'
<1>1. /\ kernelid \in Nat /\ kernelid <= kernelid' /\ kernelid' \in Nat
      /\ \A k \in 1 .. kernelid - 1 : names'[k] = names[k]
  <2>1. kernelid \in Nat /\ names \in Seq(Names) /\ Len(names) = kernelid - 1
    BY DEF Types, AppTypes
  <2>2. CASE UNCHANGED <<kernelid, names>>
    BY <2>1, <2>2
  <2>3. ASSUME NEW name \in Names, kernelid' = kernelid + 1, names' = Append(names, name)
        PROVE  /\ kernelid <= kernelid' /\ kernelid' \in Nat
               /\ \A k \in 1 .. kernelid - 1 : names'[k] = names[k]
    BY <2>1, <2>3, AppendOne
  <2> QED BY <2>1, <2>2, <2>3
<1>2. ASSUME NEW k \in KernelIds, k >= kernelid' PROVE pushed'[k] = <<>> /\ files'[k] = <<>>
  <2>1. k \in Nat
    BY TracerAssumption DEF KernelIds
  <2> QED BY <1>1, <1>2, <2>1 DEF FutureEmpty
<1>3. ASSUME NEW k \in closed
      PROVE  /\ k \in KernelIds /\ k < kernelid'
             /\ ExactOf(files[k], pushed[k], Len(pushed[k]), SpinInstrs[names'[k]])
  <2>1. /\ k \in KernelIds /\ k < kernelid
        /\ ExactOf(files[k], pushed[k], Len(pushed[k]), SpinInstrs[names[k]])
    BY DEF ClosedExact, Exact, Spins
  <2>2. k \in Nat /\ k >= 1
    BY <2>1, TracerAssumption DEF KernelIds
  <2>3. k \in 1 .. kernelid - 1 /\ k < kernelid'
    BY <1>1, <2>1, <2>2
  <2>4. names'[k] = names[k]
    BY <1>1, <2>3
  <2> QED BY <2>1, <2>3, <2>4
<1>4. FutureEmpty'
  BY <1>2 DEF FutureEmpty, KernelIds
<1>5. ClosedExact'
  BY <1>3 DEF ClosedExact, Exact, Spins, KernelIds
<1> QED BY <1>4, <1>5

\* Between kernels nothing is under way.
LEMMA HostIsCalm ==
  ASSUME FilesInv, at \notin {"launched", "waiting"}
  PROVE  Calm
BY DEF FilesInv, UnderWay, Under

LEMMA CalmKept ==
  ASSUME Calm, UNCHANGED <<channel, buffer, running, counter, indices>>,
         at' \in {"host", "joining", "exited"}
  PROVE  Calm'
BY DEF Calm, ZeroCounts

\* The steps of the application between kernels.
LEMMA FilesHost ==
  ASSUME Types, FilesInv, at \notin {"launched", "waiting"},
         \/ ExitAtLimit \/ MemcpyHtoD \/ (\E b \in BOOLEAN : Profiler(b)) \/ CtxTerm \/ Join
         \/ (\E name \in Names : Capture(name))
  PROVE  FilesInv'
<1>1. CASE \/ ExitAtLimit \/ MemcpyHtoD \/ (\E b \in BOOLEAN : Profiler(b)) \/ CtxTerm \/ Join
  <2>1. /\ UNCHANGED <<kernelid, names, closed>>
        /\ UNCHANGED <<files, pushed, stray, channel, buffer, running, counter, indices>>
        /\ at' \in {"host", "joining", "exited"}
    <3>1. CASE ExitAtLimit
      BY <3>1 DEF ExitAtLimit, gpuVars, recvVars
    <3>2. CASE MemcpyHtoD
      BY <3>2 DEF MemcpyHtoD, gpuVars, recvVars
    <3>3. CASE \E b \in BOOLEAN : Profiler(b)
      BY <3>3 DEF Profiler, gpuVars, recvVars
    <3>4. CASE CtxTerm
      BY <3>4 DEF CtxTerm, gpuVars, recvVars
    <3>5. CASE Join
      BY <3>5 DEF Join, gpuVars, recvVars
    <3> QED BY <1>1, <3>1, <3>2, <3>3, <3>4, <3>5
  <2>2. FutureEmpty' /\ ClosedExact'
    BY <2>1, FilesKept DEF FilesInv
  <2>3. Calm'
    BY <2>1, HostIsCalm, CalmKept
  <2> QED BY <2>1, <2>2, <2>3 DEF FilesInv
<1>2. ASSUME NEW name \in Names, Capture(name) PROVE FilesInv'
  <2>1. /\ kernelid' = kernelid + 1 /\ names' = Append(names, name)
        /\ UNCHANGED <<files, pushed, closed, stray, channel, buffer, running, counter, indices>>
        /\ at' = "host"
    BY <1>2 DEF Capture, enter_kernel_launch, NextKernelId, gpuVars, recvVars
  <2>2. FutureEmpty' /\ ClosedExact'
    BY <2>1, FilesKept DEF FilesInv
  <2>3. Calm'
    BY <2>1, HostIsCalm, CalmKept
  <2> QED BY <2>1, <2>2, <2>3 DEF FilesInv
<1> QED BY <1>1, <1>2

\* The counts of a kernel that has pushed nothing.
LEMMA ZeroMatches ==
  ASSUME NEW count, NEW s, NEW spins, count = ZeroCounter
  PROVE  CountsMatch(count, s, 0, spins)
<1>1. \A w \in Warps, i \in Instrs : Since(s, 0, w, i, spins) = {}
  BY DEF Since
<1>2. \A w \in Warps, i \in Instrs : count[w][i] = 0
  BY DEF ZeroCounter
<1> QED BY <1>1, <1>2, FS_EmptySet DEF CountsMatch

\* A launch starts a kernel of which nothing has been pushed or written.
LEMMA FilesLaunch ==
  ASSUME Types, FilesInv, NEW name \in Names, Launch(name)
  PROVE  FilesInv'
<1>1. /\ kernelid' = kernelid + 1 /\ names' = Append(names, name) /\ current' = name
      /\ UNCHANGED <<files, pushed, closed, stray, channel, buffer, counter, indices>>
      /\ at = "host" /\ at' = "launched" /\ running' = {kernelid} /\ receiving'
      /\ kernelid <= MaxKernels
      /\ ~ stop_report' => open' /\ resultsFile' = kernelid
  BY DEF Launch, enter_kernel_launch, NextKernelId, recvVars
<1>2. FutureEmpty' /\ ClosedExact'
  BY <1>1, FilesKept DEF FilesInv
<1>3. /\ Calm /\ ~ stray
  BY <1>1, HostIsCalm DEF FilesInv
<1>4. PICK k \in KernelIds : k = kernelid /\ k \in Nat /\ kernelid' - 1 = k /\ names'[k] = name
  <2>1. /\ kernelid \in Nat /\ kernelid >= 1 /\ names \in Seq(Names) /\ Len(names) = kernelid - 1
        /\ MaxKernels \in 0 .. NumKernels /\ NumKernels \in Nat
    BY EnvTypes DEF Types, AppTypes
  <2> QED BY <1>1, <2>1, AppendOne DEF KernelIds
<1>5. pushed[k] = <<>> /\ files[k] = <<>> /\ k \notin closed
  <2>1. k >= kernelid /\ ~ (k < kernelid)
    BY <1>4
  <2> QED BY <1>4, <2>1 DEF FilesInv, FutureEmpty, ClosedExact
<1>6. Under(k)'
  BY <1>1, <1>4, <1>5 DEF Under, KernelIds
<1>7. CountsMatch(counter, <<>>, 0, SpinInstrs[name])
  BY <1>3, ZeroMatches DEF Calm, ZeroCounts
<1>8. Pending(<<>>, 0, 0, buffer, channel)
  BY <1>3, PendingStart DEF Calm
<1>9. ExactOf(<<>>, <<>>, 0, SpinInstrs[name])
  BY ExactStart
<1>12. DOMAIN indices = {}
  BY <1>3 DEF Calm, ZeroCounts, NoIndices
<1>10. Unfinished(k, 0)'
  BY <1>1, <1>12, <1>4, <1>5, <1>7, <1>8, <1>9 DEF Unfinished, Exact, IndicesOf, Spins
<1>11. UnderWay(kernelid - 1)'
  BY <1>4, <1>6, <1>10 DEF UnderWay
<1> QED BY <1>1, <1>2, <1>3, <1>11 DEF FilesInv

\* A kernel that is under way is the last one entered.
LEMMA UnderLast ==
  ASSUME Types, FilesInv, ~ Calm
  PROVE  \E k \in KernelIds : /\ k = kernelid - 1 /\ UnderWay(k)
                              /\ files[k] \in Seq(Record) /\ pushed[k] \in Seq(Record)
<1>1. UnderWay(kernelid - 1) /\ kernelid - 1 \in KernelIds
  BY DEF FilesInv, UnderWay, Under
<1> QED BY <1>1 DEF Types, QueueTypes

\* The kernel that is under way stays the one that is.
LEMMA UnderKept ==
  ASSUME NEW k, Under(k), at' = at,
         UNCHANGED <<closed, current, names, running, stop_report, open, resultsFile>>,
         pushed'[k] = pushed[k] \/ ~ stop_report
  PROVE  Under(k)'
BY DEF Under, KernelIds

\* The device is idle: the flush record follows all the kernel has pushed.
LEMMA FilesFlush ==
  ASSUME Types, FilesInv, FlushChannel
  PROVE  FilesInv'
<1>1. /\ UNCHANGED <<kernelid, names, current, resultsFile, stop_report, open, closed>>
      /\ UNCHANGED <<files, pushed, stray, buffer, counter, indices, receiving>>
      /\ at \in {"launched", "graph"} /\ running' = {} /\ channel' = Append(channel, Flush)
      /\ at = "launched" => at' = "waiting"
  BY DEF FlushChannel, recvVars
<1>2. ~ Calm
  BY <1>1 DEF Calm
<1>3. PICK k \in KernelIds : /\ k = kernelid - 1 /\ UnderWay(k)
                             /\ files[k] \in Seq(Record) /\ pushed[k] \in Seq(Record)
  BY <1>2, UnderLast
<1>4. at = "launched" /\ at' = "waiting"
  BY <1>1, <1>3 DEF UnderWay, Under
<1>5. PICK d \in Nat : Unfinished(k, d)
  BY <1>3, <1>4 DEF UnderWay, Finished
<1>6. Pending(pushed[k], d, 0, buffer, channel)
  BY <1>4, <1>5 DEF Unfinished
<1>7. Pending(pushed[k], d, 1, buffer, Append(channel, Flush))
  BY <1>3, <1>6, PendingFlush DEF Types, QueueTypes
<1>8. Unfinished(k, d)'
  BY <1>1, <1>4, <1>5, <1>7 DEF Unfinished, Exact, IndicesOf, Spins
<1>9. Under(k)'
  BY <1>1, <1>3, <1>4 DEF UnderWay, Under, KernelIds
<1>10. UnderWay(kernelid - 1)'
  BY <1>1, <1>3, <1>8, <1>9 DEF UnderWay
<1>11. FutureEmpty' /\ ClosedExact'
  BY <1>1, FilesKept DEF FilesInv
<1> QED BY <1>1, <1>10, <1>11 DEF FilesInv

\* The wait is over only when the receive thread has seen the flush record.
LEMMA FilesLeave ==
  ASSUME Types, FilesInv, leave_kernel_launch
  PROVE  FilesInv'
<1>1. /\ UNCHANGED <<kernelid, names, resultsFile, stop_report>>
      /\ UNCHANGED <<files, pushed, stray, buffer, counter, indices, channel, running>>
      /\ at = "waiting" /\ ~ receiving /\ at' = "host"
      /\ closed' = IF stop_report THEN closed ELSE closed \union {resultsFile}
  BY DEF leave_kernel_launch, WaitOver, recvVars, gpuVars
<1>2. ~ Calm
  BY <1>1 DEF Calm
<1>3. PICK k \in KernelIds : /\ k = kernelid - 1 /\ UnderWay(k)
                             /\ files[k] \in Seq(Record) /\ pushed[k] \in Seq(Record)
  BY <1>2, UnderLast
<1>4. Finished(k)
  BY <1>1, <1>3 DEF UnderWay, Unfinished
<1>5. running = {} /\ (~ stop_report => resultsFile = k)
  BY <1>1, <1>3 DEF UnderWay, Under
<1>6. Calm'
  BY <1>1, <1>4, <1>5 DEF Finished, Calm, ZeroCounts
<1>7. FutureEmpty'
  BY <1>1 DEF FilesInv, FutureEmpty, KernelIds
<1>8. k < kernelid
  BY <1>3 DEF Types, AppTypes
<1>9. \A j \in closed' : j \in closed \/ j = k
  BY <1>1, <1>5
<1>10. \A j \in closed' : j \in KernelIds /\ j < kernelid /\ Exact(j, Len(pushed[j]))
  BY <1>4, <1>8, <1>9 DEF FilesInv, ClosedExact, Finished
<1>11. ClosedExact'
  BY <1>1, <1>10 DEF ClosedExact, Exact, Spins, KernelIds
<1> QED BY <1>1, <1>6, <1>7, <1>11 DEF FilesInv

\* The counts and the files of the other kernels do not change when one pushes.
LEMMA MatchAppend ==
  ASSUME NEW s \in Seq(Record), NEW x \in Record, NEW d \in 0 .. Len(s), NEW spins,
         NEW count, CountsMatch(count, s, d, spins)
  PROVE  CountsMatch(count, Append(s, x), d, spins)
<1> DEFINE t == Append(s, x)
<1>1. \A m \in 1 .. d : t[m] = s[m]
  BY AppendOne
<1> HIDE DEF t
<1>2. \A w, i : Since(t, d, w, i, spins) = Since(s, d, w, i, spins)
  BY <1>1 DEF Since
<1>3. CountsMatch(count, t, d, spins)
  BY <1>2 DEF CountsMatch
<1> QED BY <1>3 DEF t

LEMMA FilesPush ==
  ASSUME Types, FilesInv, NEW j \in KernelIds, NEW w \in Warps, NEW i \in Instrs, Push(j, w, i)
  PROVE  FilesInv'
<1> DEFINE x == NewRecord(j, w, i)
<1>1. /\ UNCHANGED <<kernelid, names, current, resultsFile, stop_report, open, closed, at>>
      /\ UNCHANGED <<files, stray, buffer, counter, indices, receiving, running>>
      /\ j \in running /\ ~ stop_report
      /\ channel' = Append(channel, x) /\ pushed' = [pushed EXCEPT ![j] = Append(pushed[j], x)]
  BY DEF Push, NewRecord, appVars, recvVars
<1>2. x \in Record
  BY NewRecordType DEF Types
<1> HIDE DEF x
<1>3. ~ Calm
  BY <1>1 DEF Calm
<1>4. PICK k \in KernelIds : /\ k = kernelid - 1 /\ UnderWay(k)
                             /\ files[k] \in Seq(Record) /\ pushed[k] \in Seq(Record)
  BY <1>3, UnderLast
<1>5. k = j /\ at = "launched" /\ k \notin closed
  BY <1>1, <1>4 DEF UnderWay, Under
<1>6. /\ pushed'[k] = Append(pushed[k], x)
      /\ \A o \in KernelIds : o # k => pushed'[o] = pushed[o]
  BY <1>1, <1>5 DEF Types, QueueTypes
<1>7. PICK d \in Nat : Unfinished(k, d)
  BY <1>4, <1>5 DEF UnderWay, Finished
<1>8. Pending(pushed[k], d, 0, buffer, channel)
  BY <1>5, <1>7 DEF Unfinished
<1>9. d \in 0 .. Len(pushed[k])
  BY <1>8 DEF Pending
<1>10. Pending(Append(pushed[k], x), d, 0, buffer, Append(channel, x))
  BY <1>2, <1>4, <1>8, PendingPush DEF Types, QueueTypes
<1>11. CountsMatch(counter, Append(pushed[k], x), d, Spins(k))
  BY <1>2, <1>4, <1>7, <1>9, MatchAppend DEF Unfinished
<1>12. ExactOf(files[k], Append(pushed[k], x), d, Spins(k))
  BY <1>2, <1>4, <1>7, <1>9, ExactAppend DEF Unfinished, Exact
<1>13. Unfinished(k, d)'
  BY <1>1, <1>5, <1>6, <1>7, <1>10, <1>11, <1>12 DEF Unfinished, Exact, IndicesOf, Spins
<1>14. Under(k)'
  BY <1>1, <1>4, UnderKept DEF UnderWay
<1>15. UnderWay(kernelid - 1)'
  BY <1>1, <1>4, <1>13, <1>14 DEF UnderWay
<1>16. FutureEmpty'
  <2>1. ~ (k >= kernelid)
    BY <1>4 DEF Types, AppTypes
  <2>2. \A o \in KernelIds : o >= kernelid => pushed'[o] = <<>> /\ files[o] = <<>>
    BY <1>6, <2>1 DEF FilesInv, FutureEmpty
  <2> QED BY <1>1, <2>2 DEF FutureEmpty, KernelIds
<1>17. ClosedExact'
  <2>1. \A o \in closed : o \in KernelIds /\ o < kernelid /\ pushed'[o] = pushed[o]
                          /\ Exact(o, Len(pushed[o]))
    BY <1>5, <1>6 DEF FilesInv, ClosedExact
  <2> QED BY <1>1, <2>1 DEF ClosedExact, Exact, Spins, KernelIds
<1> QED BY <1>1, <1>15, <1>16, <1>17 DEF FilesInv

LEMMA FilesReceive ==
  ASSUME Types, FilesInv, NEW n \in 1 .. Len(channel), Receive(n)
  PROVE  FilesInv'
<1>1. /\ UNCHANGED <<kernelid, names, current, resultsFile, stop_report, open, closed, at>>
      /\ UNCHANGED <<files, pushed, stray, counter, indices, receiving, running>>
      /\ buffer = <<>> /\ buffer' = SubSeq(channel, 1, n)
      /\ channel' = SubSeq(channel, n + 1, Len(channel))
  BY DEF Receive, appVars, gpuVars
<1>2. channel # <<>>
  OBVIOUS
<1>3. ~ Calm
  BY <1>2 DEF Calm
<1>4. PICK k \in KernelIds : /\ k = kernelid - 1 /\ UnderWay(k)
                             /\ files[k] \in Seq(Record) /\ pushed[k] \in Seq(Record)
  BY <1>3, UnderLast
<1>5. PICK d \in Nat : Unfinished(k, d)
  BY <1>2, <1>4 DEF UnderWay, Finished
<1>6. PICK last \in 0 .. 1 : /\ last = (IF at = "waiting" THEN 1 ELSE 0)
                             /\ Pending(pushed[k], d, last, <<>>, channel)
  BY <1>1, <1>5 DEF Unfinished
<1>7. Pending(pushed[k], d, last, buffer', channel')
  BY <1>1, <1>4, <1>6, PendingReceive DEF Types, QueueTypes
<1>8. Unfinished(k, d)'
  BY <1>1, <1>5, <1>6, <1>7 DEF Unfinished, Exact, IndicesOf, Spins
<1>9. Under(k)'
  BY <1>1, <1>4, UnderKept DEF UnderWay
<1>10. UnderWay(kernelid - 1)'
  BY <1>1, <1>4, <1>8, <1>9 DEF UnderWay
<1>11. FutureEmpty' /\ ClosedExact'
  BY <1>1, FilesKept DEF FilesInv
<1> QED BY <1>1, <1>10, <1>11 DEF FilesInv

\* When the receive thread sees the flush record, it has seen everything.
LEMMA FilesSeen ==
  ASSUME Types, FilesInv, ReceiveFlush
  PROVE  FilesInv'
<1>1. /\ UNCHANGED <<kernelid, names, current, resultsFile, stop_report, open, closed, at>>
      /\ UNCHANGED <<files, pushed, stray, channel, running>>
      /\ buffer # <<>> /\ Head(buffer) = Flush /\ buffer' = <<>> /\ ~ receiving'
      /\ counter' = ZeroCounter /\ indices' = NoIndices
  BY DEF ReceiveFlush, ReceivingAfterFlush, appVars, gpuVars
<1>2. ~ Calm
  BY <1>1 DEF Calm
<1>3. PICK k \in KernelIds : /\ k = kernelid - 1 /\ UnderWay(k)
                             /\ files[k] \in Seq(Record) /\ pushed[k] \in Seq(Record)
  BY <1>2, UnderLast
<1>4. PICK d \in Nat : Unfinished(k, d)
  BY <1>1, <1>3 DEF UnderWay, Finished
<1>5. PICK last \in 0 .. 1 : /\ last = (IF at = "waiting" THEN 1 ELSE 0)
                             /\ Pending(pushed[k], d, last, buffer, channel)
  BY <1>4 DEF Unfinished
<1>6. d = Len(pushed[k]) /\ last = 1 /\ channel = <<>>
  BY <1>1, <1>3, <1>5, PendingEnd DEF Types, QueueTypes
<1>7. Finished(k)'
  BY <1>1, <1>4, <1>5, <1>6 DEF Unfinished, Finished, ZeroCounts, Exact, Spins
<1>8. Under(k)'
  BY <1>1, <1>3, UnderKept DEF UnderWay
<1>9. UnderWay(kernelid - 1)'
  BY <1>1, <1>3, <1>7, <1>8 DEF UnderWay
<1>10. FutureEmpty' /\ ClosedExact'
  BY <1>1, FilesKept DEF FilesInv
<1> QED BY <1>1, <1>9, <1>10 DEF FilesInv

\* A record goes to the file of its kernel, or is one that is to be left out.
LEMMA FilesRecord ==
  ASSUME Types, CounterTypes, FilesInv, ReceiveRecord
  PROVE  FilesInv'
<1> DEFINE r == Head(buffer)
           spins == Indices(r.w)
           c == Count(counter[r.w], spins, r.i)
           skip == FastForwarded(c, spins, r.i)
<1>1. /\ UNCHANGED <<kernelid, names, current, resultsFile, stop_report, open, closed, at>>
      /\ UNCHANGED <<pushed, channel, running, receiving>>
      /\ buffer # <<>> /\ r # Flush /\ buffer' = Tail(buffer)
      /\ counter' = [counter EXCEPT ![r.w] = c]
      /\ indices' = [w \in DOMAIN indices \union {r.w} |-> Indices(w)]
  BY DEF ReceiveRecord, RestOfBatch, appVars, gpuVars
<1>2. /\ files' = IF skip \/ ~ open THEN files
                  ELSE [files EXCEPT ![resultsFile] = Append(files[resultsFile], r)]
      /\ stray' = (stray \/ (~ skip /\ ~ open))
  BY DEF ReceiveRecord
<1>3. ~ Calm
  BY <1>1 DEF Calm
<1>4. PICK k \in KernelIds : /\ k = kernelid - 1 /\ UnderWay(k)
                             /\ files[k] \in Seq(Record) /\ pushed[k] \in Seq(Record)
  BY <1>3, UnderLast
<1>5. PICK d \in Nat : Unfinished(k, d)
  BY <1>1, <1>4 DEF UnderWay, Finished
<1>6. PICK last \in 0 .. 1 : /\ last = (IF at = "waiting" THEN 1 ELSE 0)
                             /\ Pending(pushed[k], d, last, buffer, channel)
  BY <1>5 DEF Unfinished
<1>7. /\ d + 1 \in 1 .. Len(pushed[k]) /\ r = pushed[k][d + 1]
      /\ Pending(pushed[k], d + 1, last, Tail(buffer), channel)
  BY <1>1, <1>4, <1>6, PendingRecord DEF Types, QueueTypes
<1>8. /\ current = names[k] /\ open /\ resultsFile = k /\ k \notin closed
  <2>1. pushed[k] # <<>>
    BY <1>7
  <2> QED BY <1>4, <2>1 DEF UnderWay, Under
<1>9. spins = Spins(k) /\ spins \in SUBSET Instrs
  <2>1. current \in Names /\ \A name \in Names : SpinInstrs[name] \subseteq Instrs
    BY EnvTypes DEF Types, AppTypes
  <2>2. SpinInstrs[current] = Spins(k)
    BY <1>8 DEF Spins
  <2>3. Indices(r.w) = Spins(k)
    BY <1>5, <2>2 DEF Unfinished, IndicesOf, Indices
  <2> QED BY <2>1, <2>2, <2>3
<1>21. IndicesOf(k)'
  <2>1. \A w \in DOMAIN indices' : indices'[w] = Indices(w)
    BY <1>1
  <2>2. \A w : Indices(w) = Spins(k)
    BY <1>5, <1>8 DEF Unfinished, IndicesOf, Indices, Spins
  <2> QED BY <1>1, <2>1, <2>2 DEF IndicesOf, Spins
<1>10. /\ counter \in [Warps -> [Instrs -> Nat]] /\ CountsMatch(counter, pushed[k], d, spins)
       /\ ExactOf(files[k], pushed[k], d, spins) /\ Numbered(pushed[k])
  BY <1>5, <1>9 DEF CounterTypes, Unfinished, Exact
<1>11. /\ CountsMatch(counter', pushed[k], d + 1, spins)
       /\ skip <=> ~ Kept(pushed[k], d + 1, spins)
  <2> DEFINE q == pushed[k][d + 1]
             e == Count(counter[q.w], spins, q.i)
             new == [counter EXCEPT ![q.w] = e]
  <2>1. q = r /\ e = c /\ new = counter'
    BY <1>1, <1>7
  <2>2. /\ CountsMatch(new, pushed[k], d + 1, spins)
        /\ FastForwarded(e, spins, q.i) <=> ~ Kept(pushed[k], d + 1, spins)
    <3> HIDE DEF spins, r
    <3> QED BY <1>4, <1>5, <1>7, <1>9, <1>10, CountStep
  <2> HIDE DEF e, c, new, q, r
  <2> QED BY <2>1, <2>2
<1> HIDE DEF skip, c, spins, r
<1>12. files[k] \in Seq(Record) /\ files \in [KernelIds -> Seq(Record)]
  BY <1>4 DEF Types, QueueTypes
<1>13. files'[k] = IF skip THEN files[k] ELSE Append(files[k], r)
  BY <1>2, <1>8, <1>12
<1>14. ~ stray' /\ \A o \in KernelIds : o # k => files'[o] = files[o]
  BY <1>2, <1>8, <1>12 DEF FilesInv
<1>15. ExactOf(files'[k], pushed[k], d + 1, spins)
  <2>1. CASE skip
    <3>1. ExactOf(files[k], pushed[k], d + 1, spins)
      BY <1>4, <1>7, <1>10, <1>11, <2>1, ExactSkip
    <3> QED BY <1>13, <2>1, <3>1
  <2>2. CASE ~ skip
    <3>1. ExactOf(Append(files[k], pushed[k][d + 1]), pushed[k], d + 1, spins)
      BY <1>4, <1>7, <1>10, <1>11, <2>2, ExactWrite
    <3> QED BY <1>7, <1>13, <2>2, <3>1
  <2> QED BY <2>1, <2>2
<1>16. Unfinished(k, d + 1)'
  BY <1>1, <1>21, <1>5, <1>6, <1>7, <1>9, <1>11, <1>15 DEF Unfinished, Exact, IndicesOf, Spins
<1>17. Under(k)'
  BY <1>1, <1>4, UnderKept DEF UnderWay
<1>18. UnderWay(kernelid - 1)'
  BY <1>1, <1>4, <1>16, <1>17 DEF UnderWay
<1>19. FutureEmpty'
  <2>1. ~ (k >= kernelid)
    BY <1>4 DEF Types, AppTypes
  <2>2. \A o \in KernelIds : o >= kernelid => pushed[o] = <<>> /\ files'[o] = <<>>
    BY <1>14, <2>1 DEF FilesInv, FutureEmpty
  <2> QED BY <1>1, <2>2 DEF FutureEmpty, KernelIds
<1>20. ClosedExact'
  <2>1. \A o \in closed : o \in KernelIds /\ o < kernelid /\ files'[o] = files[o]
                          /\ Exact(o, Len(pushed[o]))
    BY <1>8, <1>14 DEF FilesInv, ClosedExact
  <2> QED BY <1>1, <2>1 DEF ClosedExact, Exact, Spins, KernelIds
<1> QED BY <1>14, <1>18, <1>19, <1>20 DEF FilesInv

\* The steps that touch nothing of this.
LEMMA FilesIdle ==
  ASSUME Types, FilesInv, Yield \/ Exited \/ ThreadReturns \/ UNCHANGED vars
  PROVE  FilesInv'
<1>1. /\ UNCHANGED <<kernelid, names, current, resultsFile, stop_report, open, closed, at>>
      /\ UNCHANGED <<files, pushed, stray, channel, running, receiving, counter, indices, buffer>>
  BY DEF Yield, Exited, ThreadReturns, vars, appVars, gpuVars, recvVars
<1>2. FutureEmpty' /\ ClosedExact'
  BY <1>1, FilesKept DEF FilesInv
<1>3. CASE Calm
  <2>1. Calm'
    BY <1>1, <1>3 DEF Calm, ZeroCounts
  <2> QED BY <1>1, <1>2, <2>1 DEF FilesInv
<1>4. CASE ~ Calm
  <2>1. PICK k \in KernelIds : /\ k = kernelid - 1 /\ UnderWay(k)
                               /\ files[k] \in Seq(Record) /\ pushed[k] \in Seq(Record)
    BY <1>4, UnderLast
  <2>2. \A d \in Nat : Unfinished(k, d) => Unfinished(k, d)'
    BY <1>1 DEF Unfinished, Exact, IndicesOf, Spins
  <2>3. Finished(k) => Finished(k)'
    BY <1>1 DEF Finished, ZeroCounts, Exact, Spins
  <2>4. Under(k)'
    BY <1>1, <2>1, UnderKept DEF UnderWay
  <2>5. UnderWay(kernelid - 1)'
    BY <1>1, <2>1, <2>2, <2>3, <2>4 DEF UnderWay
  <2> QED BY <1>1, <1>2, <2>5 DEF FilesInv
<1> QED BY <1>3, <1>4

LEMMA ExactInit == Init => ExactInv
<1> SUFFICES ASSUME Init PROVE ExactInv
  OBVIOUS
<1>1. /\ graphLaunches = 0 /\ at = "host" /\ kernelid = 1 /\ closed = {} /\ ~ stray
      /\ channel = <<>> /\ buffer = <<>> /\ running = {}
      /\ counter = ZeroCounter /\ indices = NoIndices
      /\ \A k \in KernelIds : pushed[k] = <<>> /\ files[k] = <<>>
  BY DEF Init
<1>2. Calm
  BY <1>1 DEF Calm, ZeroCounts
<1>3. FutureEmpty /\ ClosedExact
  BY <1>1 DEF FutureEmpty, ClosedExact
<1>4. Numbered(<<>>)
  BY DEF Numbered
<1>5. CounterTypes
  BY <1>1, <1>4 DEF CounterTypes, ZeroCounter
<1> QED BY <1>1, <1>2, <1>3, <1>5 DEF ExactInv, FilesInv

LEMMA ExactNext == Types /\ ExactInv /\ [Next]_vars => ExactInv'
<1> SUFFICES ASSUME Types, ExactInv, [Next]_vars PROVE ExactInv'
  OBVIOUS
<1>1. CounterTypes'
  BY CounterTypesNext DEF ExactInv
<1>2. CounterTypes /\ (graphLaunches' = 0 => graphLaunches = 0)
  BY CounterNext DEF ExactInv, CounterTypes
<1>3. SUFFICES ASSUME FilesInv, graphLaunches' = 0 PROVE FilesInv'
  BY <1>1, <1>2 DEF ExactInv
<1>4. ASSUME NEW name \in Names, Launch(name) PROVE FilesInv'
  BY <1>3, <1>4, FilesLaunch
<1>5. CASE \/ ExitAtLimit \/ MemcpyHtoD \/ (\E b \in BOOLEAN : Profiler(b)) \/ CtxTerm \/ Join
           \/ (\E name \in Names : Capture(name))
  <2>1. at \notin {"launched", "waiting"}
    BY <1>5 DEF ExitAtLimit, MemcpyHtoD, Profiler, CtxTerm, Join, Capture
  <2> QED BY <1>3, <1>5, <2>1, FilesHost
<1>6. ~ GraphLaunch
  BY <1>2, <1>3 DEF GraphLaunch, CounterTypes
<1>7. CASE FlushChannel
  BY <1>3, <1>7, FilesFlush
<1>8. CASE leave_kernel_launch
  BY <1>3, <1>8, FilesLeave
<1>9. CASE GpuNext
  BY <1>3, <1>9, FilesPush DEF GpuNext
<1>10. CASE \E n \in 1 .. Len(channel) : Receive(n)
  BY <1>3, <1>10, FilesReceive
<1>11. CASE ReceiveFlush
  BY <1>3, <1>11, FilesSeen
<1>12. CASE ReceiveRecord
  BY <1>2, <1>3, <1>12, FilesRecord
<1>13. CASE Yield \/ Exited \/ ThreadReturns \/ UNCHANGED vars
  BY <1>3, <1>13, FilesIdle
<1> QED BY <1>4, <1>5, <1>6, <1>7, <1>8, <1>9, <1>10, <1>11, <1>12, <1>13
        DEF Next, AppNext, RecvNext

\* Unless a graph was launched, a closed trace file is exactly what its kernel
\* pushed, less the iterations fast-forwarded, and no record meets a closed file:
\* leave_kernel_launch waits until the receive thread has seen the flush record,
\* which follows all records (tracer_tool.cu 627 and 971).
THEOREM ClosedFilesCorrect == Spec => []ClosedFilesExact
<1>1. ASSUME Types, ExactInv PROVE ClosedFilesExact
  <2> SUFFICES ASSUME graphLaunches = 0
               PROVE  /\ ~ stray
                      /\ \A k \in closed :
                           /\ ToSet(files[k]) =
                                {r \in ToSet(pushed[k]) : Kept(pushed[k], r.n, SpinInstrs[names[k]])}
                           /\ \A p, q \in DOMAIN files[k] : p < q => files[k][p].n < files[k][q].n
    BY DEF ClosedFilesExact
  <2>1. FilesInv /\ CounterTypes
    BY <1>1 DEF ExactInv
  <2>2. ASSUME NEW k \in closed
        PROVE  /\ ToSet(files[k]) =
                    {r \in ToSet(pushed[k]) : Kept(pushed[k], r.n, SpinInstrs[names[k]])}
               /\ \A p, q \in DOMAIN files[k] : p < q => files[k][p].n < files[k][q].n
    <3>1. k \in KernelIds /\ ExactOf(files[k], pushed[k], Len(pushed[k]), SpinInstrs[names[k]])
      BY <2>1 DEF FilesInv, ClosedExact, Exact, Spins
    <3>2. files[k] \in Seq(Record) /\ pushed[k] \in Seq(Record) /\ Numbered(pushed[k])
      BY <1>1, <2>1, <3>1 DEF Types, QueueTypes, CounterTypes
    <3> QED BY <3>1, <3>2, ExactDone
  <2> QED BY <2>1, <2>2 DEF FilesInv
<1> QED BY <1>1, TypesInit, TypesNext, ExactInit, ExactNext, PTL DEF Spec

=============================================================================
