---------------------------- MODULE AccelSimProofs ----------------------------
(*****************************************************************************)
(* Proofs about AccelSim: for every window, type correctness and the         *)
(* assertion of cleanup; for a window of one, that copies keep their place   *)
(* among the kernels; for windows of one and of two, that no kernel is       *)
(* dropped and streams run in order.                                         *)
(*****************************************************************************)
EXTENDS AccelSim, FiniteSetTheorems, TLAPS

-----------------------------------------------------------------------------
(* Type correctness *)

\* Removing an element of the window leaves a shorter window.
LEMMA RemoveAtType ==
  ASSUME NEW S, NEW s \in Seq(S), NEW i \in 1 .. Len(s)
  PROVE  RemoveAt(s, i) \in Seq(S) /\ Len(RemoveAt(s, i)) = Len(s) - 1
<1>1. SubSeq(s, 1, i - 1) \in Seq(S) /\ Len(SubSeq(s, 1, i - 1)) = i - 1
  OBVIOUS
<1>2. SubSeq(s, i + 1, Len(s)) \in Seq(S) /\ Len(SubSeq(s, i + 1, Len(s))) = Len(s) - i
  OBVIOUS
<1>3. PICK a \in Seq(S), b \in Seq(S) :
        /\ a = SubSeq(s, 1, i - 1) /\ b = SubSeq(s, i + 1, Len(s))
        /\ Len(a) = i - 1 /\ Len(b) = Len(s) - i
  BY <1>1, <1>2
<1>4. a \o b \in Seq(S) /\ Len(a \o b) = Len(a) + Len(b)
  OBVIOUS
<1>5. Len(a \o b) = Len(s) - 1
  <2>1. Len(a) = i - 1 /\ Len(b) = Len(s) - i
    BY <1>3
  <2>2. i \in Int /\ Len(s) \in Int
    OBVIOUS
  <2>3. (i - 1) + (Len(s) - i) = Len(s) - 1
    BY <2>2
  <2>4. Len(a) + Len(b) = Len(s) - 1
    BY <2>1, <2>3
  <2> QED BY <1>4, <2>4, Zenon
<1>6. RemoveAt(s, i) = a \o b
  BY <1>3 DEF RemoveAt
<1> QED BY <1>4, <1>5, <1>6

\* The front end starts with its variables well typed.
LEMMA TypeInit == Init => TypeOK
<1> SUFFICES ASSUME Init PROVE TypeOK
  OBVIOUS
<1>1. commandlist \in Seq(Streams \cup {Memcpy}) /\ Len(commandlist) \in Nat
  BY CommandAssumption DEF Init
<1>2. << >> \in Seq(Kernels) /\ Len(<< >>) = 0 /\ 0 <= WindowSize
  BY WindowAssumption
<1>3. /\ kernels_info \in Seq(Kernels) /\ Len(kernels_info) <= WindowSize
      /\ commandlist_index \in 1 .. Len(commandlist) + 1
  BY <1>1, <1>2 DEF Init
<1>4. cursor \in Nat \ {0} /\ finished_uid \in Kernels \cup {0}
  BY DEF Init
<1>5. seen \in BOOLEAN /\ draining \in BOOLEAN /\ max_hit \in BOOLEAN
  BY DEF Init
<1>6. pc \in Locations /\ commandlist \in CommandLists
  BY DEF Init, Locations
<1>7. /\ was_launched \subseteq Kernels /\ busy_streams \subseteq Streams
      /\ running \subseteq Kernels /\ finished_list \subseteq Kernels
      /\ done \subseteq Kernels /\ erased \subseteq Kernels
  BY DEF Init
<1> QED BY <1>3, <1>4, <1>5, <1>6, <1>7, Zenon DEF TypeOK

\* Every step of simulation_loop keeps the types and the window's size.
LEMMA TypeNext == TypeOK /\ [Next]_vars => TypeOK'
<1> SUFFICES ASSUME TypeOK, [Next]_vars PROVE TypeOK'
  OBVIOUS
<1>0. /\ commandlist \in Seq(Streams \cup {Memcpy})
      /\ WindowSize \in Nat /\ Len(commandlist) \in Nat
  BY CommandAssumption, WindowAssumption DEF TypeOK
<1> USE DEF TypeOK, Locations
<1>1. CASE EnterLoop \/ LeaveLoop
  BY <1>1 DEF EnterLoop, LeaveLoop, frontEnd, loopVars, gpu, ghosts, Kernels
<1>2. CASE ParseMemcpy
  BY <1>0, <1>2 DEF ParseMemcpy, WindowOpen, MoreCommands, loopVars, gpu, ghosts, Kernels
<1>3. CASE ParseKernel
  <2>1. commandlist_index \in Kernels
    BY <1>0, <1>3 DEF ParseKernel, WindowOpen, MoreCommands, Kernels
  <2>2. /\ kernels_info' \in Seq(Kernels)
        /\ Len(kernels_info') <= WindowSize
    BY <1>0, <1>3, <2>1 DEF ParseKernel, WindowOpen
  <2> QED BY <1>0, <1>3, <2>2 DEF ParseKernel, WindowOpen, MoreCommands, loopVars, gpu, ghosts, Kernels
<1>4. CASE ParseDone \/ LaunchDone
  BY <1>4 DEF ParseDone, LaunchDone, frontEnd, loopVars, gpu, ghosts, Kernels
<1>5. CASE LaunchKernel
  <2>1. kernels_info[cursor] \in Kernels
    BY <1>5 DEF LaunchKernel
  <2>2. Stream(kernels_info[cursor]) \in Streams
    BY <1>0, <2>1 DEF Stream, Kernels
  <2> QED BY <1>5, <2>1, <2>2 DEF LaunchKernel, ghosts, Kernels
<1>6. CASE PassKernel
  BY <1>6 DEF PassKernel, frontEnd, gpu, ghosts, Kernels
<1>7. CASE SimulateInactive
  <2>1. EnterCleanup /\ finished_uid' = 0 /\ UNCHANGED <<frontEnd, gpu, ghosts>>
    BY <1>7 DEF SimulateInactive
  <2>2. cursor' \in Nat \ {0} /\ pc' \in Locations
    BY <2>1 DEF EnterCleanup
  <2>3. seen' \in BOOLEAN
    BY <2>1 DEF EnterCleanup
  <2> QED BY <2>1, <2>2, <2>3 DEF frontEnd, gpu, ghosts, Kernels
<1>8. CASE SimulateCycle
  <2>1. pc' \in Locations /\ cursor' \in Nat \ {0} /\ seen' \in BOOLEAN
    <3>1. EnterCleanup \/ UNCHANGED <<pc, cursor, seen>>
      BY <1>8, Zenon DEF SimulateCycle
    <3>2. pc' \in Locations /\ cursor' \in Nat \ {0}
      BY <3>1 DEF EnterCleanup
    <3>3. seen' \in BOOLEAN
      BY <3>1 DEF EnterCleanup
    <3> QED BY <3>2, <3>3
  <2>2. PICK F \in SUBSET running :
          /\ running' = running \ F /\ done' = done \cup F
          /\ finished_uid' \in finished_list \cup F \cup {0}
          /\ finished_list' \subseteq finished_list \cup F
    BY <1>8 DEF SimulateCycle
  <2> QED BY <1>8, <2>1, <2>2 DEF SimulateCycle, frontEnd, Kernels
<1>9. CASE EraseKernel
  <2>1. cursor \in 1 .. Len(kernels_info)
    BY <1>9 DEF EraseKernel
  <2>2. kernels_info[cursor] \in Kernels
    BY <2>1
  <2>3. kernels_info' \in Seq(Kernels) /\ Len(kernels_info') <= WindowSize
    BY <1>0, <1>9, <2>1, RemoveAtType DEF EraseKernel
  <2> QED BY <1>9, <2>2, <2>3 DEF EraseKernel, FreeStream, AfterErase, gpu, Kernels
<1>10. CASE KeepKernel
  BY <1>10 DEF KeepKernel, frontEnd, gpu, ghosts, Kernels
<1>11. CASE CleanupDone \/ EndOfBody
  BY <1>11 DEF CleanupDone, EndOfBody, frontEnd, loopVars, gpu, ghosts, Kernels
<1>12. CASE Terminated \/ UNCHANGED vars
  BY <1>12 DEF Terminated, vars, frontEnd, loopVars, gpu, ghosts, Kernels
<1> QED BY <1>1, <1>2, <1>3, <1>4, <1>5, <1>6, <1>7, <1>8, <1>9, <1>10, <1>11, <1>12
        DEF Next

\* Type correctness of simulation_loop for every window size and set of
\* command lists: in particular parse_commandlist never overfills the window.
THEOREM TypeCorrect == Spec => []TypeOK
BY TypeInit, TypeNext, PTL DEF Spec

-----------------------------------------------------------------------------
(* The assertion at the end of cleanup *)

\* The command lists that end in a kernel.  (Copies back to the host, which
\* usually follow it, are not in the list.)
KernelEnds == \A l \in CommandLists : l # << >> => l[Len(l)] # Memcpy

\* From the head of the loop to cleanup's first look there is a kernel to look
\* at, or a command left to read that ends in one.
WorkInv ==
  /\ pc = "parse" => MoreCommands \/ kernels_info # << >>
  /\ pc \in {"launch", "simulate"} => kernels_info # << >>
  /\ pc = "cleanup" /\ ~ seen => cursor = 1 /\ kernels_info # << >>
  /\ pc # "abort"

\* Every step of simulation_loop keeps this, for every window.
LEMMA WorkNext ==
  ASSUME KernelEnds
  PROVE  TypeOK /\ WorkInv /\ [Next]_vars => WorkInv'
<1> SUFFICES ASSUME TypeOK, WorkInv, [Next]_vars PROVE WorkInv'
  OBVIOUS
<1>0. /\ commandlist \in Seq(Streams \cup {Memcpy}) /\ commandlist \in CommandLists
      /\ commandlist_index \in 1 .. Len(commandlist) + 1 /\ Len(commandlist) \in Nat
      /\ kernels_info \in Seq(Kernels) /\ WindowSize \in Nat \ {0}
  BY CommandAssumption, WindowAssumption DEF TypeOK
<1>1. CASE EnterLoop \/ LeaveLoop
  BY <1>1 DEF EnterLoop, LeaveLoop, WorkInv, MoreCommands, frontEnd, loopVars
<1>2. CASE ParseMemcpy
  <2>1. commandlist_index # Len(commandlist)
    <3>1. commandlist # << >> /\ commandlist[commandlist_index] = Memcpy
      BY <1>0, <1>2 DEF ParseMemcpy, WindowOpen, MoreCommands
    <3> QED BY <1>0, <3>1 DEF KernelEnds
  <2>2. commandlist_index <= Len(commandlist)
    BY <1>2 DEF ParseMemcpy, WindowOpen, MoreCommands
  <2>3. MoreCommands'
    BY <1>0, <1>2, <2>1, <2>2 DEF ParseMemcpy, MoreCommands
  <2> QED BY <1>2, <2>3 DEF ParseMemcpy, WorkInv
<1>3. CASE ParseKernel
  <2>1. kernels_info' # << >>
    <3>1. kernels_info' = Append(kernels_info, commandlist_index)
      BY <1>3 DEF ParseKernel
    <3>2. \A k : Append(kernels_info, k) # << >>
      BY <1>0
    <3> QED BY <3>1, <3>2
  <2> QED BY <1>3, <2>1 DEF ParseKernel, WorkInv
<1>4. CASE ParseDone
  <2>1. kernels_info # << >>
    <3>1. CASE kernels_info = << >>
      <4>1. MoreCommands
        BY <1>4, <3>1 DEF ParseDone, WorkInv
      <4>2. Len(kernels_info) < WindowSize
        BY <1>0, <3>1
      <4> QED BY <1>4, <4>1, <4>2 DEF ParseDone, WindowOpen
    <3> QED BY <3>1
  <2> QED BY <1>4, <2>1 DEF ParseDone, WorkInv, frontEnd
<1>5. CASE LaunchKernel \/ PassKernel \/ LaunchDone
  BY <1>5 DEF LaunchKernel, PassKernel, LaunchDone, WorkInv, frontEnd
<1>6. CASE SimulateInactive
  BY <1>6 DEF SimulateInactive, EnterCleanup, WorkInv, frontEnd
<1>7. CASE SimulateCycle
  <2>1. EnterCleanup \/ UNCHANGED <<pc, cursor, seen>>
    BY <1>7, Zenon DEF SimulateCycle
  <2>2. pc = "simulate" /\ kernels_info' = kernels_info
    BY <1>7 DEF SimulateCycle, frontEnd
  <2> QED BY <2>1, <2>2 DEF EnterCleanup, WorkInv
<1>8. CASE EraseKernel \/ KeepKernel
  <2>1. seen' = TRUE /\ pc' \in {"cleanup", "after"}
    BY <1>8 DEF EraseKernel, KeepKernel, AfterErase
  <2> QED BY <2>1 DEF WorkInv
<1>9. CASE CleanupDone
  <2>1. seen
    <3>1. CASE ~ seen
      <4>1. cursor = 1 /\ kernels_info # << >> /\ cursor > Len(kernels_info)
        BY <1>9, <3>1 DEF CleanupDone, WorkInv
      <4> QED BY <1>0, <4>1
    <3> QED BY <3>1
  <2> QED BY <1>9, <2>1 DEF CleanupDone, WorkInv
<1>10. CASE EndOfBody
  BY <1>10 DEF EndOfBody, WorkInv
<1>11. CASE Terminated \/ UNCHANGED vars
  BY <1>11 DEF Terminated, vars, WorkInv, MoreCommands, frontEnd, loopVars
<1> QED BY <1>1, <1>2, <1>3, <1>4, <1>5, <1>6, <1>7, <1>8, <1>9, <1>10, <1>11 DEF Next

\* assert(k) at the end of cleanup holds for every window, when no command list
\* ends in a copy.  When one does, the last round may find no kernel.
THEOREM NeverAbortsCorrect ==
  ASSUME KernelEnds
  PROVE  Spec => []NeverAborts
<1>1. Init => WorkInv
  BY DEF Init, WorkInv
<1>2. WorkInv => NeverAborts
  BY DEF WorkInv, NeverAborts
<1> QED BY <1>1, <1>2, WorkNext, TypeInit, TypeNext, PTL DEF Spec

-----------------------------------------------------------------------------
(* A window of one kernel *)

\* The kernels before position n of the command list.
Before(n) == {k \in Kernels : k < n}

\* The command read last.
LastRead == commandlist_index - 1

\* Nothing is in the window and every kernel read so far is finished with.
Settled ==
  /\ kernels_info = << >>
  /\ running = {} /\ busy_streams = {}
  /\ done = Before(commandlist_index)
  /\ was_launched = done /\ erased = done

\* The one kernel in the window is the command read last.
Holds == kernels_info = <<LastRead>> /\ LastRead \in Kernels /\ erased = Before(LastRead)

\* It has been read and not launched: its launch is certain.
Waiting ==
  /\ Holds
  /\ pc \in {"parse", "launch"} /\ (pc = "launch" => cursor = 1)
  /\ running = {} /\ busy_streams = {}
  /\ done = Before(LastRead) /\ was_launched = done

\* It is all the GPU executes.
Executing ==
  /\ Holds
  /\ pc \in {"launch", "simulate"} /\ (pc = "launch" => cursor = 2)
  /\ running = {LastRead} /\ busy_streams = {Stream(LastRead)}
  /\ done = Before(LastRead) /\ was_launched = done \cup {LastRead}

\* It has completed, simulate has returned it, and cleanup looks at it.
Completed ==
  /\ Holds
  /\ pc = "cleanup" /\ cursor = 1 /\ finished_uid = LastRead
  /\ running = {} /\ busy_streams = {Stream(LastRead)}
  /\ done = Before(commandlist_index) /\ was_launched = done

\* The inductive invariant of a window of one: unless the simulation limit
\* was reached, the one kernel goes through these stages.
SerialInv ==
  /\ max_hit => pc \in {"cleanup", "after", "exit", "abort"}
  /\ ~ max_hit =>
       /\ finished_list = {}
       /\ Settled \/ Waiting \/ Executing \/ Completed

\* Reading a command moves the boundary of Before past it.
LEMMA BeforeNext ==
  ASSUME TypeOK
  PROVE  /\ commandlist_index \in Nat
         /\ Before(commandlist_index + 1) =
              Before(commandlist_index) \cup (Kernels \cap {commandlist_index})
         /\ LastRead \in Kernels =>
              Before(commandlist_index) = Before(LastRead) \cup {LastRead}
<1>1. /\ commandlist \in Seq(Streams \cup {Memcpy})
      /\ commandlist_index \in Nat
  BY CommandAssumption DEF TypeOK
<1>2. Kernels \subseteq Nat
  BY <1>1 DEF Kernels
<1>3. ASSUME NEW n \in Int
      PROVE  Before(n + 1) = Before(n) \cup (Kernels \cap {n})
  <2>1. \A k \in Kernels : k < n + 1 <=> k < n \/ k = n
    BY <1>2
  <2> QED BY <2>1, Zenon DEF Before
<1>4. LastRead \in Int /\ LastRead + 1 = commandlist_index
  BY <1>1 DEF LastRead
<1>5. Before(commandlist_index) = Before(LastRead) \cup (Kernels \cap {LastRead})
  BY <1>3, <1>4
<1> QED BY <1>1, <1>3, <1>5

\* With an empty GPU the next kernel can start.
LEMMA EmptyGPUStarts ==
  ASSUME running = {}
  PROVE  can_start_kernel
BY FS_EmptySet, WindowAssumption DEF can_start_kernel

\* Every step of simulation_loop keeps the invariant of a window of one.
LEMMA SerialNext ==
  ASSUME WindowSize = 1
  PROVE  TypeOK /\ SerialInv /\ [Next]_vars => SerialInv'
<1> SUFFICES ASSUME TypeOK, SerialInv, [Next]_vars PROVE SerialInv'
  OBVIOUS
<1> DEFINE Stages == Settled \/ Waiting \/ Executing \/ Completed
<1>0. /\ commandlist \in Seq(Streams \cup {Memcpy})
      /\ commandlist_index \in Nat /\ Len(commandlist) \in Nat
      /\ Kernels \subseteq Nat
  BY CommandAssumption, BeforeNext DEF TypeOK, Kernels
<1>a. /\ Settled => ~ (cursor <= Len(kernels_info))
      /\ Executing /\ pc = "launch" => ~ (cursor <= Len(kernels_info))
  BY DEF Settled, Executing, Holds, TypeOK
<1>1. CASE EnterLoop \/ LeaveLoop
  BY <1>1 DEF EnterLoop, LeaveLoop, frontEnd, loopVars, gpu, ghosts, SerialInv,
              Settled, Waiting, Executing, Completed, Holds, Before, Kernels, LastRead
<1>2. CASE ParseMemcpy
  <2>1. ~ max_hit /\ finished_list = {} /\ Settled
    BY <1>2 DEF ParseMemcpy, WindowOpen, SerialInv, Waiting, Executing, Completed, Holds
  <2>2. commandlist_index \notin Kernels
    BY <1>2 DEF ParseMemcpy, Kernels
  <2>3. Before(commandlist_index + 1) = Before(commandlist_index)
    BY <2>2, BeforeNext
  <2>4. Settled'
    BY <1>2, <2>1, <2>3 DEF ParseMemcpy, Settled, gpu, ghosts, Before, Kernels
  <2> QED BY <1>2, <2>1, <2>4 DEF ParseMemcpy, SerialInv, gpu
<1>3. CASE ParseKernel
  <2>1. ~ max_hit /\ finished_list = {} /\ Settled
    BY <1>3 DEF ParseKernel, WindowOpen, SerialInv, Waiting, Executing, Completed, Holds
  <2>2. commandlist_index \in Kernels
    BY <1>0, <1>3 DEF ParseKernel, WindowOpen, MoreCommands, Kernels, TypeOK
  <2>3. LastRead' = commandlist_index
    BY <1>0, <1>3 DEF ParseKernel, LastRead
  <2>4. Kernels' = Kernels /\ kernels_info' = <<commandlist_index>>
    BY <1>3, <2>1 DEF ParseKernel, Kernels, Settled
  <2>5. Waiting'
    BY <1>3, <2>1, <2>2, <2>3, <2>4
       DEF ParseKernel, Waiting, Holds, Settled, Before, gpu, ghosts
  <2> QED BY <1>3, <2>1, <2>5 DEF ParseKernel, SerialInv, gpu
<1>4. CASE ParseDone
  BY <1>4 DEF ParseDone, frontEnd, gpu, ghosts, SerialInv,
              Settled, Waiting, Executing, Completed, Holds, Before, Kernels, LastRead
<1>5. CASE LaunchKernel
  <2>1. ~ max_hit /\ finished_list = {} /\ Waiting /\ cursor = 1
    BY <1>a, <1>5 DEF LaunchKernel, SerialInv, Waiting, Completed
  <2>2. kernels_info[cursor] = LastRead
    BY <2>1 DEF Waiting, Holds
  <2>3. Executing'
    BY <1>5, <2>1, <2>2 DEF LaunchKernel, Executing, Waiting, Holds, Before, Kernels,
                            LastRead, Stream, ghosts
  <2> QED BY <1>5, <2>1, <2>3 DEF LaunchKernel, SerialInv
<1>6. CASE PassKernel
  <2>1. ~ max_hit /\ Waiting /\ cursor = 1
    BY <1>a, <1>6 DEF PassKernel, SerialInv, Waiting, Completed
  <2>2. CanLaunch(LastRead)
    BY <1>0, <2>1, EmptyGPUStarts DEF CanLaunch, Waiting, Holds, Before, LastRead
  <2> QED BY <1>6, <2>1, <2>2 DEF PassKernel, Waiting, Holds
<1>7. CASE LaunchDone
  BY <1>7 DEF LaunchDone, frontEnd, loopVars, gpu, ghosts, SerialInv,
              Settled, Waiting, Executing, Completed, Holds, Before, Kernels, LastRead, Stream
<1>8. CASE SimulateInactive
  <2>1. ~ max_hit /\ finished_list = {} /\ Settled
    BY <1>8 DEF SimulateInactive, active, SerialInv, Waiting, Executing, Completed
  <2> QED BY <1>8, <2>1 DEF SimulateInactive, EnterCleanup, frontEnd, gpu, ghosts,
                            SerialInv, Settled, Before, Kernels
<1>9. CASE SimulateCycle
  <2>1. pc = "simulate" /\ ~ max_hit /\ finished_list = {} /\ (Settled \/ Executing)
    BY <1>9 DEF SimulateCycle, active, SerialInv, Waiting, Completed
  <2>2. EnterCleanup \/ (UNCHANGED <<pc, cursor, seen>> /\ active')
    BY <1>9, Zenon DEF SimulateCycle
  <2>3. max_hit' => pc' \in {"cleanup", "after", "exit", "abort"}
    BY <2>2 DEF EnterCleanup, active
  <2>4. SUFFICES ASSUME ~ max_hit' PROVE finished_list' = {} /\ Stages'
    BY <2>3 DEF SerialInv
  <2>5. PICK F \in SUBSET running :
          /\ running' = running \ F /\ done' = done \cup F
          /\ IF F = {} THEN finished_uid' = 0 /\ finished_list' = {}
             ELSE \E uid \in F : finished_uid' = uid /\ finished_list' = F \ {uid}
    BY <1>9, <2>1 DEF SimulateCycle
  <2>6. UNCHANGED <<frontEnd, erased>> /\ LastRead' = LastRead /\ Kernels' = Kernels
    BY <1>9 DEF SimulateCycle, frontEnd, LastRead, Kernels
  <2>7. CASE Settled
    <3>1. F = {}
      BY <2>7 DEF Settled
    <3> QED BY <2>5, <2>6, <2>7, <3>1 DEF Settled, Before, frontEnd
  <2>8. CASE Executing /\ F = {}
    <3>1. finished_uid' = 0 /\ finished_list' = {} /\ running' = running /\ done' = done
      BY <2>5, <2>8
    <3>2. active'
      BY <2>4, <2>8, <3>1 DEF active, Executing
    <3>3. UNCHANGED <<pc, cursor, seen>>
      BY <1>9, <3>1, <3>2, Zenon DEF SimulateCycle
    <3> QED BY <2>6, <2>8, <3>1, <3>3 DEF Executing, Holds, Before, Stream, frontEnd
  <2>9. CASE Executing /\ F # {}
    <3>1. F = {LastRead}
      BY <2>9 DEF Executing
    <3>2. finished_uid' = LastRead /\ finished_list' = {} /\ running' = {}
      BY <2>5, <2>9, <3>1 DEF Executing
    <3>3. LastRead # 0
      BY <1>0, <2>9 DEF Executing, Holds, Kernels
    <3>4. EnterCleanup
      BY <1>9, <3>2, <3>3, Zenon DEF SimulateCycle
    <3>5. done' = Before(commandlist_index)
      BY <2>5, <2>9, <3>1, BeforeNext DEF Executing, Holds
    <3> QED BY <2>5, <2>6, <2>9, <3>1, <3>2, <3>4, <3>5
            DEF Executing, Completed, Holds, Before, Stream, frontEnd, EnterCleanup
  <2> QED BY <2>1, <2>7, <2>8, <2>9
<1>10. CASE EraseKernel
  <2>1. CASE max_hit
    BY <1>10, <2>1 DEF EraseKernel, AfterErase, gpu, SerialInv, active
  <2>2. CASE ~ max_hit
    <3>1. finished_list = {} /\ Completed
      BY <1>a, <1>10, <2>2 DEF EraseKernel, SerialInv, Waiting, Executing
    <3>2. kernels_info' = << >>
      BY <1>10, <3>1 DEF EraseKernel, Completed, Holds, RemoveAt
    <3>3. kernels_info[cursor] = LastRead
      BY <3>1 DEF Completed, Holds
    <3>4. erased' = Before(commandlist_index)
      BY <1>10, <3>1, <3>3, BeforeNext DEF EraseKernel, Completed, Holds
    <3>5. busy_streams' = {}
      BY <1>10, <3>1, <3>3 DEF EraseKernel, FreeStream, Completed
    <3>6. Settled'
      BY <1>10, <3>1, <3>2, <3>4, <3>5 DEF EraseKernel, Completed, Settled, Before, Kernels, gpu
    <3> QED BY <1>10, <2>2, <3>1, <3>6 DEF EraseKernel, SerialInv, gpu
  <2> QED BY <2>1, <2>2
<1>11. CASE KeepKernel
  <2>1. CASE max_hit
    BY <1>11, <2>1 DEF KeepKernel, gpu, SerialInv
  <2>2. CASE ~ max_hit
    <3>1. Completed
      BY <1>a, <1>11, <2>2 DEF KeepKernel, SerialInv, Waiting, Executing
    <3> QED BY <1>11, <3>1 DEF KeepKernel, MustErase, Completed, Holds
  <2> QED BY <2>1, <2>2
<1>12. CASE CleanupDone
  <2>1. ~ Completed
    BY <1>12 DEF CleanupDone, Completed, Holds
  <2> QED BY <1>12, <2>1 DEF CleanupDone, frontEnd, loopVars, gpu, ghosts, SerialInv,
              Settled, Waiting, Executing, Before, Kernels
<1>13. CASE EndOfBody
  BY <1>13 DEF EndOfBody, frontEnd, loopVars, gpu, ghosts, SerialInv,
              Settled, Waiting, Executing, Completed, Before, Kernels
<1>14. CASE Terminated \/ UNCHANGED vars
  BY <1>14 DEF Terminated, vars, frontEnd, loopVars, gpu, ghosts, SerialInv,
              Settled, Waiting, Executing, Completed, Holds, Before, Kernels, LastRead, Stream
<1> QED BY <1>1, <1>2, <1>3, <1>4, <1>5, <1>6, <1>7, <1>8, <1>9, <1>10, <1>11, <1>12,
           <1>13, <1>14 DEF Next

\* No command comes before the first.
LEMMA NothingBefore ==
  ASSUME commandlist \in CommandLists
  PROVE  Before(1) = {}
<1>1. Kernels \subseteq Nat \ {0}
  BY CommandAssumption DEF Kernels
<1>2. \A k \in Kernels : ~ (k < 1)
  BY <1>1
<1> QED BY <1>2, Zenon DEF Before

\* The front end starts with nothing read.
LEMMA SerialInit == Init => SerialInv
<1> SUFFICES ASSUME Init PROVE SerialInv
  OBVIOUS
<1>1. Before(1) = {}
  BY NothingBefore DEF Init
<1> QED BY <1>1 DEF Init, SerialInv, Settled

\* What the stages say about finished kernels.
LEMMA SerialMeaning ==
  ASSUME TypeOK, SerialInv, ~ max_hit
  PROVE  /\ Before(LastRead) \subseteq done
         /\ LastRead \notin Kernels => Before(commandlist_index) \subseteq done
<1>1. LastRead \in Kernels => Before(commandlist_index) = Before(LastRead) \cup {LastRead}
  BY BeforeNext
<1>2. Before(LastRead) \subseteq Before(commandlist_index)
  <2>1. commandlist \in Seq(Streams \cup {Memcpy}) /\ commandlist_index \in Nat
    BY CommandAssumption DEF TypeOK
  <2>2. Kernels \subseteq Nat
    BY <2>1 DEF Kernels
  <2>3. \A k \in Kernels : k < LastRead => k < commandlist_index
    BY <2>1, <2>2 DEF LastRead
  <2> QED BY <2>3, Zenon DEF Before
<1>3. CASE Settled
  BY <1>2, <1>3 DEF Settled
<1>4. CASE Waiting
  BY <1>4 DEF Waiting, Holds
<1>5. CASE Executing
  BY <1>5 DEF Executing, Holds
<1>6. CASE Completed
  BY <1>1, <1>2, <1>6 DEF Completed, Holds
<1> QED BY <1>3, <1>4, <1>5, <1>6 DEF SerialInv

\* The invariant of a window of one holds throughout.
LEMMA SerialCorrect ==
  ASSUME WindowSize = 1
  PROVE  Spec => [](TypeOK /\ SerialInv)
BY TypeInit, TypeNext, SerialInit, SerialNext, PTL DEF Spec

\* With a window of one, a copy takes effect only after every kernel before
\* it in the command list has completed (parse_commandlist).
THEOREM SerialMemcpyInOrder ==
  ASSUME WindowSize = 1
  PROVE  Spec => []MemcpyInOrder
<1>1. ASSUME TypeOK, SerialInv PROVE MemcpyInOrder
  <2>1. SUFFICES ASSUME ~ max_hit, NEW m \in 1 .. commandlist_index - 1,
                        commandlist[m] = Memcpy, NEW k \in Kernels, k < m
                 PROVE  k \in done
    BY DEF MemcpyInOrder
  <2>2. commandlist \in Seq(Streams \cup {Memcpy}) /\ commandlist_index \in Nat
    BY <1>1, CommandAssumption DEF TypeOK
  <2>3. k \in Nat
    BY <2>2 DEF Kernels
  <2>4. CASE LastRead \in Kernels
    <3>1. m # LastRead
      BY <2>1, <2>4 DEF Kernels
    <3>2. k < LastRead
      BY <2>1, <2>2, <2>3, <3>1 DEF LastRead
    <3> QED BY <1>1, <2>1, <3>2, SerialMeaning DEF Before
  <2>5. CASE LastRead \notin Kernels
    <3>1. k < commandlist_index
      BY <2>1, <2>2, <2>3
    <3> QED BY <1>1, <2>1, <2>5, <3>1, SerialMeaning DEF Before
  <2> QED BY <2>4, <2>5
<1>2. TypeOK /\ SerialInv => MemcpyInOrder
  BY <1>1
<1> QED BY <1>2, SerialCorrect, PTL

-----------------------------------------------------------------------------
(* Windows of one and of two kernels *)

\* The launched kernels of the window.
Live == Window \cap was_launched

\* A launched kernel is running or done, and only done kernels are reported.
GPUKnown ==
  /\ was_launched = running \cup done /\ running \cap done = {}
  /\ finished_list \subseteq done /\ finished_uid \in done \cup {0}

\* A kernel read is either in the window, which keeps the order of the command
\* list, or was done when cleanup erased it.
WindowKnown ==
  /\ Window \cup erased = Before(commandlist_index) /\ Window \cap erased = {}
  /\ erased \subseteq done /\ was_launched \subseteq Before(commandlist_index)
  /\ Len(kernels_info) = 2 => kernels_info[1] < kernels_info[2]

\* The busy streams are those of the launched kernels, one kernel each.
StreamsKnown ==
  /\ busy_streams = {Stream(k) : k \in Live}
  /\ \A k, l \in Live : Stream(k) = Stream(l) => k = l

\* The first kernel of the window is launched before the second, and is once
\* the launch loop has passed it.  A cleanup that gets to a second kernel has
\* kept the first, which it does only while the GPU is active.
FirstLaunched ==
  /\ Len(kernels_info) = 2 /\ kernels_info[2] \in was_launched =>
       kernels_info[1] \in was_launched
  /\ \/ pc = "simulate"
     \/ pc = "launch" /\ cursor # 1
     \/ pc = "cleanup" /\ cursor = 1
     => kernels_info = << >> \/ kernels_info[1] \in was_launched
  /\ pc = "cleanup" /\ cursor = 2 /\ Len(kernels_info) = 2 => active

\* The inductive invariant of a window of one or two.  That cleanup passes over
\* the kernel after an erased one does no harm here: the kernel passed over is
\* the last.
PairInv ==
  /\ max_hit => pc \in {"cleanup", "after", "exit", "abort"}
  /\ ~ max_hit => GPUKnown /\ WindowKnown /\ StreamsKnown /\ FirstLaunched

\* The window holds at most two kernels.
LEMMA WindowShapes ==
  ASSUME TypeOK, WindowSize <= 2
  PROVE  \/ kernels_info = << >> /\ Window = {}
         \/ \E a \in Kernels : kernels_info = <<a>> /\ Window = {a}
         \/ \E a, b \in Kernels : kernels_info = <<a, b>> /\ Window = {a, b}
<1>1. kernels_info \in Seq(Kernels) /\ Len(kernels_info) \in 0 .. 2
  <2>1. kernels_info \in Seq(Kernels) /\ Len(kernels_info) <= WindowSize
    BY DEF TypeOK
  <2>2. WindowSize \in Nat
    BY WindowAssumption
  <2>3. PICK n \in Nat : n = Len(kernels_info)
    BY <2>1
  <2>4. n <= WindowSize
    BY <2>1, <2>3
  <2>5. n \in 0 .. 2
    BY <2>2, <2>4
  <2> QED BY <2>1, <2>3, <2>5
<1>2. Window = {kernels_info[i] : i \in 1 .. Len(kernels_info)}
  BY <1>1 DEF Window, ToSet
<1>3. CASE Len(kernels_info) = 0
  BY <1>1, <1>2, <1>3
<1>4. CASE Len(kernels_info) = 1
  <2>1. kernels_info[1] \in Kernels /\ kernels_info = <<kernels_info[1]>>
    BY <1>1, <1>4
  <2>2. Window = {kernels_info[1]}
    BY <1>2, <1>4
  <2> QED BY <2>1, <2>2
<1>5. CASE Len(kernels_info) = 2
  <2>1. /\ kernels_info[1] \in Kernels /\ kernels_info[2] \in Kernels
        /\ kernels_info = <<kernels_info[1], kernels_info[2]>>
    BY <1>1, <1>5
  <2>2. Window = {kernels_info[1], kernels_info[2]}
    BY <1>2, <1>5
  <2> QED BY <2>1, <2>2
<1> QED BY <1>1, <1>3, <1>4, <1>5

\* The elements of the shortest sequences.
LEMMA ShortSets ==
         /\ ToSet(<< >>) = {}
         /\ \A a : ToSet(<<a>>) = {a}
         /\ \A a, b : ToSet(<<a, b>>) = {a, b}
BY DEF ToSet

\* They are given by their length and elements.
LEMMA ShortSequences ==
  ASSUME NEW S, NEW s \in Seq(S)
  PROVE  /\ Len(s) = 0 => s = << >>
         /\ Len(s) = 1 => s = <<s[1]>>
         /\ Len(s) = 2 => s = <<s[1], s[2]>>
OBVIOUS

\* The elements that stay when one is removed.
LEMMA RemoveAtElements ==
  ASSUME NEW S, NEW s \in Seq(S), NEW i \in 1 .. Len(s), NEW j \in 1 .. Len(s) - 1
  PROVE  RemoveAt(s, i)[j] = IF j < i THEN s[j] ELSE s[j + 1]
<1> DEFINE u == SubSeq(s, 1, i - 1)
           v == SubSeq(s, i + 1, Len(s))
<1>1. u \in Seq(S) /\ Len(u) = i - 1 /\ (j < i => u[j] = s[j])
  OBVIOUS
<1>2. v \in Seq(S) /\ Len(v) = Len(s) - i /\ (j >= i => v[j - (i - 1)] = s[j + 1])
  OBVIOUS
<1>3. RemoveAt(s, i) = u \o v
  BY DEF RemoveAt
<1> HIDE DEF u, v
<1>4. CASE j < i
  <2>1. j \in 1 .. Len(u)
    BY <1>1, <1>4
  <2> QED BY <1>1, <1>2, <1>3, <1>4, <2>1
<1>5. CASE j >= i
  <2>1. j \in Len(u) + 1 .. Len(u) + Len(v)
    BY <1>1, <1>2, <1>5
  <2>2. (u \o v)[j] = v[j - Len(u)]
    BY <1>1, <1>2, <2>1
  <2> QED BY <1>1, <1>2, <1>3, <1>5, <2>2
<1> QED BY <1>4, <1>5

\* Removing from a window of one or two, and appending to one of one.
LEMMA ShortRemovals ==
  ASSUME NEW S, NEW a \in S, NEW b \in S
  PROVE  /\ RemoveAt(<<a>>, 1) = << >>
         /\ RemoveAt(<<a, b>>, 1) = <<b>>
         /\ RemoveAt(<<a, b>>, 2) = <<a>>
         /\ Append(<<a>>, b) = <<a, b>>
<1>1. RemoveAt(<<a>>, 1) = << >>
  <2> DEFINE s == <<a>>
  <2>1. s \in Seq(S) /\ Len(s) = 1
    OBVIOUS
  <2> HIDE DEF s
  <2>2. 1 \in 1 .. Len(s)
    BY <2>1
  <2>3. RemoveAt(s, 1) \in Seq(S) /\ Len(RemoveAt(s, 1)) = Len(s) - 1
    BY <2>1, <2>2, RemoveAtType, Zenon
  <2>4. RemoveAt(s, 1) = << >>
    BY <2>1, <2>3, ShortSequences
  <2> QED BY <2>4 DEF s
<1> DEFINE s == <<a, b>>
<1>2. s \in Seq(S) /\ Len(s) = 2 /\ s[1] = a /\ s[2] = b
  OBVIOUS
<1> HIDE DEF s
<1>3. ASSUME NEW i \in 1 .. Len(s)
      PROVE  RemoveAt(s, i) = <<s[IF 1 < i THEN 1 ELSE 2]>>
  <2>1. RemoveAt(s, i) \in Seq(S) /\ Len(RemoveAt(s, i)) = Len(s) - 1
    BY <1>2, RemoveAtType, Zenon
  <2>2. 1 \in 1 .. Len(s) - 1
    BY <1>2
  <2>3. RemoveAt(s, i)[1] = IF 1 < i THEN s[1] ELSE s[1 + 1]
    BY <1>2, <2>2, RemoveAtElements, Zenon
  <2> QED BY <1>2, <2>1, <2>3, ShortSequences
<1>4. Append(<<a>>, b) = <<a, b>>
  <2>1. /\ Append(<<a>>, b) \in Seq(S) /\ Len(Append(<<a>>, b)) = 2
        /\ Append(<<a>>, b)[1] = a /\ Append(<<a>>, b)[2] = b
    OBVIOUS
  <2> QED BY <2>1, ShortSequences
<1>5. RemoveAt(s, 1) = <<b>> /\ RemoveAt(s, 2) = <<a>>
  BY <1>2, <1>3
<1> QED BY <1>1, <1>4, <1>5 DEF s

\* Before a kernel of the window is launched with every earlier one done, the
\* GPU is empty.
LEMMA FirstStarts ==
  ASSUME TypeOK, GPUKnown, WindowKnown, StreamsKnown, FirstLaunched, WindowSize <= 2,
         kernels_info # << >>, kernels_info[1] \notin was_launched
  PROVE  Live = {} /\ running = {} /\ CanLaunch(kernels_info[1])
<1>1. Live = {}
  BY WindowShapes DEF FirstLaunched, Live
<1>2. running = {}
  BY <1>1 DEF GPUKnown, WindowKnown, Live
<1> QED BY <1>1, <1>2, EmptyGPUStarts DEF CanLaunch, StreamsKnown

\* What does not touch the window, the GPU or the command list keeps what is
\* known of them.
LEMMA KnownKept ==
  ASSUME UNCHANGED <<frontEnd, gpu, ghosts>>, finished_uid' \in {finished_uid, 0}
  PROVE  /\ GPUKnown => GPUKnown'
         /\ WindowKnown => WindowKnown'
         /\ StreamsKnown => StreamsKnown'
         /\ active' = active
<1>1. /\ Window' = Window /\ Live' = Live
      /\ Before(commandlist_index)' = Before(commandlist_index)
      /\ \A k : Stream(k)' = Stream(k)
  BY DEF Window, Live, Before, Kernels, Stream, frontEnd
<1> QED BY <1>1 DEF GPUKnown, WindowKnown, StreamsKnown, active, frontEnd, gpu, ghosts

\* Every step of simulation_loop keeps the invariant of the small windows.
LEMMA PairNext ==
  ASSUME WindowSize <= 2
  PROVE  TypeOK /\ PairInv /\ [Next]_vars => PairInv'
<1> SUFFICES ASSUME TypeOK, PairInv, [Next]_vars PROVE PairInv'
  OBVIOUS
<1>0. /\ commandlist_index \in Nat /\ cursor \in Nat \ {0}
      /\ kernels_info \in Seq(Kernels) /\ Kernels \subseteq Nat \ {0}
  <2>1. commandlist \in Seq(Streams \cup {Memcpy})
    BY CommandAssumption DEF TypeOK
  <2> QED BY <2>1 DEF TypeOK, Kernels
<1>1. CASE EnterLoop \/ LeaveLoop
  <2>1. ~ max_hit /\ UNCHANGED <<frontEnd, loopVars, gpu, ghosts>> /\ pc' \in {"parse", "exit"}
    BY <1>1 DEF EnterLoop, LeaveLoop, PairInv
  <2>2. finished_uid' = finished_uid
    BY <2>1 DEF loopVars
  <2>3. FirstLaunched'
    BY <2>1 DEF PairInv, FirstLaunched, frontEnd
  <2> QED BY <2>1, <2>2, <2>3, KnownKept DEF PairInv, gpu
<1>2. CASE ParseMemcpy
  <2>1. ~ max_hit /\ pc' = pc /\ pc = "parse"
    BY <1>2 DEF ParseMemcpy, PairInv
  <2>2. Before(commandlist_index)' = Before(commandlist_index)
    <3>1. commandlist_index \notin Kernels
      BY <1>2 DEF ParseMemcpy, Kernels
    <3>2. Before(commandlist_index + 1) = Before(commandlist_index)
      BY <3>1, BeforeNext
    <3> QED BY <1>2, <3>2 DEF ParseMemcpy, Before, Kernels
  <2>3. Window' = Window /\ Live' = Live /\ \A k : Stream(k)' = Stream(k)
    BY <1>2 DEF ParseMemcpy, Window, Live, Stream
  <2>4. GPUKnown'
    BY <1>2, <2>1 DEF ParseMemcpy, PairInv, GPUKnown, loopVars, gpu, ghosts
  <2>5. WindowKnown'
    BY <1>2, <2>1, <2>2, <2>3 DEF ParseMemcpy, PairInv, WindowKnown, ghosts
  <2>6. StreamsKnown'
    BY <1>2, <2>1, <2>3 DEF ParseMemcpy, PairInv, StreamsKnown
  <2>7. FirstLaunched'
    BY <1>2, <2>1 DEF ParseMemcpy, PairInv, FirstLaunched
  <2> QED BY <1>2, <2>1, <2>4, <2>5, <2>6, <2>7 DEF ParseMemcpy, PairInv, gpu
<1>3. CASE ParseKernel
  <2> DEFINE n == commandlist_index
  <2>1. /\ ~ max_hit /\ pc' = pc /\ pc = "parse"
        /\ GPUKnown /\ WindowKnown /\ StreamsKnown /\ FirstLaunched
    BY <1>3 DEF ParseKernel, PairInv
  <2>2. n \in Kernels
    BY <1>0, <1>3 DEF ParseKernel, WindowOpen, MoreCommands, Kernels, TypeOK
  <2>3. n \notin Before(n)
    BY <1>0 DEF Before
  <2>4. Before(commandlist_index)' = Before(n) \cup {n}
    <3>1. Before(n + 1) = Before(n) \cup {n}
      BY <2>2, BeforeNext
    <3> QED BY <1>3, <3>1 DEF ParseKernel, Before, Kernels
  <2>5. \/ kernels_info = << >> /\ Window = {} /\ kernels_info' = <<n>>
        \/ \E a \in Kernels : /\ kernels_info = <<a>> /\ Window = {a}
                              /\ kernels_info' = <<a, n>>
    <3>1. Len(kernels_info) < 2
      <4>1. WindowSize \in Nat /\ Len(kernels_info) \in Nat
        BY <1>0, WindowAssumption
      <4> QED BY <1>3, <4>1 DEF ParseKernel, WindowOpen
    <3>2. kernels_info' = Append(kernels_info, n)
      BY <1>3 DEF ParseKernel
    <3>3. ASSUME NEW a \in Kernels, kernels_info = <<a>>, Window = {a}
          PROVE  kernels_info' = <<a, n>>
      BY <2>2, <3>2, <3>3, ShortRemovals
    <3>4. ASSUME NEW a \in Kernels, NEW b \in Kernels, kernels_info = <<a, b>>
          PROVE  FALSE
      BY <3>1, <3>4
    <3>5. kernels_info = << >> => kernels_info' = <<n>>
      BY <3>2
    <3> QED BY <3>3, <3>4, <3>5, WindowShapes
  <2>6. Window' = Window \cup {n}
    BY <2>5, ShortSets DEF Window
  <2>7. Live' = Live /\ \A k : Stream(k)' = Stream(k)
    BY <1>3, <2>1, <2>3, <2>6 DEF ParseKernel, Live, Stream, WindowKnown
  <2>8. GPUKnown'
    BY <1>3, <2>1 DEF ParseKernel, GPUKnown, loopVars, gpu, ghosts
  <2>9. WindowKnown'
    <3>1. /\ (Window \cup erased)' = Before(commandlist_index)'
          /\ (Window \cap erased)' = {}
          /\ (erased \subseteq done)' /\ was_launched' \subseteq Before(commandlist_index)'
      BY <1>3, <2>1, <2>3, <2>4, <2>6 DEF ParseKernel, WindowKnown, ghosts
    <3>2. Len(kernels_info') = 2 => kernels_info'[1] < kernels_info'[2]
      <4>1. \A a \in Window : a < n
        BY <2>1 DEF WindowKnown, Before
      <4> QED BY <2>5, <4>1
    <3> QED BY <3>1, <3>2 DEF WindowKnown
  <2>10. StreamsKnown'
    BY <1>3, <2>1, <2>7 DEF ParseKernel, StreamsKnown
  <2>11. FirstLaunched'
    <3>1. n \notin was_launched'
      BY <1>3, <2>1, <2>3 DEF ParseKernel, WindowKnown
    <3>2. Len(kernels_info') = 2 => kernels_info'[2] = n
      BY <2>5
    <3> QED BY <2>1, <3>1, <3>2 DEF FirstLaunched
  <2> QED BY <1>3, <2>1, <2>8, <2>9, <2>10, <2>11 DEF ParseKernel, PairInv, gpu
<1>4. CASE ParseDone
  <2>1. /\ ~ max_hit /\ UNCHANGED <<frontEnd, gpu, ghosts>> /\ finished_uid' = finished_uid
        /\ pc' = "launch" /\ cursor' = 1
    BY <1>4 DEF ParseDone, PairInv
  <2>2. FirstLaunched'
    BY <2>1 DEF PairInv, FirstLaunched, frontEnd
  <2> QED BY <2>1, <2>2, KnownKept DEF PairInv, gpu
<1>5. CASE LaunchKernel
  <2> DEFINE k == kernels_info[cursor]
  <2>1. /\ ~ max_hit /\ pc' = pc /\ pc = "launch" /\ cursor' = cursor + 1
        /\ GPUKnown /\ WindowKnown /\ StreamsKnown /\ FirstLaunched
        /\ running' = running \cup {k} /\ was_launched' = was_launched \cup {k}
        /\ busy_streams' = busy_streams \cup {Stream(k)}
        /\ UNCHANGED <<commandlist, commandlist_index, kernels_info, finished_uid,
                       finished_list, max_hit, ghosts>>
        /\ Stream(k) \notin busy_streams /\ k \notin was_launched
    BY <1>5 DEF LaunchKernel, PairInv, CanLaunch
  <2>2. cursor \in 1 .. Len(kernels_info)
    BY <1>0, <1>5 DEF LaunchKernel
  <2>3. k \in Window
    BY <1>0, <2>2 DEF Window, ToSet
  <2>4. Window' = Window /\ Live' = Live \cup {k} /\ \A l : Stream(l)' = Stream(l)
    BY <2>1, <2>3 DEF Window, Live, Stream
  <2>5. GPUKnown'
    BY <2>1 DEF GPUKnown, ghosts
  <2>6. WindowKnown'
    <3>1. Before(commandlist_index)' = Before(commandlist_index)
      BY <2>1 DEF Before, Kernels
    <3> QED BY <2>1, <2>3, <2>4, <3>1 DEF WindowKnown, ghosts
  <2>7. StreamsKnown'
    <3>1. \A l \in Live : Stream(l) # Stream(k)
      BY <2>1 DEF StreamsKnown
    <3>2. busy_streams' = {Stream(l) : l \in Live \cup {k}}
      BY <2>1 DEF StreamsKnown
    <3>3. \A l, m \in Live \cup {k} : Stream(l) = Stream(m) => l = m
      BY <2>1, <3>1 DEF StreamsKnown
    <3> QED BY <2>4, <3>2, <3>3, Zenon DEF StreamsKnown
  <2>8. FirstLaunched'
    <3>1. kernels_info[1] \in was_launched'
      <4>1. CASE cursor = 1
        BY <2>1, <4>1
      <4>2. CASE cursor # 1
        <5>1. kernels_info # << >>
          BY <2>2
        <5> QED BY <2>1, <4>2, <5>1 DEF FirstLaunched
      <4> QED BY <4>1, <4>2
    <3> QED BY <2>1, <3>1 DEF FirstLaunched
  <2> QED BY <2>1, <2>5, <2>6, <2>7, <2>8 DEF PairInv
<1>6. CASE PassKernel
  <2>1. /\ ~ max_hit /\ UNCHANGED <<frontEnd, gpu, ghosts>> /\ finished_uid' = finished_uid
        /\ pc' = pc /\ pc = "launch"
        /\ GPUKnown /\ WindowKnown /\ StreamsKnown /\ FirstLaunched
    BY <1>6 DEF PassKernel, PairInv
  <2>2. kernels_info # << >> /\ kernels_info[1] \in was_launched
    <3>1. kernels_info # << >>
      BY <1>0, <1>6 DEF PassKernel
    <3>2. CASE cursor = 1
      <4>1. ~ CanLaunch(kernels_info[1])
        BY <1>6, <3>2 DEF PassKernel
      <4> QED BY <2>1, <3>1, <4>1, FirstStarts
    <3>3. CASE cursor # 1
      BY <2>1, <3>1, <3>3 DEF FirstLaunched
    <3> QED BY <3>1, <3>2, <3>3
  <2>3. FirstLaunched'
    BY <2>1, <2>2 DEF FirstLaunched, frontEnd
  <2> QED BY <2>1, <2>3, KnownKept DEF PairInv, gpu
<1>7. CASE LaunchDone
  <2>1. /\ ~ max_hit /\ UNCHANGED <<frontEnd, loopVars, gpu, ghosts>>
        /\ pc' = "simulate" /\ pc = "launch"
    BY <1>7 DEF LaunchDone, PairInv
  <2>2. finished_uid' = finished_uid
    BY <2>1 DEF loopVars
  <2>3. kernels_info = << >> \/ cursor # 1
    <3>1. cursor > Len(kernels_info)
      BY <1>7 DEF LaunchDone
    <3>2. kernels_info # << >> => Len(kernels_info) >= 1
      BY <1>0
    <3> QED BY <1>0, <3>1, <3>2
  <2>4. FirstLaunched'
    BY <2>1, <2>3 DEF PairInv, FirstLaunched, frontEnd
  <2> QED BY <2>1, <2>2, <2>4, KnownKept DEF PairInv, gpu
<1>8. CASE SimulateInactive
  <2>1. /\ UNCHANGED <<frontEnd, gpu, ghosts>> /\ finished_uid' = 0
        /\ pc = "simulate" /\ pc' = "cleanup" /\ cursor' = 1
    BY <1>8 DEF SimulateInactive, EnterCleanup
  <2>2. ~ max_hit
    BY <2>1 DEF PairInv
  <2>3. FirstLaunched'
    BY <2>1, <2>2 DEF PairInv, FirstLaunched, frontEnd
  <2> QED BY <2>1, <2>2, <2>3, KnownKept DEF PairInv, gpu
<1>9. CASE SimulateCycle
  <2>1. /\ ~ max_hit /\ pc = "simulate" /\ UNCHANGED <<frontEnd, erased>>
        /\ GPUKnown /\ WindowKnown /\ StreamsKnown /\ FirstLaunched
    BY <1>9 DEF SimulateCycle, PairInv, active
  <2>2. EnterCleanup \/ (UNCHANGED <<pc, cursor, seen>> /\ active')
    BY <1>9, Zenon DEF SimulateCycle
  <2>3. PICK F \in SUBSET running :
          /\ running' = running \ F /\ done' = done \cup F
          /\ finished_uid' \in finished_list \cup F \cup {0}
          /\ finished_list' \subseteq finished_list \cup F
    BY <1>9 DEF SimulateCycle
  <2>4. /\ Window' = Window /\ Live' = Live /\ \A k : Stream(k)' = Stream(k)
        /\ Before(commandlist_index)' = Before(commandlist_index)
    BY <2>1 DEF Window, Live, Stream, Before, Kernels, frontEnd
  <2>5. GPUKnown'
    BY <2>1, <2>3 DEF GPUKnown, frontEnd
  <2>6. WindowKnown'
    BY <2>1, <2>3, <2>4 DEF WindowKnown, frontEnd
  <2>7. StreamsKnown'
    BY <2>1, <2>4 DEF StreamsKnown, frontEnd
  <2>8. FirstLaunched'
    <3>1. pc' = "simulate" \/ (pc' = "cleanup" /\ cursor' = 1)
      BY <2>1, <2>2 DEF EnterCleanup
    <3> QED BY <2>1, <3>1 DEF FirstLaunched, frontEnd
  <2>9. max_hit' => pc' = "cleanup"
    BY <2>2 DEF EnterCleanup, active
  <2> QED BY <2>5, <2>6, <2>7, <2>8, <2>9 DEF PairInv
<1>10. CASE EraseKernel
  <2> DEFINE k == kernels_info[cursor]
  <2>1. pc' \in {"cleanup", "after"} /\ max_hit' = max_hit
    BY <1>10 DEF EraseKernel, AfterErase, gpu
  <2>2. SUFFICES ASSUME ~ max_hit
                 PROVE  GPUKnown' /\ WindowKnown' /\ StreamsKnown' /\ FirstLaunched'
    BY <2>1 DEF PairInv
  <2>3. /\ pc = "cleanup" /\ GPUKnown /\ WindowKnown /\ StreamsKnown /\ FirstLaunched
        /\ MustErase(k)
        /\ busy_streams' = busy_streams \ {Stream(k)} /\ erased' = erased \cup {k}
        /\ kernels_info' = RemoveAt(kernels_info, cursor)
        /\ UNCHANGED <<commandlist, commandlist_index, was_launched, finished_uid,
                       gpu, done>>
    BY <1>10, <2>2 DEF EraseKernel, FreeStream, PairInv
  <2>4. cursor \in 1 .. Len(kernels_info)
    BY <1>0, <1>10 DEF EraseKernel
  <2>5. \/ \E a \in Kernels : /\ kernels_info = <<a>> /\ Window = {a}
                              /\ cursor = 1 /\ k = a /\ kernels_info' = << >>
        \/ \E a, b \in Kernels : /\ kernels_info = <<a, b>> /\ Window = {a, b}
                                 /\ \/ cursor = 1 /\ k = a /\ kernels_info' = <<b>>
                                    \/ cursor = 2 /\ k = b /\ kernels_info' = <<a>>
    <3>1. CASE kernels_info = << >>
      BY <2>4, <3>1
    <3>2. ASSUME NEW a \in Kernels, kernels_info = <<a>>, Window = {a}
          PROVE  cursor = 1 /\ k = a /\ kernels_info' = << >>
      BY <2>3, <2>4, <3>2 DEF RemoveAt
    <3>3. ASSUME NEW a \in Kernels, NEW b \in Kernels, kernels_info = <<a, b>>
          PROVE  \/ cursor = 1 /\ k = a /\ kernels_info' = <<b>>
                 \/ cursor = 2 /\ k = b /\ kernels_info' = <<a>>
      <4>1. CASE cursor = 1
        BY <2>3, <3>3, <4>1, ShortRemovals
      <4>2. CASE cursor = 2
        BY <2>3, <3>3, <4>2, ShortRemovals
      <4>3. Len(kernels_info) = 2
        BY <3>3
      <4> QED BY <2>4, <4>1, <4>2, <4>3
    <3> QED BY <3>1, <3>2, <3>3, WindowShapes
  <2>6. k \in Window /\ k \in was_launched /\ k \in done
    <3>1. CASE cursor = 1
      <4>1. k \in was_launched
        BY <2>3, <2>5, <3>1 DEF FirstLaunched
      <4>2. CASE active
        BY <1>0, <2>3, <2>5, <4>2 DEF MustErase, GPUKnown
      <4>3. CASE ~ active
        <5>1. running = {}
          BY <2>2, <4>3 DEF active
        <5> QED BY <2>3, <2>5, <4>1, <5>1 DEF GPUKnown
      <4> QED BY <2>5, <4>1, <4>2, <4>3
    <3>2. CASE cursor = 2
      <4>1. active
        BY <2>3, <2>5, <3>2 DEF FirstLaunched
      <4>2. k = finished_uid /\ k # 0
        BY <1>0, <2>3, <2>5, <4>1 DEF MustErase
      <4> QED BY <2>3, <2>5, <4>2 DEF GPUKnown
    <3> QED BY <2>5, <3>1, <3>2
  <2>7. Window' = Window \ {k} /\ Live' = Live \ {k} /\ \A l : Stream(l)' = Stream(l)
    <3>1. \A a, b \in Kernels : kernels_info = <<a, b>> => a # b
      BY <1>0, <2>3 DEF WindowKnown
    <3>2. Window' = Window \ {k}
      BY <2>5, <3>1, ShortSets DEF Window
    <3> QED BY <2>3, <3>2 DEF Live, Stream
  <2>8. GPUKnown'
    BY <2>3 DEF GPUKnown, gpu
  <2>9. WindowKnown'
    <3>1. Before(commandlist_index)' = Before(commandlist_index)
      BY <2>3 DEF Before, Kernels
    <3>2. /\ (Window \cup erased)' = Window \cup erased
          /\ (Window \cap erased)' = {} /\ (erased \subseteq done)'
      BY <2>3, <2>6, <2>7 DEF WindowKnown
    <3>3. Len(kernels_info') # 2
      BY <2>5
    <3> QED BY <2>3, <3>1, <3>2, <3>3 DEF WindowKnown
  <2>10. StreamsKnown'
    <3>1. k \in Live
      BY <2>6 DEF Live
    <3>2. {Stream(l) : l \in Live} \ {Stream(k)} = {Stream(l) : l \in Live \ {k}}
      BY <2>3, <3>1 DEF StreamsKnown
    <3>3. \A l, m \in Live \ {k} : Stream(l) = Stream(m) => l = m
      BY <2>3 DEF StreamsKnown
    <3>4. busy_streams' = {Stream(l) : l \in Live \ {k}}
      BY <2>3, <3>2 DEF StreamsKnown
    <3> QED BY <2>7, <3>3, <3>4, Zenon DEF StreamsKnown
  <2>11. FirstLaunched'
    <3>1. Len(kernels_info') # 2
      BY <2>5
    <3>2. pc' = "after" \/ cursor' # 1
      BY <1>0, <1>10 DEF EraseKernel, AfterErase
    <3>3. pc' \notin {"simulate", "launch"}
      BY <2>1
    <3> QED BY <3>1, <3>2, <3>3 DEF FirstLaunched
  <2> QED BY <2>8, <2>9, <2>10, <2>11
<1>11. CASE KeepKernel
  <2>1. /\ UNCHANGED <<frontEnd, gpu, ghosts>> /\ finished_uid' = finished_uid
        /\ pc = "cleanup" /\ pc' = pc /\ cursor' # 1 /\ active
    BY <1>0, <1>11 DEF KeepKernel, MustErase
  <2>2. active' /\ max_hit' = max_hit
    BY <2>1, KnownKept DEF gpu
  <2>3. ~ max_hit => FirstLaunched'
    BY <2>1, <2>2 DEF PairInv, FirstLaunched, frontEnd
  <2> QED BY <2>1, <2>2, <2>3, KnownKept DEF PairInv
<1>12. CASE CleanupDone \/ EndOfBody
  <2>1. /\ UNCHANGED <<frontEnd, loopVars, gpu, ghosts>>
        /\ pc' \in {"after", "abort", "exit", "loop"} /\ (max_hit => pc' # "loop")
    BY <1>12 DEF CleanupDone, EndOfBody
  <2>2. finished_uid' = finished_uid /\ max_hit' = max_hit
    BY <2>1 DEF loopVars, gpu
  <2>3. ~ max_hit => FirstLaunched'
    BY <2>1 DEF PairInv, FirstLaunched, frontEnd
  <2> QED BY <2>1, <2>2, <2>3, KnownKept DEF PairInv
<1>13. CASE Terminated \/ UNCHANGED vars
  <2>1. UNCHANGED <<frontEnd, gpu, ghosts>> /\ UNCHANGED <<pc, loopVars>>
    BY <1>13 DEF Terminated, vars
  <2>2. finished_uid' = finished_uid /\ max_hit' = max_hit /\ active' = active
    BY <2>1, KnownKept DEF loopVars, gpu
  <2>3. ~ max_hit => FirstLaunched'
    BY <2>1, <2>2 DEF PairInv, FirstLaunched, frontEnd, loopVars
  <2> QED BY <2>1, <2>2, <2>3, KnownKept DEF PairInv
<1> QED BY <1>1, <1>2, <1>3, <1>4, <1>5, <1>6, <1>7, <1>8, <1>9, <1>10, <1>11, <1>12,
           <1>13 DEF Next

\* At the start nothing is read, launched or done.
LEMMA PairInit == Init => PairInv
<1> SUFFICES ASSUME Init PROVE PairInv
  OBVIOUS
<1>1. Window = {} /\ Live = {}
  BY ShortSets DEF Init, Window, Live
<1>2. Before(commandlist_index) = {}
  BY NothingBefore DEF Init
<1> QED BY <1>1, <1>2
        DEF Init, PairInv, GPUKnown, WindowKnown, StreamsKnown, FirstLaunched

\* The invariant of the small windows holds throughout.
LEMMA PairCorrect ==
  ASSUME WindowSize <= 2
  PROVE  Spec => [](TypeOK /\ PairInv)
BY TypeInit, TypeNext, PairInit, PairNext, PTL DEF Spec

\* With a window of one or two, cleanup removes only kernels the GPU has
\* completed, for every set of command lists (cleanup: "cleanup finished
\* kernel").  With a window of three it does not hold.
THEOREM NoKernelDroppedCorrect ==
  ASSUME WindowSize <= 2
  PROVE  Spec => []NoKernelDropped
<1>1. PairInv => NoKernelDropped
  BY DEF PairInv, WindowKnown, NoKernelDropped
<1> QED BY <1>1, PairCorrect, PTL

\* With a window of one or two, the streams that simulation_loop holds back are
\* at its head exactly those of the launched kernels in the window, and no two
\* of these share one.
THEOREM BusyStreamsCorrect ==
  ASSUME WindowSize <= 2
  PROVE  Spec => []BusyStreamsExact
<1>1. PairInv => BusyStreamsExact
  BY DEF PairInv, StreamsKnown, Live, BusyStreamsExact
<1> QED BY <1>1, PairCorrect, PTL

-----------------------------------------------------------------------------
(* Refinement *)

\* Initially every command of the list is waiting.
LEMMA OrderInit == Init => Order!Init
BY DEF Init, Order!Init, Status

\* A kernel about to be launched finds every earlier one of its stream done:
\* erased ones are, and one that is still in the window comes first there, has
\* been launched, and keeps the stream busy.
LEMMA PredecessorsDone ==
  ASSUME TypeOK, PairInv, LaunchKernel, WindowSize <= 2,
         NEW j \in Order!Predecessors(kernels_info[cursor])
  PROVE  j \in done
<1> DEFINE k == kernels_info[cursor]
<1>0. /\ ~ max_hit /\ pc = "launch"
      /\ WindowKnown /\ StreamsKnown /\ FirstLaunched
      /\ Stream(k) \notin busy_streams /\ cursor <= Len(kernels_info)
  BY DEF LaunchKernel, CanLaunch, PairInv
<1>1. /\ commandlist \in Seq(Streams \cup {Memcpy}) /\ commandlist_index \in Nat
      /\ cursor \in 1 .. Len(kernels_info) /\ kernels_info \in Seq(Kernels)
      /\ Kernels \subseteq Nat
  <2>1. commandlist \in Seq(Streams \cup {Memcpy})
    BY CommandAssumption DEF TypeOK
  <2> QED BY <1>0, <2>1 DEF TypeOK, Kernels
<1>2. k \in Kernels /\ k \in Window
  BY <1>1 DEF Window, ToSet
<1>3. j \in Kernels /\ j < k /\ Stream(j) = Stream(k)
  BY <1>2 DEF Order!Predecessors, Kernels, Stream
<1>4. j \in Window \cup erased
  <2>1. k \in Before(commandlist_index)
    BY <1>0, <1>2 DEF WindowKnown
  <2>2. k < commandlist_index
    BY <2>1 DEF Before
  <2>3. j < commandlist_index
    <3>1. j \in Nat /\ k \in Nat /\ commandlist_index \in Nat
      BY <1>1, <1>2, <1>3, Zenon
    <3>2. \A x, y, z \in Nat : x < y /\ y < z => x < z
      OBVIOUS
    <3> QED BY <1>3, <2>2, <3>1, <3>2, Zenon
  <2> QED BY <1>0, <1>3, <2>3 DEF Before, WindowKnown
<1>5. CASE j \in erased
  BY <1>0, <1>5 DEF WindowKnown
<1>6. CASE j \in Window
  <2>1. j \notin was_launched
    BY <1>0, <1>3, <1>6 DEF StreamsKnown, Live
  <2>2. ASSUME NEW a \in Kernels, kernels_info = <<a>>, Window = {a} PROVE FALSE
    BY <1>1, <1>2, <1>3, <1>6, <2>2
  <2>3. ASSUME NEW a \in Kernels, NEW b \in Kernels,
               kernels_info = <<a, b>>, Window = {a, b}
        PROVE  FALSE
    <3>1. a < b
      BY <1>0, <2>3 DEF WindowKnown
    <3>2. j = a /\ k = b
      BY <1>1, <1>2, <1>3, <1>6, <2>3, <3>1
    <3>3. cursor # 1
      BY <1>1, <1>3, <2>3, <3>2
    <3>4. a \in was_launched
      BY <1>0, <2>3, <3>3 DEF FirstLaunched
    <3> QED BY <2>1, <3>2, <3>4
  <2>4. CASE kernels_info = << >>
    BY <1>1, <2>4
  <2> QED BY <2>2, <2>3, <2>4, WindowShapes
<1> QED BY <1>4, <1>5, <1>6

\* Every step of the front end with a window of one or two is a step of
\* StreamOrder or changes nothing there.
LEMMA OrderNext ==
  ASSUME WindowSize <= 2
  PROVE  TypeOK /\ PairInv /\ [Next]_vars => [Order!Next]_(Order!vars)
<1> SUFFICES ASSUME TypeOK, PairInv, [Next]_vars
             PROVE  [Order!Next]_(Order!vars)
  OBVIOUS
<1>1. ASSUME UNCHANGED <<commandlist, was_launched, done>>
      PROVE  UNCHANGED Order!vars
  BY <1>1 DEF Order!vars, Status
<1>2. CASE LaunchKernel
  <2> DEFINE k == kernels_info[cursor]
  <2>1. ~ max_hit /\ GPUKnown
    BY <1>2 DEF LaunchKernel, PairInv
  <2>2. k \in Kernels /\ k \notin was_launched /\ k \notin done
    <3>1. k \in Kernels
      BY <1>2 DEF LaunchKernel, TypeOK
    <3> QED BY <1>2, <2>1, <3>1 DEF LaunchKernel, CanLaunch, GPUKnown
  <2>3. /\ commandlist' = commandlist /\ done' = done
        /\ was_launched' = was_launched \cup {k}
    BY <1>2 DEF LaunchKernel, ghosts
  <2>4. k \in DOMAIN commandlist /\ commandlist[k] # Memcpy /\ Status[k] = "waiting"
    BY <2>2 DEF Kernels, Status
  <2>5. \A j \in Order!Predecessors(k) : Status[j] = "done"
    <3>1. \A j \in Order!Predecessors(k) : j \in done
      BY <1>2, PredecessorsDone
    <3> QED BY <3>1 DEF Order!Predecessors, Status
  <2>6. Status' = [Status EXCEPT ![k] = "running"]
    BY <2>2, <2>3 DEF Status
  <2>7. Order!Launch(k)
    BY <2>3, <2>4, <2>5, <2>6 DEF Order!Launch
  <2> QED BY <2>4, <2>7 DEF Order!Next
<1>3. CASE SimulateCycle
  <2>1. ~ max_hit /\ GPUKnown
    BY <1>3 DEF SimulateCycle, active, PairInv
  <2>2. PICK F \in SUBSET running : done' = done \cup F
    BY <1>3 DEF SimulateCycle
  <2>3. commandlist' = commandlist /\ was_launched' = was_launched
    BY <1>3 DEF SimulateCycle, frontEnd
  <2>4. /\ F \subseteq DOMAIN commandlist
        /\ \A k \in F : Status[k] = "running"
    <3>1. F \subseteq Kernels /\ F \subseteq was_launched /\ F \cap done = {}
      BY <2>1, <2>2 DEF TypeOK, GPUKnown
    <3> QED BY <3>1 DEF Kernels, Status
  <2>5. Status' = [k \in DOMAIN commandlist |-> IF k \in F THEN "done" ELSE Status[k]]
    BY <2>2, <2>3 DEF Status
  <2>6. Order!Complete(F)
    BY <2>3, <2>4, <2>5 DEF Order!Complete
  <2> QED BY <2>4, <2>6 DEF Order!Next
<1>4. ASSUME \/ EnterLoop \/ LeaveLoop \/ ParseMemcpy \/ ParseKernel \/ ParseDone
             \/ PassKernel \/ LaunchDone \/ SimulateInactive \/ EraseKernel
             \/ KeepKernel \/ CleanupDone \/ EndOfBody \/ Terminated
             \/ UNCHANGED vars
      PROVE  UNCHANGED <<commandlist, was_launched, done>>
  BY <1>4 DEF EnterLoop, LeaveLoop, ParseMemcpy, ParseKernel, ParseDone, PassKernel,
              LaunchDone, SimulateInactive, EraseKernel, KeepKernel, CleanupDone,
              EndOfBody, Terminated, vars, frontEnd, ghosts
<1> QED BY <1>1, <1>2, <1>3, <1>4 DEF Next

\* With a window of one or two the front end implements StreamOrder: the
\* kernels of a stream run one after the other, in order, each at most once.
THEOREM ImplementsStreamOrderCorrect ==
  ASSUME WindowSize <= 2
  PROVE  Spec => ImplementsStreamOrder
BY OrderInit, OrderNext, PairCorrect, PTL
   DEF Spec, ImplementsStreamOrder, Order!Spec
=============================================================================
