------------------------------ MODULE StreamOrder ------------------------------
(***************************************************************************)
(* What a CUDA application may rely on, and what Accel-Sim's front end has *)
(* to keep of it: the kernels of one stream run one after the other in the *)
(* order of the command list, each at most once; kernels of different      *)
(* streams may overlap.                                                    *)
(***************************************************************************)
EXTENDS Naturals, Sequences

CONSTANTS
  Streams,        \* CUDA streams
  Memcpy,         \* marks a host-to-device copy in a command list
  CommandLists    \* the command lists considered

VARIABLES
  commandlist,    \* for each command, its stream, or Memcpy
  status          \* for each command: waiting, running or done

vars == <<commandlist, status>>

Init ==
  /\ commandlist \in CommandLists
  /\ status = [k \in DOMAIN commandlist |-> "waiting"]

Predecessors(k) ==
  {j \in DOMAIN commandlist : j < k /\ commandlist[j] = commandlist[k]}

Launch(k) ==
  /\ commandlist[k] # Memcpy
  /\ status[k] = "waiting"
  /\ \A j \in Predecessors(k) : status[j] = "done"
  /\ status' = [status EXCEPT ![k] = "running"]
  /\ UNCHANGED commandlist

\* Kernels that share the GPU may complete in the same cycle.
Complete(F) ==
  /\ \A k \in F : status[k] = "running"
  /\ status' = [k \in DOMAIN commandlist |->
                  IF k \in F THEN "done" ELSE status[k]]
  /\ UNCHANGED commandlist

Next ==
  \/ \E k \in DOMAIN commandlist : Launch(k)
  \/ \E F \in SUBSET DOMAIN commandlist : Complete(F)

Spec == Init /\ [][Next]_vars
=============================================================================
