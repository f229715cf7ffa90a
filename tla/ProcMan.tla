------------------------------- MODULE ProcMan -------------------------------
(***************************************************************************)
(* util/job_launching/procman.py: a user queues jobs one command at a time,  *)
(* "-S" spawns a process manager that takes the queue over, and every        *)
(* manager ticks: it collects the jobs that ended, reads the state files of  *)
(* the other managers, launches jobs up to the limit and saves its state.    *)
(* Managers and the user's commands are processes that share only files;     *)
(* saving a file truncates it first and writes it later.                    *)
(***************************************************************************)
EXTENDS Integers, Sequences, FiniteSets, SequencesExt

CONSTANTS
    NumProcs,   \* a bound on the managers spawned; a further "-S" goes on copying
    NumJobs,    \* a bound on the jobs submitted
    JobLimit    \* jobLimit, the number of cores

ASSUME ProcManAssumption ==
    /\ {NumProcs, NumJobs} \subseteq Nat /\ JobLimit \in Nat \ {0}

VARIABLES
    main,       \* procManStateFile
    tmp,        \* procManStateFile.tmp, the hand-over file
    own,        \* each manager's state file, procManStateFile.tmp.<pid>
    cli,        \* the user's command, with what it is still to write
    nextJobId,  \* number of the next job
    pm,         \* the managers
    running,    \* processes that live: <<manager, job>>
    copyFor     \* history: the manager tmp was copied for, 0 while it is copied

vars == <<main, tmp, own, cli, nextJobId, pm, running, copyFor>>

Jobs == 1..NumJobs
Procs == 1..NumProcs        \* in the order of their start

(* A pickle file: not there, truncated and not yet written, or whole. *)
Missing == [is |-> "missing", queued |-> <<>>, active |-> {}]
Torn == [is |-> "torn", queued |-> <<>>, active |-> {}]
Pickle(queued, active) == [is |-> "whole", queued |-> queued, active |-> active]

Idle == [pc |-> "idle", queued |-> <<>>, active |-> {}, complete |-> {},
         todo |-> {}, others |-> 0, loaded |-> 0, took |-> FALSE]

Init ==
    /\ main = Missing /\ tmp = Missing /\ own = [p \in Procs |-> Missing]
    /\ cli = [pc |-> "prompt", queued |-> <<>>]
    /\ nextJobId = 1
    /\ pm = [p \in Procs |-> Idle]
    /\ running = {} /\ copyFor = 0

-----------------------------------------------------------------------------
(* The user's commands, one at a time. *)

NextProc(p) == pm[p].pc = "idle" /\ \A q \in Procs : q < p => pm[q].pc # "idle"

AtPrompt == cli.pc = "prompt"

(* procman.py <job>: load or create the ProcMan, queue the job, save. *)
Submit ==
    /\ AtPrompt /\ nextJobId <= NumJobs
    /\ cli' = [pc |-> "save", queued |-> Append(main.queued, nextJobId)]
    /\ nextJobId' = nextJobId + 1
    /\ main' = Torn
    /\ UNCHANGED <<tmp, own, pm, running, copyFor>>

(* saveState writes what open() truncated. *)
SaveMain ==
    /\ cli.pc = "save"
    /\ main' = Pickle(cli.queued, {})
    /\ cli' = [pc |-> "prompt", queued |-> <<>>]
    /\ UNCHANGED <<tmp, own, nextJobId, pm, running, copyFor>>

(* procman.py -S: copy the state file, spawn a manager for the copy, clear     *)
(* the queue, save.                                                          *)
StartCopies ==
    /\ AtPrompt /\ main.is = "whole"
    /\ cli' = [pc |-> "copy", queued |-> main.queued]
    /\ tmp' = Torn /\ copyFor' = 0
    /\ UNCHANGED <<main, own, nextJobId, pm, running>>

SpawnProcMan(p) ==
    /\ cli.pc = "copy" /\ tmp.is = "torn" /\ NextProc(p)
    /\ tmp' = Pickle(cli.queued, {}) /\ copyFor' = p
    /\ pm' = [pm EXCEPT ![p].pc = "load"]
    /\ cli' = [cli EXCEPT !.pc = "clear"]
    /\ UNCHANGED <<main, own, nextJobId, running>>

(* The copy's file was removed under it: shutil.copy raises, nothing is cleared. *)
CopyFails ==
    /\ cli.pc = "copy" /\ tmp.is = "missing"
    /\ cli' = [pc |-> "prompt", queued |-> <<>>]
    /\ UNCHANGED <<main, tmp, own, nextJobId, pm, running, copyFor>>

ClearMain ==
    /\ cli.pc = "clear"
    /\ main' = Torn
    /\ cli' = [pc |-> "save", queued |-> <<>>]
    /\ UNCHANGED <<tmp, own, nextJobId, pm, running, copyFor>>

-----------------------------------------------------------------------------
(* A manager. *)
Dies(p, why) == pm' = [pm EXCEPT ![p].pc = why]

Load(p) ==
    /\ pm[p].pc = "load"
    /\ IF tmp.is = "whole"
       THEN pm' = [pm EXCEPT ![p].pc = "remove", ![p].queued = tmp.queued, ![p].loaded = copyFor]
       ELSE Dies(p, "died loading")
    /\ UNCHANGED <<main, tmp, own, cli, nextJobId, running, copyFor>>

(* os.remove(options.file); a manager without jobs is done. *)
RemoveTmp(p) ==
    /\ pm[p].pc = "remove"
    /\ IF tmp.is = "missing" THEN Dies(p, "died loading")
       ELSE pm' = [pm EXCEPT ![p].pc = IF pm[p].queued = <<>> THEN "done" ELSE "poll",
                             ![p].took = pm[p].loaded = copyFor, ![p].loaded = 0]
    /\ tmp' = Missing
    /\ UNCHANGED <<main, own, cli, nextJobId, running, copyFor>>

(* tick, first part: move the jobs that ended; then glob the state files. *)
Files == {-1, 0} \union Procs
File(f) == CASE f = -1 -> main [] f = 0 -> tmp [] OTHER -> own[f]

OthersFiles(p) == {f \in Files \ {p} : File(f).is # "missing"}

Alive(p) == {j \in pm[p].active : <<p, j>> \in running}
StillActive(p) == Alive(p)

Poll(p) ==
    LET ended == pm[p].active \ Alive(p)
    IN  /\ pm[p].pc = "poll"
        /\ pm' = [pm EXCEPT ![p].pc = "count", ![p].active = StillActive(p),
                            ![p].complete = @ \union ended,
                            ![p].todo = OthersFiles(p), ![p].others = 0]
        /\ UNCHANGED <<main, tmp, own, cli, nextJobId, running, copyFor>>

(* getCPUCountFromOtherProcMans: open and load the files one after the other.   *)
CountOthers(p, f) ==
    /\ pm[p].pc = "count" /\ f \in pm[p].todo
    /\ IF File(f).is = "whole"
       THEN pm' = [pm EXCEPT ![p].todo = @ \ {f}, ![p].others = @ + Cardinality(File(f).active)]
       ELSE Dies(p, "died counting")
    /\ UNCHANGED <<main, tmp, own, cli, nextJobId, running, copyFor>>

(* tick, last part: while a core is free the next job is taken off the queue     *)
(* and launched.                                                             *)
FreeCoresIgnoringActive(p) == JobLimit - pm[p].others
FreeCores(p) == JobLimit - (Cardinality(pm[p].active) + pm[p].others)

Counted(p) == pm[p].pc = "count" /\ pm[p].todo = {}
Fits(p) == FreeCores(p) > 0 /\ pm[p].queued # <<>>

StillQueuedAll(p) == pm[p].queued
StillQueuedSkips(p) == SubSeq(pm[p].queued, 3, Len(pm[p].queued))
StillQueued(p) == Tail(pm[p].queued)

Launch(p) ==
    LET new == Head(pm[p].queued)
    IN  /\ Counted(p) /\ Fits(p)
        /\ pm' = [pm EXCEPT ![p].queued = StillQueued(p), ![p].active = @ \union {new}]
        /\ running' = running \union {<<p, new>>}
        /\ UNCHANGED <<main, tmp, own, cli, nextJobId, copyFor>>

(* Its output file cannot be opened, as when the job's script names none, or     *)
(* its command cannot be started: the exception ends the manager.              *)
LaunchFails(p) ==
    /\ Counted(p) /\ Fits(p)
    /\ pm' = [pm EXCEPT ![p].pc = "died launching", ![p].queued = StillQueued(p)]
    /\ UNCHANGED <<main, tmp, own, cli, nextJobId, running, copyFor>>

(* saveState after the tick opens the manager's file.                          *)
TruncateState(p) ==
    /\ Counted(p) /\ ~Fits(p)
    /\ pm' = [pm EXCEPT ![p].pc = "write"]
    /\ own' = [own EXCEPT ![p] = Torn]
    /\ UNCHANGED <<main, tmp, cli, nextJobId, running, copyFor>>

(* The file is written; the manager sleeps and ticks again, or it has no jobs   *)
(* left and removes its file.                                                 *)
Complete(p) == pm[p].queued = <<>> /\ pm[p].active = {}

SavedWithoutActive(p) == Pickle(pm[p].queued, {})
Saved(p) == Pickle(pm[p].queued, pm[p].active)

WriteState(p) ==
    /\ pm[p].pc = "write"
    /\ own' = [own EXCEPT ![p] = Saved(p)]
    /\ pm' = [pm EXCEPT ![p].pc = IF Complete(p) THEN "leave" ELSE "poll"]
    /\ UNCHANGED <<main, tmp, cli, nextJobId, running, copyFor>>

RemoveState(p) ==
    /\ pm[p].pc = "leave"
    /\ own' = [own EXCEPT ![p] = Missing]
    /\ pm' = [pm EXCEPT ![p].pc = "done"]
    /\ UNCHANGED <<main, tmp, cli, nextJobId, running, copyFor>>

(* The job's process ends by itself or is killed (-k). *)
JobEnds(p, j) ==
    /\ <<p, j>> \in running
    /\ running' = running \ {<<p, j>>}
    /\ UNCHANGED <<main, tmp, own, cli, nextJobId, pm, copyFor>>

Command == SaveMain \/ StartCopies \/ (\E p \in Procs : SpawnProcMan(p)) \/ CopyFails \/ ClearMain
Manager(p) == \/ Load(p) \/ RemoveTmp(p) \/ Poll(p) \/ \E f \in Files : CountOthers(p, f)
              \/ Launch(p) \/ LaunchFails(p) \/ TruncateState(p) \/ WriteState(p) \/ RemoveState(p)

Next == Submit \/ Command \/ (\E p \in Procs : Manager(p)) \/ (\E p \in Procs, j \in Jobs : JobEnds(p, j))

Spec == Init /\ [][Next]_vars

(* A command runs to its end, managers keep ticking, and jobs end. *)
FairSpec == /\ Spec /\ WF_vars(Command)
            /\ \A p \in Procs : WF_vars(Manager(p))
            /\ WF_vars(\E p \in Procs, j \in Jobs : JobEnds(p, j))

-----------------------------------------------------------------------------
Launched(p) == pm[p].active \union pm[p].complete

(* Types; a job number is used once, and what runs was launched by a manager. *)
TypeOK ==
    /\ nextJobId \in 1..(NumJobs + 1)
    /\ \A p \in Procs : /\ ToSet(pm[p].queued) \union Launched(p) \subseteq 1..(nextJobId - 1)
                         /\ pm[p].active \intersect pm[p].complete = {}
    /\ \A r \in running : r[1] \in Procs /\ r[2] \in pm[r[1]].active

(* No job is launched twice: not again from the queue of the manager that        *)
(* launched it, and not by two managers that each removed the very hand-over     *)
(* file they had loaded, however many loaded it (procman.py 589-593).            *)
LaunchedOnce ==
    \A p \in Procs : /\ ToSet(pm[p].queued) \intersect Launched(p) = {}
                     /\ \A q \in Procs \ {p} : pm[p].took /\ pm[q].took =>
                            Launched(p) \intersect (Launched(q) \union ToSet(pm[q].queued)) = {}

(* Two managers that read each other's files at bad moments overcommit, but      *)
(* each of them keeps to the limit.                                           *)
OwnLimit == \A p \in Procs : Cardinality(pm[p].active) <= JobLimit

(* A manager that sleeps has published every job of its that still runs, so       *)
(* that the others count it.                                                  *)
SleepersPublished ==
    \A p \in Procs : pm[p].pc = "poll" /\ own[p].is = "whole" =>
        Alive(p) \subseteq own[p].active

(* A manager that an exception ended: it does not come back.                    *)
Died(p) == pm[p].pc \in {"died loading", "died counting", "died launching"}

(* A job that a manager took over is run to its end and recorded as complete by  *)
(* it, also while another manager holds all the cores. Only an exception breaks   *)
(* the promise: its own, or that of a manager whose file, which nobody removes,    *)
(* still claims cores.                                                        *)
EveryJobCompletes ==
    \A p \in Procs, j \in Jobs :
        j \in ToSet(pm[p].queued) ~>
            \/ j \in pm[p].complete
            \/ Died(p)
            \/ \E q \in Procs : Died(q) /\ own[q].active # {}

(* Starting managers one after the other "will work": no job that was queued      *)
(* vanishes from the files and the managers.                                  *)
NoJobLost ==
    \A j \in 1..(nextJobId - 1) :
        \/ j \in ToSet(main.queued) \union ToSet(cli.queued) \union ToSet(tmp.queued)
        \/ \E p \in Procs : \/ j \in Launched(p)
                            \/ j \in ToSet(pm[p].queued) /\ pm[p].pc # "died loading"

(* "By default it is assumed only one file is running": nobody wrote down that    *)
(* more may launch a job twice.  A manager that loaded a hand-over file late may  *)
(* remove the next one in place of its own, and go on.                           *)
NoJobTwice ==
    \A p, q \in Procs : \A j \in Jobs : j \in Launched(p) /\ j \in Launched(q) => p = q

(* Reading the state files of the others never stops a manager: there are no       *)
(* "inter-process synchronization issues".                                    *)
CountingSucceeds == \A p \in Procs : pm[p].pc # "died counting"

(* -p says "Nothing Active" when there is no state file; no manager then has       *)
(* jobs that wait or run.                                                     *)
NothingActiveIsTrue ==
    tmp.is = "missing" /\ (\A p \in Procs : own[p].is = "missing") =>
        \A p \in Procs : pm[p].queued = <<>> /\ pm[p].active = {}
=============================================================================
