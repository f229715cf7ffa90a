---------------------------- MODULE ThermalPipeline ----------------------------
(***************************************************************************)
(* The closed loop of pipeline/pipeline_runner.py: an access trace is      *)
(* throttled, turned into a power trace, handed to the HotSpot process,    *)
(* whose temperatures feed the leakage model and the DTM policy, which     *)
(* sets the knobs of the next interval.  The output directory is modelled  *)
(* file by file, because it survives what the runner object does not: a    *)
(* killed process, or a second run into the same directory.                *)
(*                                                                         *)
(* One interval passes through the phases                                  *)
(*   step (trace, throttle, power) -> hotspot (the child process)          *)
(*        -> propagate (files) -> dtm (policy) -> step                     *)
(***************************************************************************)
EXTENDS DTMPolicies

CONSTANTS
  Temps,          \* the temperatures HotSpot may report
  Ambient,        \* what the leakage model assumes before the first reading
  Counts,         \* <<reads, writes>> a bank may receive in an interval
  Leakage,        \* leakage power at each temperature, increasing
  ExternalInit,   \* TRUE iff the board configuration ships a mem.init
  Cwds,           \* where a pipeline process may be started
  Iterations,     \* intervals of one call of run
  MaxRuns         \* bound: calls of run on one output directory

\* What a bank's temperature can be taken for: a reading, the temperature
\* before the first one, or the zero of a trace without a row.
BankTemp == Temps \cup {Ambient, 0}

\* Where the pipeline can be started: in its output directory, or in another
\* with or without a BankStateData.txt of its own.
Directories == {"output", "with file", "without file"}

ASSUME PipelineAssumption ==
  /\ Temps \subseteq Int \ {0}   \* HotSpot reports above 0 degrees
  /\ Ambient \in Int
  /\ Counts \subseteq Nat \X Nat
  /\ Leakage \in [BankTemp -> Nat]
  /\ ExternalInit \in BOOLEAN
  /\ Cwds \subseteq Directories
  /\ Iterations \in Nat
  /\ MaxRuns \in Nat

VARIABLES
  cwd,            \* the working directory of the pipeline process
  \* the runner object
  phase,          \* where run() is; "idle" outside it
  step,           \* the loop variable of run()
  dtm_policy,     \* the policy installed
  knobs,          \* throttle_factors, freq_scale, voltage_scale, bank_active
  bank_temps_c,   \* the power model's copy of the last reading
  history,        \* what the runner recorded for every interval it finished
  \* the output directory
  power_trace,    \* power_mem.trace: the row HotSpot is given
  temperature,    \* temperature_mem.trace: the row HotSpot wrote
  all_transient,  \* all_transient_mem.init: the thermal state HotSpot ended in
  init_file,      \* temperature_mem.init: the thermal state HotSpot starts from
  full_temperature, full_power, full_totalpower,   \* the history traces
  bank_state,     \* BankStateData.txt; << >> when torn
  \* history variables, read only by the properties
  run,            \* which call of run() this is
  lastGood,       \* the last interval of this call that HotSpot completed
  decidedBy,      \* the policy that set the knobs
  moved           \* a process was started elsewhere than the one before it

runner == <<phase, step, dtm_policy, knobs, bank_temps_c, history>>
traces == <<full_temperature, full_power, full_totalpower>>
files  == <<power_trace, temperature, all_transient, init_file, bank_state, traces>>
ghosts == <<run, lastGood, decidedBy, moved>>
vars   == <<cwd, runner, files, ghosts>>

\* What a file that is not a complete output of some interval can be.
NoFile == <<"no file">>
Torn == <<"torn">>           \* its writer was stopped half way
External == <<"external">>   \* a copy of the board's mem.init
NoRow == [at |-> NoFile, row |-> << >>]
TornRow == [at |-> Torn, row |-> << >>]
Header == <<"header">>       \* the line of column names
HeaderRow == [at |-> Header, row |-> << >>]

Phases == {"idle", "step", "hotspot", "propagate", "dtm"}

\* An interval is named by the call of run() and the loop variable.
Interval == <<run, step>>
Intervals == (0 .. MaxRuns) \X (0 .. Iterations)

BankTemps == [Banks -> Temps]
ZeroTemps == [b \in Banks |-> 0]

-----------------------------------------------------------------------------
(* Stage 1: accesses *)

Idle == [reads |-> [b \in Banks |-> 0], writes |-> [b \in Banks |-> 0]]

\* What the sources of an access trace can deliver.  Every bank of a trace
\* gets the same counts: the banks are told apart by their temperatures.
Traces == {[reads |-> [b \in Banks |-> c[1]], writes |-> [b \in Banks |-> c[2]]] :
             c \in Counts}

\* The sources fall through in this order: benchmark, the file of this
\* interval, the static file, a live Accel-Sim; a file that is missing is
\* skipped, an Accel-Sim that times out or is not installed counts as idle.
get_access_trace == Traces \cup {Idle}

apply_throttle(counts) ==
  [b \in Banks |->
     (counts[b] * knobs.throttle_factors[b]) \div FullThrottle]

-----------------------------------------------------------------------------
(* Stage 2: power.  Energies per access and refresh are constants of the   *)
(* code; dynamic power is counted in units of one access at full scale.    *)

ReadEnergy == 1
WriteEnergy == 1
RefreshPower == 1
LowPowerLeakagePercent == 10

dvfs_dynamic == knobs.voltage_scale * knobs.voltage_scale * knobs.freq_scale

compute_power_trace(reads, writes) ==
  [b \in Banks |->
     LET leakage == Leakage[bank_temps_c[b]] * knobs.voltage_scale
     IN  IF knobs.bank_active[b]
         THEN [dynamic    |-> (reads[b] * ReadEnergy + writes[b] * WriteEnergy)
                                * dvfs_dynamic,
               background |-> FullScale * (leakage + FullScale * RefreshPower)]
         ELSE [dynamic    |-> 0,
               background |-> leakage * LowPowerLeakagePercent]]

-----------------------------------------------------------------------------
(* PipelineRunner.__init__, and a HotSpotInterface that has not run.       *)

\* The part of an action the runner keeps from one interval to the next.
KnobsOf(action) ==
  [ throttle_factors |-> action.throttle_factors,
    freq_scale       |-> action.freq_scale,
    voltage_scale    |-> action.voltage_scale,
    bank_active      |-> action.bank_active ]

NominalKnobs == KnobsOf(DTMAction)

NewRunner ==
  /\ phase = "idle"
  /\ step = 0
  /\ dtm_policy = "none"
  /\ knobs = NominalKnobs
  /\ bank_temps_c = [b \in Banks |-> Ambient]
  /\ history = << >>

Init ==
  /\ NewRunner
  /\ cwd \in Cwds
  /\ power_trace = NoRow /\ temperature = NoRow
  /\ all_transient = NoFile /\ init_file = NoFile
  /\ full_temperature = << >> /\ full_power = << >> /\ full_totalpower = << >>
  /\ bank_state = NoFile
  /\ run = 0 /\ lastGood = NoFile /\ decidedBy = "none" /\ moved = FALSE

set_dtm_policy(policy) ==
  /\ phase = "idle"
  /\ dtm_policy' = policy
  /\ UNCHANGED <<cwd, phase, step, knobs, bank_temps_c, history, files, ghosts>>

\* The copy of the board's initial state, made whatever is there already.
\* Mutant: a file left by an earlier run is kept.
SetupInitKeepsOld ==
  IF ExternalInit /\ init_file = NoFile THEN External ELSE init_file

SetupInit == IF ExternalInit THEN External ELSE init_file

\* run() up to its loop: HotSpotInterface.setup copies the board's initial
\* state if there is one and truncates the three history traces.
Setup ==
  /\ phase = "idle"
  /\ run < MaxRuns
  /\ run' = run + 1
  /\ lastGood' = NoFile
  /\ init_file' = SetupInit
  /\ full_temperature' = << >> /\ full_power' = << >> /\ full_totalpower' = << >>
  /\ phase' = "step"
  /\ step' = 0
  /\ UNCHANGED <<cwd, dtm_policy, knobs, bank_temps_c, history, power_trace,
                 temperature, all_transient, bank_state, decidedBy, moved>>

\* Stages 1 and 2 of one interval.
ComputePower ==
  /\ phase = "step"
  /\ step < Iterations
  /\ \E trace \in get_access_trace :
       power_trace' = [at |-> Interval,
                       row |-> compute_power_trace(apply_throttle(trace.reads),
                                                   apply_throttle(trace.writes))]
  /\ full_power' = Append(full_power, Interval)
  /\ phase' = "hotspot"
  /\ UNCHANGED <<cwd, step, dtm_policy, knobs, bank_temps_c, history, temperature,
                 all_transient, init_file, full_temperature, full_totalpower,
                 bank_state, ghosts>>

\* Mutant: the end is expected one interval late.
FinishLate ==
  /\ phase = "step"
  /\ step = Iterations + 1
  /\ phase' = "idle"
  /\ UNCHANGED <<cwd, step, dtm_policy, knobs, bank_temps_c, history, files, ghosts>>

\* The loop is over and run() returns.
Finish ==
  /\ phase = "step"
  /\ step = Iterations
  /\ phase' = "idle"
  /\ UNCHANGED <<cwd, step, dtm_policy, knobs, bank_temps_c, history, files, ghosts>>

-----------------------------------------------------------------------------
(* Stage 3: HotSpot *)

\* HotSpot opens BankStateData.txt in its working directory, which is the
\* pipeline's, while the pipeline writes the file into its output directory.
\* "with file" and "without file" are the other directories.
HotSpotReads ==
  \/ cwd = "with file"
  \/ cwd = "output" /\ bank_state # NoFile

\* The child process succeeds: it has written a row of temperatures for the
\* power row it read, and dumped the thermal state it ended in.
HotSpotSucceeds ==
  /\ phase = "hotspot"
  /\ HotSpotReads
  /\ \E t \in BankTemps : temperature' = [at |-> Interval, row |-> t]
  /\ all_transient' = Interval
  /\ phase' = "propagate"
  /\ UNCHANGED <<cwd, step, dtm_policy, knobs, bank_temps_c, history, power_trace,
                 init_file, traces, bank_state, ghosts>>

\* The child finds no BankStateData.txt at the first power row and calls
\* exit(0): the traces have a header line, and nothing is dumped.
HotSpotEndsEarly ==
  /\ phase = "hotspot"
  /\ ~ HotSpotReads
  /\ temperature' = HeaderRow
  /\ phase' = "propagate"
  /\ UNCHANGED <<cwd, step, dtm_policy, knobs, bank_temps_c, history, power_trace,
                 all_transient, init_file, traces, bank_state, ghosts>>

\* The end of an iteration of run()'s loop, reached by continue as well.
NextInterval ==
  /\ phase' = "step"
  /\ step' = step + 1

\* _record_history: the channels in low-power mode are read off the first
\* bank of each channel.
lpm_channels(active) ==
  {ch \in Channels : ~ active[ch * ChannelWidth]}

\* Of the temperatures recorded the model keeps whether they are all zero;
\* ok, what run() returned, is not in the code's history.
HistoryEntry(ok, temps, k) ==
  [at |-> Interval, ok |-> ok, zero |-> temps = ZeroTemps,
   lpm |-> lpm_channels(k.bank_active)]

\* Mutant: a failed interval is recorded with the reading before it.
FailedTempsStale == bank_temps_c

\* A failed interval is recorded as zero degrees.
FailedTemps == ZeroTemps

\* What a child that did not come back, or whose parent did not wait, has
\* done to its output files, depending on how far it got; the dump is
\* complete if it was stopped, or gave up, after writing it.
ChildStopped ==
  \/ UNCHANGED <<temperature, all_transient>>
  \/ temperature' = TornRow /\ UNCHANGED all_transient
  \/ HotSpotReads /\ temperature' = TornRow /\ all_transient' \in {Torn, Interval}

\* The child is missing, exits with an error or is killed: run() returns
\* False, the DTM stage is skipped and the knobs stay.
HotSpotFails ==
  /\ phase = "hotspot"
  /\ ChildStopped
  /\ history' = Append(history, HistoryEntry(FALSE, FailedTemps, knobs))
  /\ NextInterval
  /\ UNCHANGED <<cwd, dtm_policy, knobs, bank_temps_c, power_trace, init_file,
                 traces, bank_state, ghosts>>

\* The rest of HotSpotInterface.run: the dump that is there, if one is,
\* becomes the next initial state, and the last lines go to the history
\* traces, a header line when there is no row.  The power row goes there a
\* second time, after append_power_line.
Propagate ==
  /\ phase = "propagate"
  /\ init_file' = IF all_transient = NoFile THEN init_file ELSE all_transient
  /\ full_temperature' = Append(full_temperature, temperature.at)
  /\ full_power' = Append(full_power, power_trace.at)
  /\ full_totalpower' = Append(full_totalpower, temperature.at)
  /\ lastGood' = IF temperature = HeaderRow THEN lastGood ELSE Interval
  /\ phase' = "dtm"
  /\ UNCHANGED <<cwd, step, dtm_policy, knobs, bank_temps_c, history, power_trace,
                 temperature, all_transient, bank_state, run, decidedBy, moved>>

-----------------------------------------------------------------------------
(* Stage 4: DTM *)

\* A trace without a row reads as zero degrees everywhere.
get_bank_temperatures ==
  IF temperature = HeaderRow THEN ZeroTemps ELSE temperature.row

\* evaluate is called without the current action, so the policy starts from
\* a fresh DTMAction in every interval.
\* Mutant: the throttle factors are not taken over.
apply_action_keeps_throttle(action) ==
  knobs' = [KnobsOf(action) EXCEPT !.throttle_factors = knobs.throttle_factors]

apply_action(action) == knobs' = KnobsOf(action)

\* Mutant: the file is written before the action is applied.
write_bank_state_early(k) == bank_state' = knobs.bank_active

write_bank_state(k) == bank_state' = k.bank_active

ApplyDTM ==
  /\ phase = "dtm"
  /\ bank_temps_c' = get_bank_temperatures
  /\ apply_action(Evaluate(dtm_policy, get_bank_temperatures, DTMAction))
  /\ decidedBy' = dtm_policy
  /\ history' = Append(history, HistoryEntry(TRUE, bank_temps_c', knobs'))
  /\ write_bank_state(knobs')
  /\ NextInterval
  /\ UNCHANGED <<cwd, dtm_policy, power_trace, temperature, all_transient,
                 init_file, traces, run, lastGood, moved>>

-----------------------------------------------------------------------------
\* The process ends, by a kill at any point or by returning; the next one, not
\* necessarily started in the same place, builds a new runner on the same
\* output directory.  A kill leaves the files being written torn: the child's,
\* the copy of the thermal state or BankStateData.txt.  (power_mem.trace is
\* rewritten before it is read, the history traces are truncated by the next
\* run.)
NewProcess ==
  /\ cwd' \in Cwds
  /\ moved' = (moved \/ cwd' # cwd)
  /\ phase' = "idle"
  /\ step' = 0
  /\ dtm_policy' = "none"
  /\ knobs' = NominalKnobs
  /\ bank_temps_c' = [b \in Banks |-> Ambient]
  /\ history' = << >>
  /\ IF phase = "hotspot" THEN ChildStopped ELSE UNCHANGED <<temperature, all_transient>>
  /\ IF phase = "propagate" /\ all_transient # NoFile
     THEN init_file' \in {init_file, Torn, all_transient}
     ELSE UNCHANGED init_file
  /\ IF phase = "dtm"
     THEN bank_state' \in {bank_state, << >>}
     ELSE UNCHANGED bank_state
  /\ decidedBy' = "none"
  /\ lastGood' = NoFile
  /\ UNCHANGED <<power_trace, traces, run>>

Loop == ComputePower \/ HotSpotSucceeds \/ HotSpotEndsEarly \/ HotSpotFails
          \/ Propagate \/ ApplyDTM \/ Finish

Next ==
  \/ \E p \in PolicyNames : set_dtm_policy(p)
  \/ Setup
  \/ Loop
  \/ NewProcess

Spec == Init /\ [][Next]_vars

\* The loop is one thread that nothing blocks, once every child returns.
FairSpec == Spec /\ WF_vars(Loop)

-----------------------------------------------------------------------------
(* Properties *)

Rows == Seq(Intervals \cup {Header})

\* Every variable keeps its type; in particular a throttle factor stays
\* between 0 and 1, which apply_throttle takes for granted.
TypeOK ==
  /\ cwd \in Cwds /\ moved \in BOOLEAN
  /\ phase \in Phases
  /\ step \in 0 .. Iterations
  /\ dtm_policy \in PolicyNames /\ decidedBy \in PolicyNames
  /\ knobs.throttle_factors \in [Banks -> 0 .. FullThrottle]
  /\ knobs.freq_scale \in Nat /\ knobs.voltage_scale \in Nat
  /\ knobs.bank_active \in [Banks -> BOOLEAN]
  /\ bank_temps_c \in [Banks -> BankTemp]
  /\ phase \in {"propagate", "dtm"} =>
       temperature \in [at : {Interval}, row : BankTemps] \cup {HeaderRow}
  /\ run \in 0 .. MaxRuns
  /\ full_temperature \in Rows /\ full_power \in Rows /\ full_totalpower \in Rows

\* The knobs and the leakage model never work from different readings: the
\* knobs are what the policy that set them makes of exactly the temperatures
\* the power model holds, across intervals HotSpot failed, a change of policy
\* and a second run (pipeline_runner.py, run).
KnobsFollowReading ==
  knobs = KnobsOf(Evaluate(decidedBy, bank_temps_c, DTMAction))

\* Negative feedback: from one reading to the next, if no bank has become
\* cooler then no knob is loosened (dtm_policies.py, the evaluate methods as
\* run() calls them).
HotterNeverLoosens ==
  [][ /\ decidedBy' = decidedBy
      /\ \A b \in Banks : bank_temps_c'[b] >= bank_temps_c[b]
      => AtLeastAsStrict(knobs', knobs) ]_vars

\* A bank that was critical at the last reading does no work in the interval
\* handed to HotSpot, whichever of the policies that stop banks is in force
\* (compute_power_trace after _apply_throttle).
CriticalBankIsQuiet ==
  /\ phase = "hotspot"
  /\ decidedBy \in {"lpm", "composite"} \/ (decidedBy = "throttle" /\ Span > 0)
  => \A b \in Banks :
       bank_temps_c[b] >= CRITICAL_TEMP_C => power_trace.row[b].dynamic = 0

\* As long as the processes that use the directory are started in one place,
\* HotSpot starts from where its last complete invocation of this run
\* stopped, else from the board's initial state, else from no file at all:
\* never from a state of an earlier run, a failed child or a torn copy
\* (HotSpotInterface.run: "Use init file from second iteration onward, or if
\* external init exists").
StartsFromKnownState ==
  phase = "hotspot" /\ ~ moved =>
    init_file = IF lastGood # NoFile THEN lastGood
                ELSE IF ExternalInit THEN External ELSE NoFile

\* The intervals of this run that the history has temperatures for.
MeasuredIntervals ==
  LET mine == {i \in DOMAIN history : history[i].at[1] = run /\ ~ history[i].zero}
  IN  {history[i].at : i \in mine}

\* The rows of a trace, header lines aside, are in order and of the intervals given.
InOrder(rows) ==
  \A i, j \in DOMAIN rows :
    i < j /\ Header \notin {rows[i], rows[j]} => rows[i][2] < rows[j][2]
RowsAre(rows, intervals) ==
  InOrder(rows) /\ {rows[i] : i \in DOMAIN rows} \ {Header} = intervals

\* Between intervals the temperature and total-power traces on disk hold one
\* row for each interval the runner's history has temperatures for, in order:
\* intervals that failed and intervals HotSpot ended without a row are the
\* zeros of the history (HotSpotInterface.run against
\* PipelineRunner._record_history).
TracesMatchHistory ==
  phase = "step" =>
    /\ RowsAre(full_temperature, MeasuredIntervals)
    /\ RowsAre(full_totalpower, MeasuredIntervals)

\* The history's low-power channels, read off one bank of each channel, are
\* exactly the channels bank_to_channel gives for the critical banks; without
\* a policy that gates channels there are none (_record_history and
\* LowPowerModePolicy against the layout in config.py).
LowPowerHistoryExact ==
  history # << >> =>
    history[Len(history)].lpm =
      IF decidedBy \in {"lpm", "composite"}
      THEN {bank_to_channel(b) :
              b \in {c \in Banks : bank_temps_c[c] >= CRITICAL_TEMP_C}}
      ELSE {}

\* Once the runner has had a reading, BankStateData.txt names the banks that
\* are active now, also after intervals that wrote no file (_write_bank_state).
BankStateFollowsKnobs ==
  (\E i \in DOMAIN history : history[i].ok) => bank_state = knobs.bank_active

\* run() returns: a failing HotSpot costs an interval, never the loop.
RunReturns == (phase # "idle") ~> (phase = "idle")

\* HotSpotInterface.run says it produces a temperature trace and "Returns
\* True on success": an interval it returned True for has temperatures.
SuccessHasReading ==
  \A i \in DOMAIN history : history[i].ok => ~ history[i].zero

\* dtm_policies.py says a channel comes back from low-power mode only below
\* the cooldown temperature.
LPMHysteresis ==
  [][ /\ decidedBy \in {"lpm", "composite"} /\ decidedBy' = decidedBy
      => \A ch \in lpm_channels(knobs.bank_active)
                    \ lpm_channels(knobs'.bank_active) :
           ~ Reaches(bank_temps_c', channel_to_banks(ch), COOLDOWN_TEMP_C) ]_vars

\* HotSpotInterface.run appends the latest power row to the full power
\* trace: no interval has two rows there.
PowerRowsDistinct ==
  \A i, j \in DOMAIN full_power : full_power[i] = full_power[j] => i = j

=============================================================================
