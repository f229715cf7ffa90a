----------------------------- MODULE HotSpotRun -----------------------------
(***************************************************************************)
(* One run of the HotSpot process (hotspot_tool/hotspot.c, grid model with a  *)
(* layer file and a secondary package, stack type 3Dmem) inside the loop of  *)
(* the pipeline that starts it, reads its row and writes BankStateData.txt.   *)
(* A power figure is the <<run, line, column name>> it was read from; a        *)
(* temperature is the sequence of power lines that heated the stack.          *)
(***************************************************************************)
EXTENDS Integers, Sequences, FiniteSets, SequencesExt

CONSTANTS
    Layers,        \* all layers, package included, bottom first: [power, flp]
    BanksPerLayer, \* 16 in temperature.c
    ColumnOrders,  \* the headers a power trace may have
    Cwds,          \* where the pipeline, and with it HotSpot, may be started
    MaxLines,      \* bound on the power lines of one trace
    MaxRuns        \* bound on the runs of HotSpot

Banks == 0 .. BanksPerLayer * Cardinality({i \in 6..Len(Layers) : Layers[i].power}) - 1
IsBank(name) == name[1] = "B"

(* The pipeline's output directory, where it writes BankStateData.txt, or       *)
(* another with or without a file of that name.                               *)
Directories == {"output", "with file", "without file"}

ASSUME HotSpotAssumption ==
    /\ Cwds \subseteq Directories
    /\ {BanksPerLayer, MaxLines, MaxRuns} \subseteq Nat \ {0}
    /\ Len(Layers) \in Nat
    /\ \A i \in 1..Len(Layers) :
         /\ Layers[i].power \in BOOLEAN /\ Len(Layers[i].flp) \in Nat
         /\ \A j, m \in 1..Len(Layers[i].flp) :
              Layers[i].flp[j] = Layers[i].flp[m] => j = m

VARIABLES
    leakage,     \* -leakage_used of the configuration file
    cwd,         \* the working directory of the pipeline and of HotSpot
    hs,          \* HotSpot: "idle", "running", or how it ended
    run,         \* number of the current or last run
    columns,     \* names, the header of the power trace
    linesLeft,   \* lines of the power trace still to read
    malformed,   \* after them comes one with too few or too many figures
    line,        \* lines, the power lines read in this run
    modes,       \* model->bank_modes
    power,       \* power vector, one entry per block of every layer
    row,         \* the temperature trace: <<>> (header only) or its last row
    spread,      \* how last_trans, the grid temperatures, came about in this run
    heat,        \* what the temperatures in memory have been through
    dumped,      \* the same for all_transient_file, if it is there and whole
    initFile,    \* the same for init_file
    bankFile,    \* BankStateData.txt: whether it exists, and the active banks
    reading      \* what run() returned and the row the pipeline then read

vars == <<leakage, cwd, hs, run, columns, linesLeft, malformed, line, modes, power, row, spread, heat,
          dumped, initFile, bankFile, reading>>

Units(i) == Len(Layers[i].flp)
HasPower(i) == Layers[i].power

(* The blocks of the layers in S, one by one.                                 *)
Blocks(S) == UNION {{i} \X (1..Units(i)) : i \in S}
Below(i) == 1..(i - 1)
Powered == {i \in 1..Len(Layers) : HasPower(i)}

(* base and count of the loops over the layers: the blocks of all layers and  *)
(* the columns of the powered layers that come before layer i.                *)
Base(i) == Cardinality(Blocks(Below(i)))
Count(i) == Cardinality(Blocks(Powered \intersect Below(i)))

Total == Cardinality(Blocks(1..Len(Layers)))
Width == Cardinality(Blocks(Powered))

(* get_blk_index: 0 stands for the fatal() of a name the floorplan lacks.      *)
BlkIndex(i, name) ==
    LET at == {j \in 1..Units(i) : Layers[i].flp[j] = name}
    IN IF at = {} THEN 0 ELSE CHOOSE j \in at : TRUE

(* The layer whose floorplan the loop takes column c for, and the entry of     *)
(* the power vector it permutes the column to.                                *)
LayerOf(c) == CHOOSE i \in Powered : Count(i) < c /\ c <= Count(i) + Units(i)
EntryUnpermuted(c) == Base(LayerOf(c)) + c - Count(LayerOf(c))
Entry(c) == Base(LayerOf(c)) + BlkIndex(LayerOf(c), columns[c])
NamesFound == \A c \in 1..Width : BlkIndex(LayerOf(c), columns[c]) # 0
BlockAt(p) ==
    LET i == CHOOSE i \in 1..Len(Layers) : Base(i) < p /\ p <= Base(i) + Units(i)
    IN [layer |-> i, unit |-> p - Base(i)]

None == <<>>
NoReading == [is |-> "none", row |-> <<>>]
NoDump == [is |-> "none", heat |-> <<>>]
TornDump == [is |-> "torn", heat |-> <<<<0, 0>>>>]

(* What a process that is over, or not yet started, has in memory.              *)
AllNormal == [b \in Banks |-> "normal"]
NoPower == [p \in 1..Total |-> None]

(* The files setup() leaves, and the DTM state of a pipeline that just began.  *)
Init ==
    /\ leakage \in BOOLEAN /\ cwd \in Cwds
    /\ hs = "idle" /\ run = 0 /\ linesLeft = 0 /\ malformed = FALSE /\ line = 0
    /\ columns \in ColumnOrders
    /\ modes = AllNormal /\ power = NoPower /\ spread = <<>> /\ heat = <<>>
    /\ row = <<>> /\ dumped = NoDump /\ initFile = <<>>
    /\ bankFile = [exists |-> FALSE, active |-> {}]
    /\ reading = NoReading

(***************************************************************************)
(* hotspot.c                                                                *)
(***************************************************************************)

(* The pipeline gives no mode file, and the loop that sets the modes without    *)
(* one starts from an index that was never set: banks below it keep what the    *)
(* stack held.                                                               *)
InitialModes ==
    {[b \in Banks |-> IF b >= s THEN "normal" ELSE "junk"] : s \in 0..Cardinality(Banks)}

(* run() starts the program; it reads the options, the layer file, the         *)
(* initial temperatures and, after it has opened its output, the header.       *)
Start(n, bad) ==
    /\ hs = "idle" /\ run < MaxRuns
    /\ run' = run + 1 /\ hs' = "running"
    /\ linesLeft' = n /\ malformed' = bad /\ line' = 0 /\ row' = <<>>
    /\ Len(columns) = Width
    /\ modes' \in InitialModes
    /\ power' = NoPower
    /\ heat' = initFile /\ spread' = <<>>
    /\ reading' = NoReading
    /\ UNCHANGED <<leakage, cwd, columns, dumped, initFile, bankFile>>

(* fatal() before the output is opened: an unreadable configuration, layer or  *)
(* initial temperature file.                                                 *)
StartFails ==
    /\ hs = "idle" /\ run < MaxRuns
    /\ run' = run + 1 /\ hs' = "fatal"
    /\ reading' = NoReading
    /\ UNCHANGED <<leakage, cwd, columns, linesLeft, malformed, line, modes, power, row,
                   spread, heat, dumped, initFile, bankFile>>

(* The blocks in the order of the layers: the dynamic power each is simulated  *)
(* with. k is the layer's index in the program, 3 the logic layer.            *)
BlkIdFromLogicLayer(k, j) == ((k - 3) \div 2) * BanksPerLayer + j
BlkId(k, j) == ((k - 5) \div 2) * BanksPerLayer + j
(* The stack these indices suppose: the logic layer is layer 3 and has no bank, *)
(* the memory layers alternate with interface material from layer 5 on.        *)
StackIs3Dmem ==
    \A i \in Powered : \A j \in 1..Units(i) :
        LET name == Layers[i].flp[j]
        IN IF i - 1 = 3 THEN ~IsBank(name)
                        ELSE IsBank(name) /\ name[2] = BlkId(i - 1, j - 1)
PowerNew(pw, active) ==
    [p \in 1..Total |->
        LET k == BlockAt(p).layer - 1 IN
        IF /\ k # 3 /\ BlkId(k, BlockAt(p).unit - 1) \notin active
           /\ leakage
        THEN None ELSE pw[p]]

(* compute_temp with leakage hands compute_temp_grid the block temperatures   *)
(* of the first call every time, without it only in the first call.           *)
BlocksSpread == leakage \/ line = 0

(* compute_temp reads BankStateData.txt in the current directory, and ends the  *)
(* process, with status 0, when there is none. The file the repository has in   *)
(* another directory, hotspot_tool, declares every bank active.                *)
StateMissing == cwd = "without file" \/ (cwd = "output" /\ ~bankFile.exists)
ActiveRead == IF cwd = "output" THEN bankFile.active ELSE Banks

(* One turn of the loop over the power lines.                               *)
PowerLine ==
    /\ hs = "running" /\ linesLeft > 0 /\ NamesFound /\ ~StateMissing
    /\ LET here == [p \in 1..Total |->
                      IF \E c \in 1..Width : Entry(c) = p
                      THEN <<run, line + 1, columns[CHOOSE c \in 1..Width : Entry(c) = p]>>
                      ELSE power[p]]
           new == PowerNew(here, ActiveRead)
       IN /\ power' = here
          /\ row' = [c \in 1..Width |->
                       [block |-> LET at == BlockAt(Entry(c))
                                  IN Layers[at.layer].flp[at.unit],
                        dynamic |-> new[Entry(c)]]]
    /\ spread' = (IF BlocksSpread THEN Append(spread, "blocks") ELSE spread) \o <<"heated">>
    /\ heat' = Append(heat, <<run, line + 1>>)
    /\ line' = line + 1 /\ linesLeft' = linesLeft - 1
    /\ UNCHANGED <<leakage, cwd, hs, run, columns, malformed, modes, dumped, initFile,
                   bankFile, reading>>

(* A turn that ends the process: a line of the wrong length, a column that no   *)
(* floorplan has, or no BankStateData.txt.                                    *)
PowerLineEnds ==
    /\ hs = "running"
    /\ \/ linesLeft = 0 /\ malformed /\ hs' = "fatal"
       \/ linesLeft > 0 /\ ~NamesFound /\ hs' = "fatal"
       \/ linesLeft > 0 /\ NamesFound /\ StateMissing /\ hs' = "exit 0"
    /\ UNCHANGED <<leakage, cwd, run, columns, linesLeft, malformed, line, modes, power, row,
                   spread, heat, dumped, initFile, bankFile, reading>>

(* The end of the trace: the final temperatures are dumped, unless there was no *)
(* line, the steady state does not converge with leakage ("thermal runaway") or *)
(* an output file cannot be opened.                                           *)
EndOfTrace ==
    /\ hs = "running" /\ linesLeft = 0 /\ ~malformed
    /\ \/ hs' = "fatal" /\ dumped' = dumped
       \/ line > 0 /\ hs' = "exit 0" /\ dumped' = [is |-> "whole", heat |-> heat]
    /\ UNCHANGED <<leakage, cwd, run, columns, linesLeft, malformed, line, modes, power, row,
                   spread, heat, initFile, bankFile, reading>>

(* A signal ends the process at any point. What it had not written of its row   *)
(* is lost; after the last line the dump may be begun or finished.              *)
Killed ==
    /\ hs = "running" /\ hs' = "killed"
    /\ row' \in {<<>>, row}
    /\ dumped' \in {dumped} \union
         (IF linesLeft = 0 /\ ~malformed /\ line > 0
          THEN {TornDump, [is |-> "whole", heat |-> heat]} ELSE {})
    /\ UNCHANGED <<leakage, cwd, run, columns, linesLeft, malformed, line, modes, power,
                   spread, heat, initFile, bankFile, reading>>

(***************************************************************************)
(* The pipeline                                                             *)
(***************************************************************************)

(* run() returns. On success the dumped temperatures, if there are any, start   *)
(* the next run, the row is read, and the policy's bank states go to            *)
(* BankStateData.txt; after a failure the step is given up. What the process     *)
(* had in memory is gone.                                                     *)
ExitAcceptedAlways(status) == TRUE
ExitAccepted(status) == status = "exit 0"
Carried == IF dumped.is = "none" THEN initFile ELSE dumped.heat
KeptCopied == Carried
Kept == initFile

Return ==
    /\ hs \in {"exit 0", "fatal", "killed"}
    /\ hs' = "idle"
    /\ IF ExitAccepted(hs)
       THEN /\ initFile' = Carried
            /\ reading' = [is |-> "true", row |-> row]
            /\ bankFile' \in {[exists |-> TRUE, active |-> a] : a \in SUBSET Banks}
       ELSE /\ initFile' = Kept
            /\ reading' = [is |-> "false", row |-> <<>>]
            /\ UNCHANGED bankFile
    /\ modes' = AllNormal /\ power' = NoPower /\ spread' = <<>> /\ heat' = <<>>
    /\ linesLeft' = 0 /\ malformed' = FALSE /\ line' = 0
    /\ UNCHANGED <<leakage, cwd, run, columns, row, dumped>>

Next ==
    \/ \E n \in 0..MaxLines, bad \in BOOLEAN : Start(n, bad)
    \/ StartFails
    \/ PowerLine
    \/ PowerLineEnds
    \/ EndOfTrace
    \/ Killed
    \/ Return

Spec == Init /\ [][Next]_vars

-----------------------------------------------------------------------------
Names == UNION {ToSet(Layers[i].flp) : i \in Powered}

TypeOK ==
    /\ cwd \in Cwds /\ hs \in {"idle", "running", "exit 0", "fatal", "killed"}
    /\ run \in 0..MaxRuns /\ linesLeft \in 0..MaxLines /\ line \in 0..MaxLines
    /\ columns \in ColumnOrders
    /\ modes \in [Banks -> {"normal", "junk"}]
    /\ DOMAIN power = 1..Total
    /\ \A p \in 1..Total : power[p] # None => Layers[BlockAt(p).layer].power
    /\ bankFile.exists \in BOOLEAN /\ bankFile.active \subseteq Banks
    /\ reading.is \in {"none", "true", "false"}

(* Every column of the row HotSpot writes is the block the header names, and   *)
(* a powered block was simulated with the power its own column had on the line *)
(* just read: the two permutations, through offsets that count different       *)
(* layers, are inverse (hotspot.c 654-668 and 689-703).                       *)
ColumnsFollowNames ==
    hs = "running" /\ row # <<>> =>
        \A c \in 1..Width :
            /\ row[c].block = columns[c]
            /\ row[c].dynamic \in {None, <<run, line, columns[c]>>}

(* Started in the pipeline's output directory, exactly the banks that the       *)
(* pipeline declared idle before the run have no dynamic power: the index       *)
(* computed from layer and unit (temperature.c 1020) is the number in the        *)
(* bank's name.                                                              *)
IdleBanksLeakOnly ==
    hs = "running" /\ row # <<>> /\ leakage /\ cwd = "output" =>
        \A c \in 1..Width :
            row[c].dynamic = None <=> IsBank(row[c].block) /\ row[c].block[2] \notin bankFile.active

(* Within one run the grid temperatures are made from block temperatures once, *)
(* and every further line continues from them, as long as leakage is off (the   *)
(* comment at hotspot.c 678-683 says so of every run; with leakage each line    *)
(* starts from block temperatures again).                                     *)
GridMaintained == ~leakage => \A i \in 2..Len(spread) : spread[i] # "blocks"

(* t is s and then the lines 1 to n of run r.                                 *)
Continues(t, s, r, n) ==
    /\ Len(t) = Len(s) + n
    /\ \A i \in 1..Len(s) : t[i] = s[i]
    /\ \A i \in 1..n : t[Len(s) + i] = <<r, i>>

(* The pipeline has just taken the reading of a run that got past a power line. *)
ReadingTaken == reading.is = "none" /\ reading'.is = "true" /\ line > 0

(* Temperatures carry over from run to run: with a reading the file the next    *)
(* run starts from grows by exactly the lines of the run that gave it, each     *)
(* once and in order, and without one it stays what it was, whatever became of  *)
(* a run that had heated the stack, written rows or begun its dump before it    *)
(* failed or was killed (hotspot_interface.py run).                           *)
CarriesOn ==
    [][IF ReadingTaken THEN Continues(initFile', initFile, run, line)
                       ELSE initFile' = initFile]_vars

(* What the pipeline takes for this interval's temperatures is never a row a   *)
(* previous run left behind in the trace file.                                *)
ReadingIsThisRuns ==
    reading.is = "true" =>
        \A c \in 1..Len(reading.row) :
            reading.row[c].dynamic = None \/ reading.row[c].dynamic[1] = run

(* With no mode file every bank is in normal power mode (comment at hotspot.c  *)
(* 634).                                                                      *)
NormalPowerModes == hs = "running" => \A b \in Banks : modes[b] = "normal"

(* The order of the columns need not be that of the floorplan (comment at      *)
(* hotspot.c 383-385): a header with the right names is never refused.         *)
AnyColumnOrder ==
    [][hs = "running" /\ linesLeft > 0 /\ ToSet(columns) = Names => hs' # "fatal"]_vars
=============================================================================
