-------------------------- MODULE HotSpotRunProofs --------------------------
(***************************************************************************)
(* Proofs about HotSpotRun, for every stack, trace length and number of runs: *)
(* the temperatures a run starts from are those the last successful one       *)
(* ended with; and every column of a row is what its name says, heated by its *)
(* own power figure of its own line and run.                                 *)
(***************************************************************************)
EXTENDS HotSpotRun, FiniteSetTheorems, WellFoundedInduction, TLAPS

Histories == Seq(Nat \X Nat)
Dumps == [is : {"none", "torn", "whole"}, heat : Histories]

Types ==
  /\ hs \in {"idle", "running", "exit 0", "fatal", "killed"}
  /\ run \in Nat /\ line \in Nat
  /\ heat \in Histories /\ dumped \in Dumps /\ initFile \in Histories

\* The stack in memory is the initial one and the lines of this run so far. A
\* process that ends well has dumped all of it, or has read no line and, as
\* no run before it could have found a BankStateData.txt either, leaves no
\* dump to copy.
DumpedAll == dumped.is # "none" /\ dumped.heat = heat /\ line > 0
DumpedNothing == dumped.is = "none" /\ line = 0
CarryInv ==
  /\ hs \in {"running", "exit 0"} => Continues(heat, initFile, run, line)
  /\ hs = "running" /\ line > 0 => ~ StateMissing
  /\ dumped.is # "none" => ~ StateMissing
  /\ hs = "exit 0" => DumpedAll \/ DumpedNothing
  /\ hs # "idle" => reading.is = "none"

\* One more line of the run.
LEMMA OneMore ==
  ASSUME NEW s \in Histories, NEW t \in Histories, NEW r \in Nat, NEW n \in Nat,
         Continues(t, s, r, n)
  PROVE  /\ Append(t, <<r, n + 1>>) \in Histories
         /\ Continues(Append(t, <<r, n + 1>>), s, r, n + 1)
<1>1. <<r, n + 1>> \in Nat \X Nat
  OBVIOUS
<1> DEFINE e == <<r, n + 1>>
           u == Append(t, e)
<1>2. /\ u \in Seq(Nat \X Nat) /\ Len(u) = Len(t) + 1 /\ u[Len(t) + 1] = e
      /\ \A i \in 1 .. Len(t) : u[i] = t[i]
  BY <1>1 DEF Histories
<1>3. e = <<r, n + 1>>
  OBVIOUS
<1> HIDE DEF u, e
<1>4. Len(s) \in Nat /\ Len(t) = Len(s) + n /\ Len(t) \in Nat
  BY DEF Continues, Histories
<1>5. \A i \in 1 .. Len(s) : u[i] = s[i]
  BY <1>2, <1>4 DEF Continues
<1>6. \A i \in 1 .. n + 1 : u[Len(s) + i] = <<r, i>>
  <2> TAKE i \in 1 .. n + 1
  <2>1. CASE i = n + 1
    <3>1. Len(s) + i = Len(t) + 1
      BY <1>4, <2>1
    <3> QED BY <1>2, <1>3, <2>1, <3>1
  <2>2. CASE i # n + 1
    <3>1. i \in 1 .. n /\ Len(s) + i \in 1 .. Len(t)
      BY <1>4, <2>2
    <3> QED BY <1>2, <3>1 DEF Continues
  <2> QED BY <2>1, <2>2
<1>7. Len(u) = Len(s) + (n + 1) /\ u \in Histories
  BY <1>2, <1>4 DEF Histories
<1>8. Continues(u, s, r, n + 1)
  BY <1>5, <1>6, <1>7 DEF Continues
<1> QED BY <1>7, <1>8 DEF u, e

LEMMA Itself ==
  ASSUME NEW s \in Histories
  PROVE  \A r : Continues(s, s, r, 0)
<1>1. Len(s) \in Nat
  BY DEF Histories
<1> QED BY <1>1 DEF Continues

\* What a dump may hold.
LEMMA DumpTypes ==
  /\ NoDump \in Dumps /\ NoDump.is = "none" /\ TornDump \in Dumps
  /\ \A h \in Histories :
       /\ [is |-> "whole", heat |-> h] \in Dumps
       /\ [is |-> "whole", heat |-> h].is = "whole"
       /\ [is |-> "whole", heat |-> h].heat = h
<1>1. <<>> \in Histories /\ <<<<0, 0>>>> \in Histories
  BY DEF Histories
<1>2. NoDump \in Dumps /\ NoDump.is = "none" /\ TornDump \in Dumps
  BY <1>1 DEF NoDump, TornDump, Dumps
<1> QED BY <1>2 DEF Dumps

LEMMA CarryInit == Init => Types /\ CarryInv
<1> SUFFICES ASSUME Init PROVE Types /\ CarryInv
  OBVIOUS
<1>1. /\ hs = "idle" /\ run = 0 /\ line = 0 /\ heat = <<>> /\ initFile = <<>>
      /\ dumped = NoDump
  BY DEF Init
<1>2. <<>> \in Histories
  BY DEF Histories
<1>3. Types
  BY <1>1, <1>2, DumpTypes DEF Types
<1> QED BY <1>1, <1>3, DumpTypes DEF CarryInv

LEMMA CarryNext == Types /\ CarryInv /\ [Next]_vars => Types' /\ CarryInv'
<1> SUFFICES ASSUME Types, CarryInv, [Next]_vars PROVE Types' /\ CarryInv'
  OBVIOUS
<1>1. ASSUME NEW n \in 0 .. MaxLines, NEW bad \in BOOLEAN, Start(n, bad)
      PROVE  Types' /\ CarryInv'
  <2>1. /\ hs = "idle" /\ hs' = "running" /\ run' = run + 1 /\ line' = 0
        /\ heat' = initFile /\ reading' = NoReading
        /\ UNCHANGED <<cwd, dumped, initFile, bankFile>>
    BY <1>1 DEF Start
  <2>2. Continues(initFile, initFile, run + 1, 0)
    BY Itself DEF Types
  <2>3. reading'.is = "none" /\ StateMissing' = StateMissing
    BY <2>1 DEF NoReading, StateMissing
  <2>4. Types'
    BY <2>1 DEF Types
  <2> QED BY <2>1, <2>2, <2>3, <2>4 DEF CarryInv
<1>2. CASE StartFails
  <2>1. /\ hs' = "fatal" /\ run' = run + 1 /\ reading' = NoReading
        /\ UNCHANGED <<cwd, line, heat, dumped, initFile, bankFile>>
    BY <1>2 DEF StartFails
  <2>2. reading'.is = "none" /\ StateMissing' = StateMissing
    BY <2>1 DEF NoReading, StateMissing
  <2>3. Types'
    <3>1. /\ run \in Nat /\ line \in Nat /\ heat \in Histories /\ dumped \in Dumps
          /\ initFile \in Histories
      BY DEF Types
    <3>2. heat' = heat /\ dumped' = dumped /\ initFile' = initFile /\ line' = line
      BY <2>1
    <3>3. run' \in Nat
      BY <2>1, <3>1
    <3> QED BY <2>1, <3>1, <3>2, <3>3 DEF Types
  <2> QED BY <2>1, <2>2, <2>3 DEF CarryInv
<1>3. CASE PowerLine
  <2>1. /\ hs = "running" /\ heat' = Append(heat, <<run, line + 1>>) /\ line' = line + 1
        /\ ~ StateMissing /\ UNCHANGED <<cwd, hs, run, dumped, initFile, bankFile, reading>>
    BY <1>3 DEF PowerLine
  <2>2. Append(heat, <<run, line + 1>>) \in Histories
        /\ Continues(Append(heat, <<run, line + 1>>), initFile, run, line + 1)
    BY <2>1, OneMore DEF Types, CarryInv
  <2>3. ~ StateMissing'
    BY <2>1 DEF StateMissing
  <2>4. Types'
    BY <2>1, <2>2 DEF Types
  <2>5. CarryInv'
    BY <2>1, <2>2, <2>3 DEF CarryInv
  <2> QED BY <2>4, <2>5
<1>4. CASE PowerLineEnds
  <2>1. /\ hs = "running" /\ hs' \in {"fatal", "exit 0"}
        /\ hs' = "exit 0" => StateMissing
        /\ UNCHANGED <<cwd, run, line, heat, dumped, initFile, bankFile, reading>>
    BY <1>4 DEF PowerLineEnds
  <2>2. hs' = "exit 0" => DumpedNothing'
    <3>1. ASSUME StateMissing PROVE dumped.is = "none" /\ ~ (line > 0)
      BY <2>1, <3>1 DEF CarryInv
    <3>2. line \in Nat
      BY DEF Types
    <3>3. dumped' = dumped /\ line' = line
      BY <2>1
    <3>4. ~ (line > 0) => line = 0
      BY <3>2
    <3> QED BY <2>1, <3>1, <3>3, <3>4 DEF DumpedNothing
  <2>3. StateMissing' = StateMissing
    BY <2>1 DEF StateMissing
  <2>4. Types'
    BY <2>1 DEF Types
  <2> QED BY <2>1, <2>2, <2>3, <2>4 DEF CarryInv
<1>5. CASE EndOfTrace
  <2>1. /\ hs = "running" /\ UNCHANGED <<cwd, run, line, heat, initFile, bankFile, reading>>
        /\ \/ hs' = "fatal" /\ dumped' = dumped
           \/ /\ hs' = "exit 0" /\ line > 0
              /\ dumped' = [is |-> "whole", heat |-> heat]
    BY <1>5 DEF EndOfTrace
  <2>2. StateMissing' = StateMissing
    BY <2>1 DEF StateMissing
  <2>3. CASE hs' = "fatal" /\ dumped' = dumped
    <3>1. Types'
      BY <2>1, <2>3 DEF Types
    <3> QED BY <2>1, <2>2, <2>3, <3>1 DEF CarryInv
  <2>4. CASE /\ hs' = "exit 0" /\ line > 0
             /\ dumped' = [is |-> "whole", heat |-> heat]
    <3>1. dumped'.is = "whole" /\ dumped'.heat = heat /\ dumped' \in Dumps
      BY <2>4, DumpTypes DEF Types
    <3>2. ~ StateMissing
      BY <2>1, <2>4 DEF CarryInv
    <3>3. Types'
      BY <2>1, <2>4, <3>1 DEF Types
    <3>4. DumpedAll'
      BY <2>1, <2>4, <3>1 DEF DumpedAll
    <3> QED BY <2>1, <2>2, <2>4, <3>2, <3>3, <3>4 DEF CarryInv
  <2> QED BY <2>1, <2>3, <2>4
<1>6. CASE Killed
  <2>1. /\ hs = "running" /\ hs' = "killed"
        /\ UNCHANGED <<cwd, run, line, heat, initFile, bankFile, reading>>
        /\ \/ dumped' = dumped
           \/ line > 0 /\ dumped' \in {TornDump, [is |-> "whole", heat |-> heat]}
    BY <1>6 DEF Killed
  <2>2. StateMissing' = StateMissing
    BY <2>1 DEF StateMissing
  <2>3. dumped' \in Dumps
    BY <2>1, DumpTypes DEF Types
  <2>4. dumped'.is # "none" => ~ StateMissing
    BY <2>1 DEF CarryInv
  <2>5. Types'
    BY <2>1, <2>3 DEF Types
  <2> QED BY <2>1, <2>2, <2>4, <2>5 DEF CarryInv
<1>7. CASE Return
  <2>1. /\ hs' = "idle" /\ UNCHANGED <<cwd, run, dumped>>
        /\ heat' = <<>> /\ line' = 0
        /\ initFile' \in {initFile, Carried}
    BY <1>7 DEF Return, Kept
  <2>2. bankFile' = bankFile \/ bankFile'.exists
    <3>1. bankFile' = bankFile \/ \E a \in SUBSET Banks : bankFile' = [exists |-> TRUE, active |-> a]
      BY <1>7 DEF Return
    <3> QED BY <3>1
  <2>3. <<>> \in Histories /\ Carried \in Histories
    <3>1. <<>> \in Histories
      BY DEF Histories
    <3>2. dumped.heat \in Histories /\ initFile \in Histories
      BY DEF Types, Dumps
    <3> QED BY <3>1, <3>2 DEF Carried
  <2>4. ~ StateMissing => ~ StateMissing'
    BY <2>1, <2>2 DEF StateMissing
  <2>5. Types'
    BY <2>1, <2>3 DEF Types
  <2> QED BY <2>1, <2>4, <2>5 DEF CarryInv
<1>8. CASE UNCHANGED vars
  <2>1. UNCHANGED <<cwd, hs, run, line, heat, dumped, initFile, bankFile, reading>>
    BY <1>8 DEF vars
  <2>2. StateMissing' = StateMissing
    BY <2>1 DEF StateMissing
  <2> QED BY <2>1, <2>2 DEF Types, CarryInv, DumpedAll, DumpedNothing
<1> QED BY <1>1, <1>2, <1>3, <1>4, <1>5, <1>6, <1>7, <1>8 DEF Next

\* Temperatures carry over from run to run: with a reading the file the next
\* run starts from grows by the lines of the run that gave it, each once and in
\* order; a run that fails or is killed, before a line, between lines, after
\* the last or inside its dump, leaves the file as it was, and so does a run
\* that ends without having read one (hotspot_interface.py run).
THEOREM TemperaturesCarryOn == Spec => CarriesOn
<1> DEFINE A == IF ReadingTaken THEN Continues(initFile', initFile, run, line)
                                ELSE initFile' = initFile
<1>1. Types /\ CarryInv /\ [Next]_vars => [A]_vars
  <2> SUFFICES ASSUME Types, CarryInv, Next PROVE A
    OBVIOUS
  <2>1. CASE ~ Return
    <3>1. initFile' = initFile /\ (reading' = reading \/ reading' = NoReading)
      BY <2>1 DEF Next, Start, StartFails, PowerLine, PowerLineEnds, EndOfTrace, Killed
    <3>2. ~ ReadingTaken
      BY <3>1 DEF NoReading, ReadingTaken
    <3> QED BY <3>1, <3>2
  <2>2. CASE Return /\ hs # "exit 0"
    <3>1. initFile' = initFile /\ reading' = [is |-> "false", row |-> <<>>]
      BY <2>2 DEF Return, ExitAccepted, Kept
    <3>2. reading'.is = "false"
      BY <3>1
    <3> QED BY <3>1, <3>2 DEF ReadingTaken
  <2>3. CASE Return /\ hs = "exit 0"
    <3>1. initFile' = Carried /\ reading' = [is |-> "true", row |-> row]
      BY <2>3 DEF Return, ExitAccepted
    <3>2. reading'.is = "true" /\ reading.is = "none"
      BY <2>3, <3>1 DEF CarryInv
    <3>3. CASE DumpedAll
      <4>1. initFile' = heat /\ ReadingTaken
        BY <3>1, <3>2, <3>3 DEF Carried, DumpedAll, ReadingTaken
      <4>2. Continues(initFile', initFile, run, line)
        BY <2>3, <4>1 DEF CarryInv
      <4> QED BY <4>1, <4>2
    <3>4. CASE DumpedNothing
      <4>1. initFile' = initFile /\ ~ ReadingTaken
        BY <3>1, <3>4 DEF Carried, DumpedNothing, ReadingTaken
      <4> QED BY <4>1
    <3> QED BY <2>3, <3>3, <3>4 DEF CarryInv
  <2> QED BY <2>1, <2>2, <2>3
<1> QED BY <1>1, CarryInit, CarryNext, PTL DEF Spec, CarriesOn
-----------------------------------------------------------------------------
(* The offsets base and count *)

NumLayers == Len(Layers)

\* A nonempty set of numbers has a least one.
LEMMA LeastExists ==
  ASSUME NEW T, T \subseteq Nat, T # {}
  PROVE  \E x \in T : \A y \in T : x <= y
<1>1. PICK x \in T : \A y \in T : <<y, x>> \notin OpToRel(<, Nat)
  BY NatLessThanWellFounded, WFMin
<1>2. \A y \in T : ~ (y < x)
  BY <1>1 DEF OpToRel
<1> QED BY <1>2

LEMMA LayerUnits ==
  NumLayers \in Nat /\ \A i \in 1 .. NumLayers : Units(i) \in Nat
BY HotSpotAssumption DEF NumLayers, Units

LEMMA OneLayer ==
  ASSUME NEW i \in 1 .. NumLayers
  PROVE  /\ IsFiniteSet({i} \X (1 .. Units(i)))
         /\ Cardinality({i} \X (1 .. Units(i))) = Units(i)
<1> DEFINE A == {i}
           B == 1 .. Units(i)
<1>1. Units(i) \in Nat
  BY LayerUnits
<1>2. IsFiniteSet(A) /\ Cardinality(A) = 1
  BY FS_Singleton
<1>3. IsFiniteSet(B) /\ Cardinality(B) = Units(i)
  BY <1>1, FS_Interval
<1> HIDE DEF A, B
<1>4. IsFiniteSet(A \X B) /\ Cardinality(A \X B) = 1 * Units(i)
  BY <1>2, <1>3, FS_Product
<1> QED BY <1>1, <1>4 DEF A, B

LEMMA BlocksWith ==
  ASSUME NEW S, NEW i
  PROVE  Blocks(S \union {i}) = Blocks(S) \union ({i} \X (1 .. Units(i)))
BY DEF Blocks

LEMMA BlocksOfAllFinite == IsFiniteSet(Blocks(1 .. NumLayers))
<1> DEFINE T == {n \in 0 .. NumLayers : ~ IsFiniteSet(Blocks(1 .. n))}
<1>1. NumLayers \in Nat
  BY LayerUnits
<1>2. SUFFICES T = {}
  BY <1>1
<1>3. SUFFICES ASSUME T # {} PROVE FALSE
  OBVIOUS
<1>4. PICK n \in T : \A m \in T : n <= m
  <2>1. T \subseteq Nat
    BY <1>1
  <2> HIDE DEF T
  <2> QED BY <2>1, <1>3, LeastExists
<1>5. CASE n = 0
  <2>1. Blocks(1 .. 0) = {}
    BY DEF Blocks
  <2> QED BY <1>4, <1>5, <2>1, FS_EmptySet
<1>6. CASE n # 0
  <2>1. n \in 1 .. NumLayers /\ n - 1 \in 0 .. NumLayers /\ ~ (n <= n - 1)
    BY <1>1, <1>4, <1>6
  <2>2. n - 1 \notin T
    BY <2>1, <1>4
  <2>3. IsFiniteSet(Blocks(1 .. (n - 1)))
    BY <2>1, <2>2
  <2>4. 1 .. n = (1 .. (n - 1)) \union {n}
    BY <2>1, LayerUnits
  <2>5. IsFiniteSet(Blocks(1 .. (n - 1)) \union ({n} \X (1 .. Units(n))))
    <3>1. IsFiniteSet({n} \X (1 .. Units(n)))
      BY <2>1, OneLayer
    <3> QED BY <2>3, <3>1, FS_Union
  <2>6. IsFiniteSet(Blocks((1 .. (n - 1)) \union {n}))
    BY <2>5, BlocksWith
  <2> QED BY <1>4, <2>4, <2>6
<1> QED BY <1>5, <1>6

\* The number of blocks of some layers is monotonic, and grows with a layer by
\* the units of its floorplan.
LEMMA BlocksMonotone ==
  ASSUME NEW S \in SUBSET (1 .. NumLayers), NEW T \in SUBSET S
  PROVE  /\ IsFiniteSet(Blocks(S)) /\ Cardinality(Blocks(S)) \in Nat
         /\ Cardinality(Blocks(T)) \in Nat
         /\ Cardinality(Blocks(T)) <= Cardinality(Blocks(S))
<1>1. Blocks(S) \in SUBSET Blocks(1 .. NumLayers) /\ Blocks(T) \in SUBSET Blocks(S)
  BY DEF Blocks
<1>2. IsFiniteSet(Blocks(S))
  BY <1>1, BlocksOfAllFinite, FS_Subset
<1>3. IsFiniteSet(Blocks(T)) /\ Cardinality(Blocks(T)) <= Cardinality(Blocks(S))
  BY <1>1, <1>2, FS_Subset
<1> QED BY <1>2, <1>3, FS_CardinalityType

LEMMA BlocksAdd ==
  ASSUME NEW S \in SUBSET (1 .. NumLayers), NEW i \in 1 .. NumLayers, i \notin S
  PROVE  Cardinality(Blocks(S \union {i})) = Cardinality(Blocks(S)) + Units(i)
<1> DEFINE A == Blocks(S)
           B == {i} \X (1 .. Units(i))
<1>1. IsFiniteSet(A) /\ Cardinality(A) \in Nat
  BY BlocksMonotone
<1>2. IsFiniteSet(B) /\ Cardinality(B) = Units(i) /\ Units(i) \in Nat
  BY OneLayer, LayerUnits
<1>3. A \cap B = {}
  <2>1. \A x \in A : \E m \in S : x \in {m} \X (1 .. Units(m))
    BY DEF Blocks
  <2>2. \A x \in A : x[1] \in S
    BY <2>1
  <2>3. \A x \in B : x[1] = i
    OBVIOUS
  <2> QED BY <2>2, <2>3
<1>4. Blocks(S \union {i}) = A \union B
  BY BlocksWith
<1> HIDE DEF A, B
<1>5. Cardinality(A \union B) = Cardinality(A) + Cardinality(B) - Cardinality(A \cap B)
  BY <1>1, <1>2, FS_Union
<1>6. Cardinality(A \cap B) = 0
  BY <1>3, FS_EmptySet
<1>7. Cardinality(A \union B) = Cardinality(A) + Units(i)
  BY <1>1, <1>2, <1>5, <1>6
<1>8. Cardinality(Blocks(S \union {i})) = Cardinality(A) + Units(i)
  BY <1>4, <1>7
<1> QED BY <1>8 DEF A

-----------------------------------------------------------------------------
(* base: the blocks of different layers take different entries of power. *)

LEMMA BaseBounds ==
  ASSUME NEW i \in 1 .. NumLayers
  PROVE  /\ Base(i) \in Nat /\ Units(i) \in Nat /\ Total \in Nat
         /\ Base(i) + Units(i) <= Total
         /\ \A m \in 1 .. NumLayers : i < m => Base(i) + Units(i) <= Base(m)
<1>1. NumLayers \in Nat /\ Units(i) \in Nat
  BY LayerUnits
<1>2. /\ Below(i) \in SUBSET (1 .. NumLayers) /\ i \notin Below(i)
      /\ Below(i) \union {i} = 1 .. i /\ 1 .. i \in SUBSET (1 .. NumLayers)
      /\ 1 .. NumLayers \in SUBSET (1 .. NumLayers)
  BY <1>1 DEF Below
<1>3. Cardinality(Blocks(1 .. i)) = Base(i) + Units(i)
  BY <1>2, BlocksAdd DEF Base
<1>4. Base(i) \in Nat
  BY <1>2, BlocksMonotone DEF Base
<1>5. Total \in Nat /\ Base(i) + Units(i) <= Total
  BY <1>2, <1>3, BlocksMonotone DEF Total, NumLayers
<1>6. ASSUME NEW m \in 1 .. NumLayers, i < m
      PROVE  Base(i) + Units(i) <= Base(m)
  <2>1. Below(m) \in SUBSET (1 .. NumLayers) /\ 1 .. i \in SUBSET Below(m)
    BY <1>1, <1>6 DEF Below
  <2> QED BY <2>1, <1>3, BlocksMonotone DEF Base
<1> QED BY <1>1, <1>4, <1>5, <1>6

\* BlockAt finds the block a position was computed for.
LEMMA BlockAtPosition ==
  ASSUME NEW i \in 1 .. NumLayers, NEW j \in 1 .. Units(i)
  PROVE  /\ Base(i) + j \in 1 .. Total
         /\ BlockAt(Base(i) + j) = [layer |-> i, unit |-> j]
<1> DEFINE p == Base(i) + j
           Holds(m) == Base(m) < p /\ p <= Base(m) + Units(m)
<1>1. NumLayers \in Nat /\ Base(i) \in Nat /\ Units(i) \in Nat /\ Total \in Nat
  BY BaseBounds, LayerUnits
<1>2. Holds(i) /\ p \in 1 .. Total
  BY <1>1, BaseBounds
<1>3. ASSUME NEW m \in 1 .. NumLayers, Holds(m) PROVE m = i
  <2>1. /\ Base(m) \in Nat /\ Units(m) \in Nat
        /\ i < m => Base(i) + Units(i) <= Base(m)
        /\ m < i => Base(m) + Units(m) <= Base(i)
    BY BaseBounds
  <2>2. i \in Int /\ m \in Int /\ p \in Int
    BY <1>1
  <2>3. ~ (i < m)
    BY <1>1, <1>2, <1>3, <2>1, <2>2
  <2>4. ~ (m < i)
    BY <1>1, <1>2, <1>3, <2>1, <2>2
  <2> QED BY <2>2, <2>3, <2>4
<1>4. i = CHOOSE m \in 1 .. NumLayers : Holds(m)
  <2> HIDE DEF Holds
  <2> QED BY <1>2, <1>3
<1>5. BlockAt(p) = [layer |-> i, unit |-> p - Base(i)]
  BY <1>4 DEF BlockAt, NumLayers
<1>6. p - Base(i) = j
  BY <1>1
<1> QED BY <1>2, <1>5, <1>6

-----------------------------------------------------------------------------
(* count: every column of the trace belongs to one powered layer. *)

LEMMA LayerOfColumn ==
  ASSUME NEW c \in 1 .. Width
  PROVE  LayerOf(c) \in Powered
<1> DEFINE CountTo(n) == Cardinality(Blocks(Powered \intersect (1 .. n)))
           T == {n \in 0 .. NumLayers : c <= CountTo(n)}
<1>1. NumLayers \in Nat /\ Powered \subseteq 1 .. NumLayers
  BY LayerUnits DEF Powered, NumLayers
<1>2. \A n \in 0 .. NumLayers : CountTo(n) \in Nat
  BY <1>1, BlocksMonotone
<1>3. Powered \intersect (1 .. NumLayers) = Powered /\ Powered \intersect (1 .. 0) = {}
  <2>1. 1 .. 0 = {}
    OBVIOUS
  <2>2. Powered \intersect (1 .. NumLayers) = Powered
    BY <1>1, Zenon
  <2> QED BY <2>1, <2>2
<1>4. CountTo(NumLayers) = Width /\ Width \in Nat
  BY <1>1, <1>2, <1>3 DEF Width
<1>5. CountTo(0) = 0
  <2>1. Blocks({}) = {}
    BY DEF Blocks
  <2> QED BY <1>3, <2>1, FS_EmptySet
<1>6. PICK n \in T : \A m \in T : n <= m
  <2>1. T \subseteq Nat /\ NumLayers \in T
    BY <1>1, <1>4
  <2> HIDE DEF T
  <2> QED BY <2>1, LeastExists
<1>7. c \in Nat /\ c > 0
  BY <1>4
<1>8. n \in 1 .. NumLayers /\ n - 1 \in 0 .. NumLayers
  <2>1. n # 0
    BY <1>5, <1>6, <1>7
  <2> QED BY <1>1, <1>6, <2>1
<1>9. CountTo(n - 1) < c
  <2>1. n - 1 \notin T
    BY <1>1, <1>6, <1>8
  <2> QED BY <1>2, <1>7, <1>8, <2>1
<1>10. CountTo(n - 1) = Count(n)
  BY DEF Count, Below
<1>11. n \in Powered
  <2> SUFFICES ASSUME n \notin Powered PROVE FALSE
    OBVIOUS
  <2>1. Powered \intersect (1 .. n) = Powered \intersect (1 .. (n - 1))
    BY <1>1, <1>8
  <2>2. c <= CountTo(n) /\ CountTo(n) = CountTo(n - 1)
    BY <1>6, <2>1
  <2> QED BY <1>2, <1>7, <1>8, <1>9, <2>2
<1>12. CountTo(n) = Count(n) + Units(n)
  <2>1. /\ Powered \intersect (1 .. n) = (Powered \intersect Below(n)) \union {n}
        /\ Powered \intersect Below(n) \in SUBSET (1 .. NumLayers)
        /\ n \notin Powered \intersect Below(n)
    BY <1>1, <1>8, <1>11 DEF Below
  <2> QED BY <1>8, <2>1, BlocksAdd DEF Count
<1>13. Count(n) < c /\ c <= Count(n) + Units(n)
  BY <1>6, <1>9, <1>10, <1>12
<1> QED BY <1>11, <1>13 DEF LayerOf

-----------------------------------------------------------------------------
(* The row of one power line *)

\* The block a column is permuted to has the name in the header.
LEMMA EntryOfColumn ==
  ASSUME NamesFound, NEW c \in 1 .. Width
  PROVE  \E i \in Powered : \E j \in 1 .. Units(i) :
           /\ i \in 1 .. NumLayers
           /\ Layers[i].flp[j] = columns[c]
           /\ Entry(c) \in 1 .. Total
           /\ BlockAt(Entry(c)) = [layer |-> i, unit |-> j]
<1>1. PICK i \in Powered : i = LayerOf(c)
  BY LayerOfColumn
<1>2. i \in 1 .. NumLayers
  BY DEF Powered, NumLayers
<1>3. PICK j \in 1 .. Units(i) : j = BlkIndex(i, columns[c]) /\ Layers[i].flp[j] = columns[c]
  <2> DEFINE at == {m \in 1 .. Units(i) : Layers[i].flp[m] = columns[c]}
             unit == BlkIndex(i, columns[c])
  <2>1. unit # 0
    BY <1>1 DEF NamesFound
  <2>2. at # {} /\ unit = CHOOSE m \in at : TRUE
    BY <2>1 DEF BlkIndex
  <2>3. unit \in at
    <3> HIDE DEF at, unit
    <3> QED BY <2>2
  <2> QED BY <2>3
<1>4. Entry(c) = Base(i) + j
  BY <1>1, <1>3 DEF Entry
<1>5. Entry(c) \in 1 .. Total /\ BlockAt(Entry(c)) = [layer |-> i, unit |-> j]
  BY <1>2, <1>4, BlockAtPosition
<1> QED BY <1>2, <1>3, <1>5

\* Two columns are permuted to one entry only if they have one name.
LEMMA EntryNames ==
  ASSUME NamesFound, NEW c \in 1 .. Width, NEW d \in 1 .. Width, Entry(c) = Entry(d)
  PROVE  columns[c] = columns[d]
<1>1. PICK i, j :
        Layers[i].flp[j] = columns[c] /\ BlockAt(Entry(c)) = [layer |-> i, unit |-> j]
  BY EntryOfColumn
<1>2. PICK m, n :
        Layers[m].flp[n] = columns[d] /\ BlockAt(Entry(d)) = [layer |-> m, unit |-> n]
  BY EntryOfColumn
<1>3. i = m /\ j = n
  <2>1. [layer |-> i, unit |-> j] = [layer |-> m, unit |-> n]
    BY <1>1, <1>2
  <2>2. [layer |-> i, unit |-> j].layer = [layer |-> m, unit |-> n].layer
    BY <2>1
  <2>3. [layer |-> i, unit |-> j].unit = [layer |-> m, unit |-> n].unit
    BY <2>1
  <2> QED BY <2>2, <2>3
<1> QED BY <1>1, <1>2, <1>3

\* What column c of a row must be that was simulated in run r from line l with
\* the power of a header and the idle banks of the pipeline.
CellNamed(cell, name, r, l) ==
  /\ cell.block = name
  /\ cell.dynamic \in {None, <<r, l, name>>}
CellIdle(cell, active) ==
  cell.dynamic = None <=> IsBank(cell.block) /\ cell.block[2] \notin active

LEMMA RowWritten ==
  ASSUME PowerLine, NEW c \in 1 .. Width
  PROVE  /\ CellNamed(row'[c], columns[c], run, line + 1)
         /\ StackIs3Dmem /\ leakage => CellIdle(row'[c], ActiveRead)
<1> DEFINE here == [p \in 1..Total |->
                      IF \E d \in 1..Width : Entry(d) = p
                      THEN <<run, line + 1, columns[CHOOSE d \in 1..Width : Entry(d) = p]>>
                      ELSE power[p]]
           new == PowerNew(here, ActiveRead)
           e == Entry(c)
           figure == <<run, line + 1, columns[c]>>
<1>1. /\ NamesFound
      /\ row' = [d \in 1..Width |->
                   [block |-> LET at == BlockAt(Entry(d))
                              IN Layers[at.layer].flp[at.unit],
                    dynamic |-> new[Entry(d)]]]
  BY DEF PowerLine
<1>2. PICK i, j :
        /\ i \in Powered /\ j \in 1 .. Units(i) /\ i \in 1 .. NumLayers
        /\ Layers[i].flp[j] = columns[c] /\ e \in 1 .. Total
        /\ BlockAt(e) = [layer |-> i, unit |-> j]
  BY <1>1, EntryOfColumn
<1>3. BlockAt(e).layer = i /\ BlockAt(e).unit = j
  BY <1>2
<1>4. here[e] = figure
  <2> DEFINE d == CHOOSE d \in 1 .. Width : Entry(d) = e
  <2>1. here[e] = <<run, line + 1, columns[d]>>
    BY <1>2
  <2>2. d \in 1 .. Width /\ Entry(d) = e
    OBVIOUS
  <2>3. columns[d] = columns[c]
    BY <2>2, <1>1, EntryNames
  <2> QED BY <2>1, <2>3
<1> DEFINE idle == /\ i - 1 # 3 /\ BlkId(i - 1, j - 1) \notin ActiveRead
                   /\ leakage
<1>5. new[e] = IF idle THEN None ELSE figure
  <2> HIDE DEF here, e, figure
  <2> QED BY <1>2, <1>3, <1>4 DEF PowerNew
<1>6. row'[c] = [block |-> columns[c], dynamic |-> IF idle THEN None ELSE figure]
  <2> HIDE DEF new, figure, idle
  <2> QED BY <1>1, <1>2, <1>3, <1>5
<1>7. row'[c].block = columns[c] /\ row'[c].dynamic = IF idle THEN None ELSE figure
  <2> HIDE DEF idle, figure
  <2> QED BY <1>6
<1>8. figure # None
  BY DEF None
<1>9. CellNamed(row'[c], columns[c], run, line + 1)
  <2> HIDE DEF idle
  <2> QED BY <1>7 DEF CellNamed
<1>10. ASSUME StackIs3Dmem, leakage PROVE CellIdle(row'[c], ActiveRead)
  <2>1. IF i - 1 = 3 THEN ~ IsBank(columns[c])
        ELSE IsBank(columns[c]) /\ columns[c][2] = BlkId(i - 1, j - 1)
    BY <1>2, <1>10 DEF StackIs3Dmem
  <2>2. row'[c].dynamic = None <=> idle
    <3> HIDE DEF idle, figure
    <3> QED BY <1>7, <1>8
  <2> HIDE DEF figure, here, new, e
  <2> QED BY <1>7, <1>10, <2>1, <2>2 DEF CellIdle
<1> QED BY <1>9, <1>10


\* The figures of a row come from run r.
FiguresOf(cells, r) ==
  \A c \in 1 .. Len(cells) : cells[c].dynamic = None \/ cells[c].dynamic[1] = r

\* While HotSpot runs, the row is this run's, and that of the line just read;
\* after it has ended well, still this run's.
RowInv ==
  /\ hs \in {"running", "exit 0"} => FiguresOf(row, run)
  /\ reading.is = "true" => FiguresOf(reading.row, run)
  /\ hs = "running" /\ row # <<>> =>
       \A c \in 1 .. Width :
         /\ CellNamed(row[c], columns[c], run, line)
         /\ StackIs3Dmem /\ leakage => CellIdle(row[c], ActiveRead)

LEMMA RowInit == Init => RowInv
<1> SUFFICES ASSUME Init PROVE RowInv
  OBVIOUS
<1>1. hs = "idle" /\ reading.is = "none"
  BY DEF Init, NoReading
<1> QED BY <1>1 DEF RowInv

LEMMA RowNext == RowInv /\ [Next]_vars => RowInv'
<1> SUFFICES ASSUME RowInv, [Next]_vars PROVE RowInv'
  OBVIOUS
<1>1. ASSUME NEW n \in 0 .. MaxLines, NEW bad \in BOOLEAN, Start(n, bad) PROVE RowInv'
  <2>1. row' = <<>> /\ reading'.is = "none"
    BY <1>1 DEF Start, NoReading
  <2>2. FiguresOf(row', run')
    BY <2>1 DEF FiguresOf
  <2> QED BY <2>1, <2>2 DEF RowInv
<1>2. CASE StartFails
  <2>1. hs' = "fatal" /\ reading'.is = "none"
    BY <1>2 DEF StartFails, NoReading
  <2> QED BY <2>1 DEF RowInv
<1>3. CASE PowerLine
  <2>1. /\ UNCHANGED <<cwd, hs, run, leakage, columns, bankFile, reading>> /\ hs = "running"
        /\ line' = line + 1
    BY <1>3 DEF PowerLine
  <2>2. DOMAIN row' = 1 .. Width /\ Len(row') = Width
    <3>1. Width \in Nat
      <4>1. Powered \in SUBSET (1 .. NumLayers)
        BY DEF Powered, NumLayers
      <4> QED BY <4>1, BlocksMonotone DEF Width
    <3>2. PICK F : row' = [d \in 1 .. Width |-> F[d]]
      <4>1. row' = [d \in 1 .. Width |-> row'[d]]
        BY <1>3 DEF PowerLine
      <4> QED BY <4>1
    <3>3. DOMAIN row' = 1 .. Width
      BY <3>2
    <3>4. row' \in Seq({F[d] : d \in 1 .. Width})
      BY <3>1, <3>2
    <3>5. Len(row') = Width
      BY <3>1, <3>3, <3>4
    <3> QED BY <3>3, <3>5
  <2>3. ASSUME NEW c \in 1 .. Width
        PROVE  /\ CellNamed(row'[c], columns'[c], run', line')
               /\ StackIs3Dmem /\ leakage' => CellIdle(row'[c], ActiveRead')
    <3>1. ActiveRead' = ActiveRead
      BY <2>1 DEF ActiveRead
    <3> QED BY <1>3, <2>1, <3>1, RowWritten
  <2>4. FiguresOf(row', run')
    <3> SUFFICES ASSUME NEW c \in 1 .. Width
                 PROVE  row'[c].dynamic = None \/ row'[c].dynamic[1] = run'
      BY <2>2 DEF FiguresOf
    <3>1. row'[c].dynamic \in {None, <<run', line', columns'[c]>>}
      BY <2>3 DEF CellNamed
    <3>2. <<run', line', columns'[c]>>[1] = run'
      OBVIOUS
    <3> QED BY <3>1, <3>2
  <2>5. reading'.is = "true" => FiguresOf(reading'.row, run')
    BY <2>1 DEF RowInv
  <2> QED BY <2>3, <2>4, <2>5 DEF RowInv
<1>4. CASE PowerLineEnds
  <2>1. /\ hs = "running" /\ hs' # "running"
        /\ UNCHANGED <<run, row, reading>>
    BY <1>4 DEF PowerLineEnds
  <2> QED BY <2>1 DEF RowInv
<1>5. CASE EndOfTrace
  <2>1. /\ hs = "running" /\ hs' # "running"
        /\ UNCHANGED <<run, row, reading>>
    BY <1>5 DEF EndOfTrace
  <2> QED BY <2>1 DEF RowInv
<1>6. CASE Return
  <2>1. hs' = "idle" /\ run' = run
    BY <1>6 DEF Return
  <2>2. \/ hs = "exit 0" /\ reading' = [is |-> "true", row |-> row]
        \/ reading' = [is |-> "false", row |-> <<>>]
    BY <1>6 DEF Return, ExitAccepted
  <2>3. \/ hs = "exit 0" /\ reading'.is = "true" /\ reading'.row = row
        \/ reading'.is = "false"
    <3>1. ASSUME reading' = [is |-> "true", row |-> row]
          PROVE  reading'.is = "true" /\ reading'.row = row
      BY <3>1
    <3>2. ASSUME reading' = [is |-> "false", row |-> <<>>]
          PROVE  reading'.is = "false"
      BY <3>2
    <3> QED BY <2>2, <3>1, <3>2
  <2>4. reading'.is = "true" => FiguresOf(reading'.row, run')
    BY <2>1, <2>3 DEF RowInv
  <2> QED BY <2>1, <2>4 DEF RowInv
<1>7. CASE Killed
  <2>1. hs' = "killed" /\ UNCHANGED <<run, reading>>
    BY <1>7 DEF Killed
  <2> QED BY <2>1 DEF RowInv
<1>8. CASE UNCHANGED vars
  BY <1>8 DEF vars, RowInv, ActiveRead
<1> QED BY <1>1, <1>2, <1>3, <1>4, <1>5, <1>6, <1>7, <1>8 DEF Next

LEMMA RowsCorrect == Spec => []RowInv
BY RowInit, RowNext, PTL DEF Spec

\* The two permutations of hotspot.c are inverse, whatever the layers, their
\* floorplans and the order of the header are: a column of the row is the block
\* the header names, simulated with its own power of the line just read.
THEOREM ColumnsCorrect == Spec => []ColumnsFollowNames
<1>1. RowInv => ColumnsFollowNames
  BY DEF RowInv, ColumnsFollowNames, CellNamed
<1> QED BY <1>1, RowsCorrect, PTL

\* In a stack laid out as temperature.c supposes, and in the directory the
\* pipeline writes to, the banks without dynamic power are those the pipeline
\* declared idle before the run.
THEOREM IdleBanksCorrect ==
  ASSUME StackIs3Dmem
  PROVE  Spec => []IdleBanksLeakOnly
<1>1. RowInv => IdleBanksLeakOnly
  BY DEF RowInv, IdleBanksLeakOnly, CellIdle, ActiveRead
<1> QED BY <1>1, RowsCorrect, PTL

\* The row the pipeline takes after a run that HotSpot ended well was never
\* written by an earlier run: every run opens the trace anew.
THEOREM ReadingCorrect == Spec => []ReadingIsThisRuns
<1>1. RowInv => ReadingIsThisRuns
  BY DEF RowInv, ReadingIsThisRuns, FiguresOf
<1> QED BY <1>1, RowsCorrect, PTL

=============================================================================
