---------------------------- MODULE ProcManProofs ----------------------------
(***************************************************************************)
(* Proofs about ProcMan, for every number of managers and jobs: types, the   *)
(* limit each manager keeps, what its file says of it, and that no job is     *)
(* launched twice.                                                          *)
(***************************************************************************)
EXTENDS ProcMan, FiniteSetTheorems, TLAPS

-----------------------------------------------------------------------------
(* Queues *)

\* What is taken from the front of a queue and what is left of it.
LEMMA Split ==
  ASSUME NEW S, NEW s \in Seq(S), NEW n \in Nat, n <= Len(s)
  PROVE  /\ SubSeq(s, 1, n) \in Seq(S) /\ Len(SubSeq(s, 1, n)) = n
         /\ \A i \in 1 .. n : SubSeq(s, 1, n)[i] = s[i]
         /\ SubSeq(s, n + 1, Len(s)) \in Seq(S)
         /\ Len(SubSeq(s, n + 1, Len(s))) = Len(s) - n
         /\ \A i \in 1 .. Len(s) - n : SubSeq(s, n + 1, Len(s))[i] = s[n + i]
  OBVIOUS

\* nothing is in both.
LEMMA SplitSets ==
  ASSUME NEW S, NEW s \in Seq(S), NEW n \in Nat, n <= Len(s)
  PROVE  /\ ToSet(s) = ToSet(SubSeq(s, 1, n)) \union ToSet(SubSeq(s, n + 1, Len(s)))
         /\ IsInjective(s) => /\ IsInjective(SubSeq(s, n + 1, Len(s)))
                              /\ ToSet(SubSeq(s, 1, n))
                                   \intersect ToSet(SubSeq(s, n + 1, Len(s))) = {}
<1> DEFINE a == SubSeq(s, 1, n)
           b == SubSeq(s, n + 1, Len(s))
<1>1. /\ a \in Seq(S) /\ Len(a) = n /\ \A i \in 1 .. n : a[i] = s[i]
      /\ b \in Seq(S) /\ Len(b) = Len(s) - n /\ \A i \in 1 .. Len(s) - n : b[i] = s[n + i]
  BY Split
<1>2. DOMAIN a = 1 .. n /\ DOMAIN b = 1 .. Len(s) - n /\ DOMAIN s = 1 .. Len(s)
  BY <1>1
<1> HIDE DEF a, b
<1>3. \A x \in ToSet(a) : \E i \in 1 .. n : x = s[i]
  BY <1>1, <1>2 DEF ToSet
<1>4. \A x \in ToSet(b) : \E i \in n + 1 .. Len(s) : x = s[i]
  <2> TAKE x \in ToSet(b)
  <2>1. PICK j \in 1 .. Len(s) - n : x = b[j]
    BY <1>2 DEF ToSet
  <2>2. n + j \in n + 1 .. Len(s) /\ x = s[n + j]
    BY <1>1, <2>1
  <2> QED BY <2>2
<1>5. \A i \in 1 .. Len(s) : s[i] \in ToSet(a) \union ToSet(b)
  <2> TAKE i \in 1 .. Len(s)
  <2>1. CASE i <= n
    <3>1. i \in DOMAIN a /\ a[i] = s[i]
      BY <1>1, <1>2, <2>1
    <3> QED BY <3>1 DEF ToSet
  <2>2. CASE i > n
    <3>1. i - n \in DOMAIN b /\ b[i - n] = s[n + (i - n)] /\ n + (i - n) = i
      BY <1>1, <1>2, <2>2
    <3>2. b[i - n] = s[i]
      BY <3>1
    <3> QED BY <3>1, <3>2 DEF ToSet
  <2> QED BY <2>1, <2>2
<1>6. ToSet(s) = ToSet(a) \union ToSet(b)
  <2>1. \A x \in ToSet(s) : x \in ToSet(a) \union ToSet(b)
    BY <1>2, <1>5 DEF ToSet
  <2>2. \A x \in ToSet(a) \union ToSet(b) : \E i \in 1 .. Len(s) : x = s[i]
    <3>1. 1 .. n \subseteq 1 .. Len(s) /\ n + 1 .. Len(s) \subseteq 1 .. Len(s)
      OBVIOUS
    <3> QED BY <1>3, <1>4, <3>1
  <2>3. \A x \in ToSet(a) \union ToSet(b) : x \in ToSet(s)
    BY <1>2, <2>2 DEF ToSet
  <2> QED BY <2>1, <2>3
<1>7. ASSUME IsInjective(s)
      PROVE  IsInjective(b) /\ ToSet(a) \intersect ToSet(b) = {}
  <2>1. \A i, j \in 1 .. Len(s) : s[i] = s[j] => i = j
    BY <1>2, <1>7 DEF IsInjective
  <2>2. \A i, j \in DOMAIN b : b[i] = b[j] => i = j
    <3> SUFFICES ASSUME NEW i \in 1 .. Len(s) - n, NEW j \in 1 .. Len(s) - n, b[i] = b[j]
                 PROVE  i = j
      BY <1>2
    <3>1. b[i] = s[n + i] /\ b[j] = s[n + j]
      BY <1>1
    <3>2. n + i \in 1 .. Len(s) /\ n + j \in 1 .. Len(s)
      OBVIOUS
    <3>3. n + i = n + j
      BY <2>1, <3>1, <3>2, Zenon
    <3> QED BY <3>3
  <2>3. \A x : ~ (x \in ToSet(a) /\ x \in ToSet(b))
    <3> SUFFICES ASSUME NEW x, x \in ToSet(a), x \in ToSet(b) PROVE FALSE
      OBVIOUS
    <3>1. PICK i \in 1 .. n : x = s[i]
      BY <1>3
    <3>2. PICK j \in n + 1 .. Len(s) : x = s[j]
      BY <1>4
    <3>3. /\ i \in Nat /\ j \in Nat /\ Len(s) \in Nat
          /\ 1 <= i /\ i <= n /\ n + 1 <= j /\ j <= Len(s)
      OBVIOUS
    <3>4. i \in 1 .. Len(s) /\ j \in 1 .. Len(s) /\ i # j
      BY <3>3
    <3> QED BY <2>1, <3>1, <3>2, <3>4, Zenon
  <2> QED BY <2>2, <2>3 DEF IsInjective
<1> QED BY <1>6, <1>7 DEF a, b

\* The set of what a sequence holds is finite, and not larger than it is long.
LEMMA SetOfSequence ==
  ASSUME NEW S, NEW s \in Seq(S)
  PROVE  IsFiniteSet(ToSet(s)) /\ Cardinality(ToSet(s)) <= Len(s) /\ ToSet(s) \subseteq S
<1>1. ToSet(s) = {s[i] : i \in 1 .. Len(s)} /\ ToSet(s) \subseteq S
  BY DEF ToSet
<1>2. IsFiniteSet(1 .. Len(s)) /\ Cardinality(1 .. Len(s)) = Len(s)
  <2>1. Len(s) \in Nat /\ Len(s) \in Int /\ 1 \in Int
    OBVIOUS
  <2>2. /\ IsFiniteSet(1 .. Len(s))
        /\ Cardinality(1 .. Len(s)) = IF 1 > Len(s) THEN 0 ELSE Len(s) - 1 + 1
    BY <2>1, FS_Interval
  <2> QED BY <2>1, <2>2
<1>3. s \in Surjection(1 .. Len(s), ToSet(s))
  BY <1>1 DEF Surjection
<1> QED BY <1>1, <1>2, <1>3, FS_Surjection

\* Something joins a queue.
LEMMA AppendSets ==
  ASSUME NEW S, NEW s \in Seq(S), NEW x \in S
  PROVE  /\ Append(s, x) \in Seq(S)
         /\ ToSet(Append(s, x)) = ToSet(s) \union {x}
         /\ IsInjective(s) /\ x \notin ToSet(s) => IsInjective(Append(s, x))
<1> DEFINE t == Append(s, x)
<1>1. /\ t \in Seq(S) /\ Len(t) = Len(s) + 1 /\ t[Len(s) + 1] = x
      /\ \A i \in 1 .. Len(s) : t[i] = s[i]
  OBVIOUS
<1>2. DOMAIN t = 1 .. Len(s) + 1 /\ DOMAIN s = 1 .. Len(s)
  BY <1>1
<1> HIDE DEF t
<1>3. \A i \in DOMAIN t : (i \in DOMAIN s /\ t[i] = s[i]) \/ i = Len(s) + 1
  BY <1>1, <1>2
<1>4. \A i \in DOMAIN s : i \in DOMAIN t /\ s[i] = t[i]
  BY <1>1, <1>2
<1>5. Len(s) + 1 \in DOMAIN t /\ t[Len(s) + 1] = x
  BY <1>1, <1>2
<1>6. ToSet(t) = ToSet(s) \union {x}
  BY <1>3, <1>4, <1>5 DEF ToSet
<1>7. ASSUME IsInjective(s), x \notin ToSet(s) PROVE IsInjective(t)
  <2>1. \A i \in DOMAIN s : s[i] # x
    BY <1>7 DEF ToSet
  <2>2. \A i, j \in DOMAIN s : s[i] = s[j] => i = j
    BY <1>7 DEF IsInjective
  <2> QED BY <1>3, <1>5, <2>1, <2>2 DEF IsInjective
<1> QED BY <1>1, <1>6, <1>7 DEF t

-----------------------------------------------------------------------------
(* Types *)

FiniteSets == {S \in SUBSET Nat : IsFiniteSet(S)}
Pickles == [is : {"missing", "torn", "whole"}, queued : Seq(Nat), active : FiniteSets]
Commands == [pc : {"prompt", "save", "copy", "clear"}, queued : Seq(Nat)]
Managers ==
  [pc : {"idle", "load", "remove", "poll", "count", "write", "leave", "done",
         "died loading", "died counting", "died launching"},
   queued : Seq(Nat), active : FiniteSets, complete : SUBSET Nat, todo : SUBSET Int,
   others : Nat, loaded : Nat, took : BOOLEAN]

Types ==
  /\ main \in Pickles /\ tmp \in Pickles /\ own \in [Procs -> Pickles]
  /\ cli \in Commands
  /\ nextJobId \in Nat
  /\ pm \in [Procs -> Managers]
  /\ copyFor \in Nat

LEMMA NothingFinite == {} \in FiniteSets
BY FS_EmptySet DEF FiniteSets

LEMMA EmptyQueue == <<>> \in Seq(Nat) /\ ToSet(<<>>) = {} /\ IsInjective(<<>>)
BY DEF ToSet, IsInjective

LEMMA TypesOfFiles == /\ Missing \in Pickles /\ Torn \in Pickles
                      /\ \A q \in Seq(Nat), a \in FiniteSets : Pickle(q, a) \in Pickles
BY NothingFinite, EmptyQueue DEF Missing, Torn, Pickle, Pickles

LEMMA FilesTyped == Types => \A f \in Files : File(f) \in Pickles
<1> SUFFICES ASSUME Types, NEW f \in Files PROVE File(f) \in Pickles
  OBVIOUS
<1>1. CASE f = -1
  BY <1>1 DEF File, Types
<1>2. CASE f = 0
  BY <1>2 DEF File, Types
<1>3. CASE f \in Procs
  BY <1>3 DEF File, Types, Procs
<1> QED BY <1>1, <1>2, <1>3 DEF Files

New(p) == {Head(pm[p].queued)}

\* A job that fits keeps to the limit.
LEMMA FittingType ==
  ASSUME Types, NEW p \in Procs
  PROVE  /\ IsFiniteSet(pm[p].active) /\ Cardinality(pm[p].active) \in Nat
         /\ Fits(p) => Cardinality(pm[p].active) + 1 <= JobLimit
<1>1. pm[p] \in Managers
  BY DEF Types
<1>2. pm[p].others \in Nat /\ IsFiniteSet(pm[p].active)
  <2>1. pm[p].others \in Nat /\ pm[p].active \in FiniteSets
    BY <1>1 DEF Managers
  <2> QED BY <2>1 DEF FiniteSets
<1>3. Cardinality(pm[p].active) \in Nat
  BY <1>2, FS_CardinalityType
<1>4. JobLimit \in Nat
  BY ProcManAssumption
<1> QED BY <1>2, <1>3, <1>4 DEF Fits, FreeCores

\* What a launch does to a manager's jobs.
LEMMA LaunchSets ==
  ASSUME Types, NEW p \in Procs, Fits(p)
  PROVE  /\ StillQueued(p) \in Seq(Nat)
         /\ ToSet(pm[p].queued) = New(p) \union ToSet(StillQueued(p))
         /\ IsInjective(pm[p].queued) =>
              IsInjective(StillQueued(p)) /\ New(p) \intersect ToSet(StillQueued(p)) = {}
         /\ pm[p].active \union New(p) \in FiniteSets
<1> DEFINE q == pm[p].queued
           s == SubSeq(q, 1, 1)
           t == SubSeq(q, 2, Len(q))
<1>1. q \in Seq(Nat) /\ pm[p].active \in FiniteSets /\ q # <<>>
  BY DEF Types, Managers, Fits
<1>2. Len(q) \in Nat /\ 1 <= Len(q) /\ 1 \in Nat
  BY <1>1
<1>3. Head(q) = q[1] /\ Tail(q) = t /\ t \in Seq(Nat) /\ q[1] \in Nat
  BY <1>1, <1>2
<1>4. ToSet(s) = New(p)
  <2>1. Len(s) = 1 /\ s[1] = q[1] /\ DOMAIN s = {1}
    <3>1. Len(s) = 1 /\ s \in Seq(Nat) /\ \A i \in 1 .. 1 : s[i] = q[i]
      BY <1>1, <1>2, Split
    <3>2. DOMAIN s = 1 .. 1
      BY <3>1
    <3> QED BY <3>1, <3>2
  <2> HIDE DEF s
  <2>2. ToSet(s) = {q[1]}
    BY <2>1 DEF ToSet
  <2> QED BY <1>3, <2>2 DEF New
<1>5. /\ ToSet(q) = ToSet(s) \union ToSet(t)
      /\ IsInjective(q) => IsInjective(t) /\ ToSet(s) \intersect ToSet(t) = {}
  <2>1. /\ ToSet(q) = ToSet(SubSeq(q, 1, 1)) \union ToSet(SubSeq(q, 1 + 1, Len(q)))
        /\ IsInjective(q) => /\ IsInjective(SubSeq(q, 1 + 1, Len(q)))
                             /\ ToSet(SubSeq(q, 1, 1))
                                  \intersect ToSet(SubSeq(q, 1 + 1, Len(q))) = {}
    BY <1>1, <1>2, SplitSets
  <2>2. 1 + 1 = 2
    OBVIOUS
  <2> QED BY <2>1, <2>2
<1>6. pm[p].active \union New(p) \in FiniteSets
  <2>1. IsFiniteSet(New(p)) /\ New(p) \subseteq Nat
    BY <1>3, FS_Singleton DEF New
  <2> QED BY <1>1, <2>1, FS_Union DEF FiniteSets
<1> HIDE DEF s, t
<1> QED BY <1>3, <1>4, <1>5, <1>6 DEF StillQueued

\* The managers keep their type when one of them moves on.
LEMMA ManagerMoves ==
  ASSUME Types, NEW p \in Procs, NEW m \in Managers
  PROVE  [pm EXCEPT ![p] = m] \in [Procs -> Managers]
BY DEF Types

LEMMA ManagerGoesTo ==
  ASSUME Types, NEW p \in Procs,
         NEW c \in {"load", "poll", "write", "leave", "done", "died loading", "died counting"}
  PROVE  [pm EXCEPT ![p].pc = c] \in [Procs -> Managers]
<1>1. pm[p] \in Managers
  BY DEF Types
<1>2. [pm[p] EXCEPT !.pc = c] \in Managers
  BY <1>1 DEF Managers
<1>3. [pm EXCEPT ![p].pc = c] = [pm EXCEPT ![p] = [pm[p] EXCEPT !.pc = c]]
  BY DEF Types
<1> QED BY <1>2, <1>3 DEF Types

LEMMA TypesInit == Init => Types
<1> SUFFICES ASSUME Init PROVE Types
  OBVIOUS
<1>1. Idle \in Managers
  BY NothingFinite, EmptyQueue DEF Idle, Managers
<1>2. main \in Pickles /\ tmp \in Pickles /\ own \in [Procs -> Pickles]
  BY TypesOfFiles DEF Init
<1>3. cli \in Commands
  BY EmptyQueue DEF Init, Commands
<1> QED BY <1>1, <1>2, <1>3 DEF Init, Types

LEMMA TypesNext == Types /\ [Next]_vars => Types'
<1> SUFFICES ASSUME Types, [Next]_vars PROVE Types'
  OBVIOUS
<1> USE TypesOfFiles, EmptyQueue
<1>1. CASE Submit
  <2>1. Append(main.queued, nextJobId) \in Seq(Nat)
    BY DEF Types, Pickles
  <2>2. cli' \in Commands
    BY <1>1, <2>1 DEF Submit, Commands
  <2> QED BY <1>1, <2>2 DEF Submit, Types
<1>2. CASE SaveMain
  <2>1. Pickle(cli.queued, {}) \in Pickles
    BY NothingFinite DEF Types, Commands
  <2>2. cli' \in Commands
    BY <1>2 DEF SaveMain, Commands
  <2> QED BY <1>2, <2>1, <2>2 DEF SaveMain, Types
<1>3. CASE StartCopies
  <2>1. cli' \in Commands
    BY <1>3 DEF StartCopies, Commands, Types, Pickles
  <2> QED BY <1>3, <2>1 DEF StartCopies, Types
<1>4. ASSUME NEW p \in Procs, SpawnProcMan(p) PROVE Types'
  <2>1. Pickle(cli.queued, {}) \in Pickles
    BY NothingFinite DEF Types, Commands
  <2>2. cli' \in Commands
    BY <1>4 DEF SpawnProcMan, Types, Commands
  <2>3. pm' \in [Procs -> Managers]
    BY <1>4, ZenonT(60) DEF SpawnProcMan, Types, Managers
  <2>4. p \in Nat
    BY DEF Procs
  <2> QED BY <1>4, <2>1, <2>2, <2>3, <2>4 DEF SpawnProcMan, Types
<1>5. CASE CopyFails
  <2>1. cli' \in Commands
    BY <1>5 DEF CopyFails, Commands
  <2> QED BY <1>5, <2>1 DEF CopyFails, Types
<1>6. CASE ClearMain
  <2>1. cli' \in Commands
    BY <1>6 DEF ClearMain, Commands
  <2> QED BY <1>6, <2>1 DEF ClearMain, Types
<1>7. ASSUME NEW p \in Procs, Load(p) PROVE Types'
  <2>1. tmp.queued \in Seq(Nat) /\ copyFor \in Nat
    BY DEF Types, Pickles
  <2> DEFINE m == [pm[p] EXCEPT !.pc = "remove", !.queued = tmp.queued, !.loaded = copyFor]
  <2>2. m \in Managers
    BY <2>1, ZenonT(60) DEF Types, Managers
  <2>3. \/ tmp.is = "whole" /\ pm' = [pm EXCEPT ![p] = m]
        \/ pm' = [pm EXCEPT ![p].pc = "died loading"]
    BY <1>7 DEF Load, Dies, Types
  <2> HIDE DEF m
  <2>4. pm' \in [Procs -> Managers]
    <3>1. [pm EXCEPT ![p] = m] \in [Procs -> Managers]
      BY <2>2, ManagerMoves
    <3>2. [pm EXCEPT ![p].pc = "died loading"] \in [Procs -> Managers]
      BY ManagerGoesTo
    <3> QED BY <2>3, <3>1, <3>2
  <2> QED BY <1>7, <2>4 DEF Load, Types
<1>8. ASSUME NEW p \in Procs, RemoveTmp(p) PROVE Types'
  <2> DEFINE m == [pm[p] EXCEPT !.pc = IF pm[p].queued = <<>> THEN "done" ELSE "poll",
                                !.took = (pm[p].loaded = copyFor), !.loaded = 0]
  <2>2. m \in Managers
    BY ZenonT(60) DEF Types, Managers
  <2>3. \/ pm' = [pm EXCEPT ![p] = m]
        \/ pm' = [pm EXCEPT ![p].pc = "died loading"]
    BY <1>8 DEF RemoveTmp, Dies, Types
  <2> HIDE DEF m
  <2>1. pm' \in [Procs -> Managers]
    <3>1. [pm EXCEPT ![p] = m] \in [Procs -> Managers]
      BY <2>2, ManagerMoves
    <3>2. [pm EXCEPT ![p].pc = "died loading"] \in [Procs -> Managers]
      BY ManagerGoesTo
    <3> QED BY <2>3, <3>1, <3>2
  <2> QED BY <1>8, <2>1 DEF RemoveTmp, Types
<1>9. ASSUME NEW p \in Procs, Poll(p) PROVE Types'
  <2>1. pm[p].active \in FiniteSets /\ pm[p].complete \in SUBSET Nat
    BY DEF Types, Managers
  <2>2. StillActive(p) \in FiniteSets
    BY <2>1, FS_Subset DEF FiniteSets, StillActive, Alive
  <2>3. pm[p].complete \union (pm[p].active \ Alive(p)) \in SUBSET Nat
    BY <2>1 DEF FiniteSets
  <2>4. OthersFiles(p) \in SUBSET Int
    BY DEF OthersFiles, Files, Procs
  <2> DEFINE still == StillActive(p)
             ended == pm[p].complete \union (pm[p].active \ Alive(p))
             files == OthersFiles(p)
             m == [pm[p] EXCEPT !.pc = "count", !.active = still, !.complete = ended,
                                !.todo = files, !.others = 0]
  <2>5. pm' = [pm EXCEPT ![p] = m]
    BY <1>9 DEF Poll, Types
  <2>6. pm' \in [Procs -> Managers]
    <3>1. still \in FiniteSets /\ ended \in SUBSET Nat /\ files \in SUBSET Int /\ pm[p] \in Managers
      BY <2>2, <2>3, <2>4 DEF Types
    <3> HIDE DEF still, ended, files
    <3>2. m \in Managers
      BY <3>1 DEF Managers
    <3> HIDE DEF m
    <3> QED BY <2>5, <3>2, ManagerMoves
  <2> QED BY <1>9, <2>6 DEF Poll, Types
<1>10. ASSUME NEW p \in Procs, NEW f \in Files, CountOthers(p, f) PROVE Types'
  <2>1. File(f).active \in FiniteSets
    BY FilesTyped DEF Pickles
  <2>2. Cardinality(File(f).active) \in Nat
    BY <2>1, FS_CardinalityType DEF FiniteSets
  <2> DEFINE left == pm[p].todo \ {f}
             sum == pm[p].others + Cardinality(File(f).active)
             m == [pm[p] EXCEPT !.todo = left, !.others = sum]
  <2>4. left \in SUBSET Int /\ sum \in Nat
    <3>1. pm[p] \in Managers
      BY DEF Types
    <3>2. pm[p].todo \in SUBSET Int /\ pm[p].others \in Nat
      BY <3>1 DEF Managers
    <3> QED BY <2>2, <3>2
  <2>5. \/ pm' = [pm EXCEPT ![p] = m]
        \/ pm' = [pm EXCEPT ![p].pc = "died counting"]
    BY <1>10 DEF CountOthers, Dies, Types
  <2> HIDE DEF left, sum
  <2>6. m \in Managers
    BY <2>4, ZenonT(60) DEF Types, Managers
  <2> HIDE DEF m
  <2>3. pm' \in [Procs -> Managers]
    <3>1. [pm EXCEPT ![p] = m] \in [Procs -> Managers]
      BY <2>6, ManagerMoves
    <3>2. [pm EXCEPT ![p].pc = "died counting"] \in [Procs -> Managers]
      BY ManagerGoesTo
    <3> QED BY <2>5, <3>1, <3>2
  <2> QED BY <1>10, <2>3 DEF CountOthers, Types
<1>11. ASSUME NEW p \in Procs, Launch(p) PROVE Types'
  <2> DEFINE rest == StillQueued(p)
             more == pm[p].active \union New(p)
             m == [pm[p] EXCEPT !.queued = rest, !.active = more]
  <2>1. rest \in Seq(Nat) /\ more \in FiniteSets /\ pm[p] \in Managers
    BY <1>11, LaunchSets DEF Launch, Types
  <2>2. pm' = [pm EXCEPT ![p] = m]
    BY <1>11 DEF Launch, Types, New
  <2> HIDE DEF rest, more
  <2>3. m \in Managers
    BY <2>1 DEF Managers
  <2> HIDE DEF m
  <2>4. pm' \in [Procs -> Managers]
    BY <2>2, <2>3, ManagerMoves
  <2> QED BY <1>11, <2>4 DEF Launch, Types
<1>16. ASSUME NEW p \in Procs, LaunchFails(p) PROVE Types'
  <2> DEFINE rest == StillQueued(p)
             m == [pm[p] EXCEPT !.pc = "died launching", !.queued = rest]
  <2>1. rest \in Seq(Nat) /\ pm[p] \in Managers
    BY <1>16, LaunchSets DEF LaunchFails, Types
  <2>2. pm' = [pm EXCEPT ![p] = m]
    BY <1>16 DEF LaunchFails, Types
  <2> HIDE DEF rest
  <2>3. m \in Managers
    BY <2>1 DEF Managers
  <2> HIDE DEF m
  <2>4. pm' \in [Procs -> Managers]
    BY <2>2, <2>3, ManagerMoves
  <2> QED BY <1>16, <2>4 DEF LaunchFails, Types
<1>17. ASSUME NEW p \in Procs, TruncateState(p) PROVE Types'
  <2>1. pm' \in [Procs -> Managers]
    BY <1>17, ManagerGoesTo DEF TruncateState
  <2>2. own' \in [Procs -> Pickles]
    BY <1>17 DEF TruncateState, Types
  <2> QED BY <1>17, <2>1, <2>2 DEF TruncateState, Types
<1>12. ASSUME NEW p \in Procs, WriteState(p) PROVE Types'
  <2>1. Saved(p) \in Pickles
    BY DEF Saved, Types, Managers
  <2>2. pm' \in [Procs -> Managers]
    BY <1>12, ManagerGoesTo DEF WriteState
  <2> QED BY <1>12, <2>1, <2>2 DEF WriteState, Types
<1>13. ASSUME NEW p \in Procs, RemoveState(p) PROVE Types'
  <2>1. pm' \in [Procs -> Managers]
    BY <1>13, ZenonT(60) DEF RemoveState, Types, Managers
  <2> QED BY <1>13, <2>1 DEF RemoveState, Types
<1>14. ASSUME NEW p \in Procs, NEW j \in Jobs, JobEnds(p, j) PROVE Types'
  BY <1>14 DEF JobEnds, Types
<1>15. CASE UNCHANGED vars
  BY <1>15 DEF vars, Types
<1> QED BY <1>1, <1>2, <1>3, <1>4, <1>5, <1>6, <1>7, <1>8, <1>9, <1>10, <1>11, <1>12,
           <1>13, <1>14, <1>15, <1>16, <1>17 DEF Next, Command, Manager

\* Files, queues and managers keep their types.
THEOREM TypesCorrect == Spec => []Types
<1> QED BY TypesInit, TypesNext, PTL DEF Spec
-----------------------------------------------------------------------------
(* What each step does to the managers *)

\* The other managers stay where they are.
OthersStay(p) == \A q \in Procs : q # p => pm'[q] = pm[q]

\* What has come of the job queue and the jobs of p.
SameJobs(p) == /\ pm'[p].queued = pm[p].queued
               /\ pm'[p].active = pm[p].active /\ pm'[p].complete = pm[p].complete
SameHandOver(p) == pm'[p].loaded = pm[p].loaded /\ pm'[p].took = pm[p].took

\* A manager is started.
LEMMA SpawnMoves ==
  ASSUME Types, NEW p \in Procs, SpawnProcMan(p)
  PROVE  OthersStay(p) /\ SameJobs(p) /\ SameHandOver(p) /\ pm'[p].pc = "load"
<1> DEFINE m == [pm[p] EXCEPT !.pc = "load"]
<1>1. pm[p] \in Managers /\ p \in DOMAIN pm /\ Procs = DOMAIN pm
  BY DEF Types
<1>2. pm' = [pm EXCEPT ![p] = m]
  BY <1>1 DEF SpawnProcMan
<1>3. /\ m.pc = "load" /\ m.queued = pm[p].queued /\ m.active = pm[p].active
      /\ m.complete = pm[p].complete /\ m.loaded = pm[p].loaded /\ m.took = pm[p].took
  BY <1>1 DEF Managers
<1> HIDE DEF m
<1>4. pm'[p] = m /\ OthersStay(p)
  BY <1>1, <1>2 DEF OthersStay
<1> QED BY <1>3, <1>4 DEF SameJobs, SameHandOver

\* A manager reads the hand-over file, or dies of what it finds there.
LEMMA LoadMoves ==
  ASSUME Types, NEW p \in Procs, Load(p)
  PROVE  OthersStay(p) /\ 
         /\ pm'[p].active = pm[p].active /\ pm'[p].complete = pm[p].complete
         /\ pm'[p].took = pm[p].took
         /\ \/ /\ tmp.is = "whole" /\ pm'[p].pc = "remove"
               /\ pm'[p].queued = tmp.queued /\ pm'[p].loaded = copyFor
            \/ /\ pm'[p].pc = "died loading"
               /\ pm'[p].queued = pm[p].queued /\ pm'[p].loaded = pm[p].loaded
<1> DEFINE m == [pm[p] EXCEPT !.pc = "remove", !.queued = tmp.queued, !.loaded = copyFor]
           d == [pm[p] EXCEPT !.pc = "died loading"]
<1>1. pm[p] \in Managers /\ p \in DOMAIN pm /\ Procs = DOMAIN pm
  BY DEF Types
<1>2. \/ tmp.is = "whole" /\ pm' = [pm EXCEPT ![p] = m]
      \/ TRUE /\ pm' = [pm EXCEPT ![p] = d]
  BY <1>1 DEF Load, Dies
<1>3. /\ m.pc = "remove" /\ m.queued = tmp.queued /\ m.active = pm[p].active
      /\ m.complete = pm[p].complete /\ m.loaded = copyFor /\ m.took = pm[p].took
  BY <1>1 DEF Managers
<1>4. /\ d.pc = "died loading" /\ d.queued = pm[p].queued /\ d.active = pm[p].active
      /\ d.complete = pm[p].complete /\ d.loaded = pm[p].loaded /\ d.took = pm[p].took
  BY <1>1 DEF Managers
<1> HIDE DEF m, d
<1>5. ((tmp.is = "whole" /\ pm'[p] = m) \/ pm'[p] = d) /\ OthersStay(p)
  BY <1>1, <1>2 DEF OthersStay
<1> QED BY <1>3, <1>4, <1>5

\* A manager removes the hand-over file, or dies of its absence.
LEMMA RemoveMoves ==
  ASSUME Types, NEW p \in Procs, RemoveTmp(p)
  PROVE  OthersStay(p) /\ SameJobs(p)
         /\ \/ /\ tmp.is # "missing" /\ pm'[p].pc \in {"done", "poll"}
               /\ pm'[p].took = (pm[p].loaded = copyFor) /\ pm'[p].loaded = 0
            \/ pm'[p].pc = "died loading" /\ SameHandOver(p)
<1> DEFINE m == [pm[p] EXCEPT !.pc = IF pm[p].queued = <<>> THEN "done" ELSE "poll",
                           !.took = (pm[p].loaded = copyFor), !.loaded = 0]
           d == [pm[p] EXCEPT !.pc = "died loading"]
<1>1. pm[p] \in Managers /\ p \in DOMAIN pm /\ Procs = DOMAIN pm
  BY DEF Types
<1>2. \/ tmp.is # "missing" /\ pm' = [pm EXCEPT ![p] = m]
      \/ TRUE /\ pm' = [pm EXCEPT ![p] = d]
  BY <1>1 DEF RemoveTmp, Dies
<1>3. /\ m.pc \in {"done", "poll"} /\ m.queued = pm[p].queued /\ m.active = pm[p].active
      /\ m.complete = pm[p].complete /\ m.loaded = 0 /\ m.took = (pm[p].loaded = copyFor)
  BY <1>1 DEF Managers
<1>4. /\ d.pc = "died loading" /\ d.queued = pm[p].queued /\ d.active = pm[p].active
      /\ d.complete = pm[p].complete /\ d.loaded = pm[p].loaded /\ d.took = pm[p].took
  BY <1>1 DEF Managers
<1> HIDE DEF m, d
<1>5. ((tmp.is # "missing" /\ pm'[p] = m) \/ pm'[p] = d) /\ OthersStay(p)
  BY <1>1, <1>2 DEF OthersStay
<1> QED BY <1>3, <1>4, <1>5 DEF SameJobs, SameHandOver

\* A manager moves the jobs that ended.
LEMMA PollMoves ==
  ASSUME Types, NEW p \in Procs, Poll(p)
  PROVE  OthersStay(p) /\ SameHandOver(p) /\ pm'[p].pc = "count"
         /\ pm'[p].queued = pm[p].queued /\ pm'[p].active = Alive(p)
         /\ pm'[p].complete = pm[p].complete \union (pm[p].active \ Alive(p))
<1> DEFINE m == [pm[p] EXCEPT !.pc = "count", !.active = StillActive(p),
                           !.complete = pm[p].complete \union (pm[p].active \ Alive(p)),
                           !.todo = OthersFiles(p), !.others = 0]
<1>1. pm[p] \in Managers /\ p \in DOMAIN pm /\ Procs = DOMAIN pm
  BY DEF Types
<1>2. pm' = [pm EXCEPT ![p] = m]
  BY <1>1 DEF Poll
<1>3. /\ m.pc = "count" /\ m.queued = pm[p].queued /\ m.active = Alive(p)
      /\ m.complete = pm[p].complete \union (pm[p].active \ Alive(p))
      /\ m.loaded = pm[p].loaded /\ m.took = pm[p].took
  BY <1>1 DEF Managers, StillActive
<1> HIDE DEF m
<1>4. pm'[p] = m /\ OthersStay(p)
  BY <1>1, <1>2 DEF OthersStay
<1> QED BY <1>3, <1>4 DEF SameHandOver

\* A manager counts the jobs of one other, or dies of what it finds.
LEMMA CountMoves ==
  ASSUME Types, NEW p \in Procs, NEW f \in Files, CountOthers(p, f)
  PROVE  OthersStay(p) /\ SameJobs(p) /\ SameHandOver(p)
         /\ pm'[p].pc \in {"count", "died counting"}
<1> DEFINE m == [pm[p] EXCEPT !.todo = pm[p].todo \ {f},
                           !.others = pm[p].others + Cardinality(File(f).active)]
           d == [pm[p] EXCEPT !.pc = "died counting"]
<1>1. pm[p] \in Managers /\ p \in DOMAIN pm /\ Procs = DOMAIN pm
  BY DEF Types
<1>2. \/ TRUE /\ pm' = [pm EXCEPT ![p] = m]
      \/ TRUE /\ pm' = [pm EXCEPT ![p] = d]
  BY <1>1 DEF CountOthers, Dies
<1>3. /\ m.pc = pm[p].pc /\ m.queued = pm[p].queued /\ m.active = pm[p].active
      /\ m.complete = pm[p].complete /\ m.loaded = pm[p].loaded /\ m.took = pm[p].took
  BY <1>1 DEF Managers
<1>4. /\ d.pc = "died counting" /\ d.queued = pm[p].queued /\ d.active = pm[p].active
      /\ d.complete = pm[p].complete /\ d.loaded = pm[p].loaded /\ d.took = pm[p].took
  BY <1>1 DEF Managers
<1>5. pm[p].pc = "count"
  BY DEF CountOthers
<1> HIDE DEF m, d
<1>6. (pm'[p] = m \/ pm'[p] = d) /\ OthersStay(p)
  BY <1>1, <1>2 DEF OthersStay
<1> QED BY <1>3, <1>4, <1>5, <1>6 DEF SameJobs, SameHandOver

\* A manager launches a job.
LEMMA LaunchMoves ==
  ASSUME Types, NEW p \in Procs, Launch(p)
  PROVE  OthersStay(p) /\ SameHandOver(p) /\ pm'[p].pc = "count"
         /\ pm'[p].queued = StillQueued(p) /\ pm'[p].active = pm[p].active \union New(p)
         /\ pm'[p].complete = pm[p].complete
<1> DEFINE m == [pm[p] EXCEPT !.queued = StillQueued(p),
                           !.active = pm[p].active \union New(p)]
<1>1. pm[p] \in Managers /\ p \in DOMAIN pm /\ Procs = DOMAIN pm
  BY DEF Types
<1>2. pm' = [pm EXCEPT ![p] = m]
  BY <1>1 DEF Launch, New
<1>3. /\ m.pc = pm[p].pc /\ m.queued = StillQueued(p) /\ m.active = pm[p].active \union New(p)
      /\ m.complete = pm[p].complete /\ m.loaded = pm[p].loaded /\ m.took = pm[p].took
  BY <1>1 DEF Managers
<1>4. pm[p].pc = "count"
  BY DEF Launch, Counted
<1> HIDE DEF m
<1>5. pm'[p] = m /\ OthersStay(p)
  BY <1>1, <1>2 DEF OthersStay
<1> QED BY <1>3, <1>4, <1>5 DEF SameHandOver

\* A manager dies of a launch.
LEMMA FailMoves ==
  ASSUME Types, NEW p \in Procs, LaunchFails(p)
  PROVE  OthersStay(p) /\ SameHandOver(p) /\ pm'[p].pc = "died launching"
         /\ pm'[p].queued = StillQueued(p) /\ pm'[p].active = pm[p].active
         /\ pm'[p].complete = pm[p].complete
<1> DEFINE m == [pm[p] EXCEPT !.pc = "died launching", !.queued = StillQueued(p)]
<1>1. pm[p] \in Managers /\ p \in DOMAIN pm /\ Procs = DOMAIN pm
  BY DEF Types
<1>2. pm' = [pm EXCEPT ![p] = m]
  BY <1>1 DEF LaunchFails
<1>3. /\ m.pc = "died launching" /\ m.queued = StillQueued(p) /\ m.active = pm[p].active
      /\ m.complete = pm[p].complete /\ m.loaded = pm[p].loaded /\ m.took = pm[p].took
  BY <1>1 DEF Managers
<1> HIDE DEF m
<1>4. pm'[p] = m /\ OthersStay(p)
  BY <1>1, <1>2 DEF OthersStay
<1> QED BY <1>3, <1>4 DEF SameHandOver

\* A manager has opened its file.
LEMMA TruncateMoves ==
  ASSUME Types, NEW p \in Procs, TruncateState(p)
  PROVE  OthersStay(p) /\ SameJobs(p) /\ SameHandOver(p) /\ pm'[p].pc = "write"
<1> DEFINE m == [pm[p] EXCEPT !.pc = "write"]
<1>1. pm[p] \in Managers /\ p \in DOMAIN pm /\ Procs = DOMAIN pm
  BY DEF Types
<1>2. pm' = [pm EXCEPT ![p] = m]
  BY <1>1 DEF TruncateState
<1>3. /\ m.pc = "write" /\ m.queued = pm[p].queued /\ m.active = pm[p].active
      /\ m.complete = pm[p].complete /\ m.loaded = pm[p].loaded /\ m.took = pm[p].took
  BY <1>1 DEF Managers
<1> HIDE DEF m
<1>4. pm'[p] = m /\ OthersStay(p)
  BY <1>1, <1>2 DEF OthersStay
<1> QED BY <1>3, <1>4 DEF SameJobs, SameHandOver

\* A manager has saved its state.
LEMMA WriteMoves ==
  ASSUME Types, NEW p \in Procs, WriteState(p)
  PROVE  OthersStay(p) /\ SameJobs(p) /\ SameHandOver(p) /\ pm'[p].pc \in {"leave", "poll"}
<1> DEFINE m == [pm[p] EXCEPT !.pc = IF Complete(p) THEN "leave" ELSE "poll"]
<1>1. pm[p] \in Managers /\ p \in DOMAIN pm /\ Procs = DOMAIN pm
  BY DEF Types
<1>2. pm' = [pm EXCEPT ![p] = m]
  BY <1>1 DEF WriteState
<1>3. /\ m.pc \in {"leave", "poll"} /\ m.queued = pm[p].queued /\ m.active = pm[p].active
      /\ m.complete = pm[p].complete /\ m.loaded = pm[p].loaded /\ m.took = pm[p].took
  BY <1>1 DEF Managers
<1> HIDE DEF m
<1>4. pm'[p] = m /\ OthersStay(p)
  BY <1>1, <1>2 DEF OthersStay
<1> QED BY <1>3, <1>4 DEF SameJobs, SameHandOver

\* A manager is done.
LEMMA LeaveMoves ==
  ASSUME Types, NEW p \in Procs, RemoveState(p)
  PROVE  OthersStay(p) /\ SameJobs(p) /\ SameHandOver(p) /\ pm'[p].pc = "done"
<1> DEFINE m == [pm[p] EXCEPT !.pc = "done"]
<1>1. pm[p] \in Managers /\ p \in DOMAIN pm /\ Procs = DOMAIN pm
  BY DEF Types
<1>2. pm' = [pm EXCEPT ![p] = m]
  BY <1>1 DEF RemoveState
<1>3. /\ m.pc = "done" /\ m.queued = pm[p].queued /\ m.active = pm[p].active
      /\ m.complete = pm[p].complete /\ m.loaded = pm[p].loaded /\ m.took = pm[p].took
  BY <1>1 DEF Managers
<1> HIDE DEF m
<1>4. pm'[p] = m /\ OthersStay(p)
  BY <1>1, <1>2 DEF OthersStay
<1> QED BY <1>3, <1>4 DEF SameJobs, SameHandOver

\* Where a manager is from the poll on until it has saved what it did, or died.
Busy == {"count", "write", "died counting", "died launching"}
FileAsBefore(p) == own'[p] = own[p]
NoneNew(p) == pm'[p].active = pm[p].active

\* Every step, seen from one manager: its file and the jobs it runs.
LEMMA FileSteps ==
  ASSUME Types, [Next]_vars, NEW p \in Procs
  PROVE  \/ FileAsBefore(p) /\ NoneNew(p) /\ (pm'[p].pc \in Busy \/ pm[p].pc \notin Busy)
         \/ FileAsBefore(p) /\ pm'[p].active = Alive(p) /\ pm'[p].pc \in Busy
         \/ FileAsBefore(p) /\ Fits(p) /\ pm'[p].active = pm[p].active \union New(p)
              /\ pm'[p].pc \in Busy
         \/ own'[p] = Torn /\ NoneNew(p)
         \/ own'[p] = Saved(p) /\ NoneNew(p)
         \/ own'[p] = Missing /\ NoneNew(p)
<1> DEFINE Kept == FileAsBefore(p) /\ NoneNew(p) /\ (pm'[p].pc \in Busy \/ pm[p].pc \notin Busy)
           Goal == \/ Kept
                   \/ FileAsBefore(p) /\ pm'[p].active = Alive(p) /\ pm'[p].pc \in Busy
                   \/ FileAsBefore(p) /\ Fits(p) /\ pm'[p].active = pm[p].active \union New(p)
                        /\ pm'[p].pc \in Busy
                   \/ own'[p] = Torn /\ NoneNew(p)
                   \/ own'[p] = Saved(p) /\ NoneNew(p)
                   \/ own'[p] = Missing /\ NoneNew(p)
<1> SUFFICES Goal
  OBVIOUS
<1>0. Procs = DOMAIN own
  BY DEF Types
<1>a. ASSUME pm'[p] = pm[p], own'[p] = own[p] PROVE Kept
  BY <1>a DEF FileAsBefore, NoneNew
<1>1. CASE Submit \/ SaveMain \/ StartCopies \/ CopyFails \/ ClearMain
  BY <1>1, <1>a DEF Submit, SaveMain, StartCopies, CopyFails, ClearMain
<1>2. ASSUME NEW q \in Procs, SpawnProcMan(q) PROVE Goal
  <2>1. own' = own /\ pm[q].pc \notin Busy
    BY <1>2 DEF SpawnProcMan, NextProc, Busy
  <2> QED BY <1>2, <2>1, <1>a, SpawnMoves DEF OthersStay, SameJobs, FileAsBefore, NoneNew
<1>3. ASSUME NEW q \in Procs, Load(q) PROVE Goal
  <2>1. own' = own /\ pm[q].pc \notin Busy
    BY <1>3 DEF Load, Busy
  <2> QED BY <1>3, <2>1, <1>a, LoadMoves DEF OthersStay, FileAsBefore, NoneNew
<1>4. ASSUME NEW q \in Procs, RemoveTmp(q) PROVE Goal
  <2>1. own' = own /\ pm[q].pc \notin Busy
    BY <1>4 DEF RemoveTmp, Busy
  <2> QED BY <1>4, <2>1, <1>a, RemoveMoves DEF OthersStay, SameJobs, FileAsBefore, NoneNew
<1>5. ASSUME NEW q \in Procs, Poll(q) PROVE Goal
  <2>1. own' = own /\ "count" \in Busy
    BY <1>5 DEF Poll, Busy
  <2> QED BY <1>5, <2>1, <1>a, PollMoves DEF OthersStay, FileAsBefore
<1>6. ASSUME NEW q \in Procs, NEW f \in Files, CountOthers(q, f) PROVE Goal
  <2>1. own' = own /\ {"count", "died counting"} \subseteq Busy
    BY <1>6 DEF CountOthers, Busy
  <2> QED BY <1>6, <2>1, <1>a, CountMoves DEF OthersStay, SameJobs, FileAsBefore, NoneNew
<1>7. ASSUME NEW q \in Procs, Launch(q) PROVE Goal
  <2>1. own' = own /\ "count" \in Busy /\ Fits(q)
    BY <1>7 DEF Launch, Busy
  <2> QED BY <1>7, <2>1, <1>a, LaunchMoves DEF OthersStay, FileAsBefore
<1>12. ASSUME NEW q \in Procs, LaunchFails(q) PROVE Goal
  <2>1. own' = own /\ "died launching" \in Busy
    BY <1>12 DEF LaunchFails, Busy
  <2> QED BY <1>12, <2>1, <1>a, FailMoves DEF OthersStay, FileAsBefore, NoneNew
<1>13. ASSUME NEW q \in Procs, TruncateState(q) PROVE Goal
  <2>1. own' = [own EXCEPT ![q] = Torn]
    BY <1>13 DEF TruncateState
  <2> QED BY <1>0, <1>13, <2>1, <1>a, TruncateMoves DEF OthersStay, SameJobs, NoneNew
<1>8. ASSUME NEW q \in Procs, WriteState(q) PROVE Goal
  <2>1. own' = [own EXCEPT ![q] = Saved(q)]
    BY <1>8 DEF WriteState
  <2> QED BY <1>0, <1>8, <2>1, <1>a, WriteMoves DEF OthersStay, SameJobs, NoneNew
<1>9. ASSUME NEW q \in Procs, RemoveState(q) PROVE Goal
  <2>1. own' = [own EXCEPT ![q] = Missing]
    BY <1>9 DEF RemoveState
  <2> QED BY <1>0, <1>9, <2>1, <1>a, LeaveMoves DEF OthersStay, SameJobs, NoneNew
<1>10. ASSUME NEW q \in Procs, NEW j \in Jobs, JobEnds(q, j) PROVE Goal
  BY <1>10, <1>a DEF JobEnds
<1>11. CASE UNCHANGED vars
  BY <1>11, <1>a DEF vars
<1> QED BY <1>1, <1>2, <1>3, <1>4, <1>5, <1>6, <1>7, <1>8, <1>9, <1>10, <1>11, <1>12, <1>13
           DEF Next, Command, Manager

-----------------------------------------------------------------------------
(* The limit, and what the files say *)

\* The jobs a manager runs at a time keep to the limit, whatever it believes of
\* the others (tick, procman.py 251).
THEOREM LimitKept == Spec => []OwnLimit
<1>1. Init => OwnLimit
  <2> SUFFICES ASSUME Init, NEW p \in Procs PROVE Cardinality(pm[p].active) <= JobLimit
    BY DEF OwnLimit
  <2>1. pm[p].active = {} /\ JobLimit \in Nat
    BY ProcManAssumption DEF Init, Idle
  <2> QED BY <2>1, FS_EmptySet
<1>2. Types /\ OwnLimit /\ [Next]_vars => OwnLimit'
  <2> SUFFICES ASSUME Types, OwnLimit, [Next]_vars, NEW p \in Procs
               PROVE  Cardinality(pm'[p].active) <= JobLimit
    BY DEF OwnLimit
  <2>1. IsFiniteSet(pm[p].active) /\ Cardinality(pm[p].active) \in Nat /\ JobLimit \in Nat
    BY FittingType, ProcManAssumption DEF Types, Managers, FiniteSets
  <2>2. Cardinality(pm[p].active) <= JobLimit
    BY DEF OwnLimit
  <2>3. Alive(p) \subseteq pm[p].active
    BY DEF Alive
  <2>4. Cardinality(Alive(p)) <= JobLimit
    <3>1. IsFiniteSet(Alive(p)) /\ Cardinality(Alive(p)) <= Cardinality(pm[p].active)
      BY <2>1, <2>3, FS_Subset
    <3>2. Cardinality(Alive(p)) \in Nat
      BY <3>1, FS_CardinalityType
    <3> QED BY <2>1, <2>2, <3>1, <3>2
  <2>5. Fits(p) => Cardinality(pm[p].active \union New(p)) <= JobLimit
    <3>1. Cardinality(pm[p].active \union New(p)) <= Cardinality(pm[p].active) + 1
      <4>1. /\ pm[p].active \union New(p) = pm[p].active \union {Head(pm[p].queued)}
        BY DEF New
      <4>2. Cardinality(pm[p].active \union {Head(pm[p].queued)})
              = IF Head(pm[p].queued) \in pm[p].active THEN Cardinality(pm[p].active)
                                                      ELSE Cardinality(pm[p].active) + 1
        BY <2>1, FS_AddElement
      <4> QED BY <2>1, <4>1, <4>2
    <3>2. Fits(p) => Cardinality(pm[p].active) + 1 <= JobLimit
      BY FittingType
    <3>3. Cardinality(pm[p].active \union New(p)) \in Nat
      <4>1. IsFiniteSet(pm[p].active \union New(p))
        BY <2>1, FS_AddElement DEF New
      <4> QED BY <4>1, FS_CardinalityType
    <3> QED BY <2>1, <3>1, <3>2, <3>3
  <2> QED BY <2>2, <2>4, <2>5, FileSteps DEF NoneNew
<1> QED BY <1>1, <1>2, TypesCorrect, PTL DEF Spec

\* A whole file of a manager names all that the manager takes to be active,
\* except while it is busy: it may have launched more since.
Published == \A p \in Procs : own[p].is = "whole" /\ pm[p].pc \notin Busy =>
                               pm[p].active \subseteq own[p].active

\* What a sleeping manager still runs is in the file the others count from
\* (procman.py 593).
THEOREM SleepersCorrect == Spec => []SleepersPublished
<1>1. Init => Published
  BY DEF Init, Published, Missing
<1>2. Types /\ Published /\ [Next]_vars => Published'
  <2> SUFFICES ASSUME Types, Published, [Next]_vars, NEW p \in Procs,
                      own'[p].is = "whole", pm'[p].pc \notin Busy
               PROVE  pm'[p].active \subseteq own'[p].active
    BY DEF Published, Busy
  <2>1. own[p].is = "whole" /\ pm[p].pc \notin Busy => pm[p].active \subseteq own[p].active
    BY DEF Published
  <2>2. Torn.is # "whole" /\ Missing.is # "whole" /\ Saved(p).active = pm[p].active
    BY DEF Torn, Missing, Saved, Pickle
  <2> QED BY <2>1, <2>2, FileSteps DEF FileAsBefore, NoneNew
<1>3. Published => SleepersPublished
  BY DEF Published, SleepersPublished, Alive, Busy
<1> QED BY <1>1, <1>2, <1>3, TypesCorrect, PTL DEF Spec

-----------------------------------------------------------------------------
(* No job twice *)

Given(p) == ToSet(pm[p].queued) \union Launched(p)
Fresh(q) == \A j \in ToSet(q) : j < nextJobId
NotTaken(q) == \A p \in Procs : pm[p].took => ToSet(q) \intersect Given(p) = {}

\* Queues are without repetitions, of numbers given out.
QueuesInv ==
  /\ IsInjective(main.queued) /\ IsInjective(cli.queued) /\ IsInjective(tmp.queued)
  /\ Fresh(main.queued) /\ Fresh(cli.queued) /\ Fresh(tmp.queued)
  /\ \A p \in Procs : \A j \in Given(p) : j < nextJobId

\* A manager's own jobs, and what it has before it removed the hand-over file.
OwnInv ==
  \A p \in Procs :
    /\ IsInjective(pm[p].queued) /\ ToSet(pm[p].queued) \intersect Launched(p) = {}
    /\ pm[p].pc \in {"idle", "load", "remove"} => Launched(p) = {} /\ ~ pm[p].took
    /\ pm[p].pc = "remove" => pm[p].loaded # 0
    /\ pm[p].loaded # 0 => pm[p].loaded \in Procs /\ pm[pm[p].loaded].pc # "idle"

\* What the hand-over file holds: nothing any manager has taken over, and what
\* those have that have loaded it.
TmpInv ==
  /\ tmp.is = "torn" => copyFor = 0
  /\ tmp.is = "whole" =>
       /\ copyFor \in Procs /\ pm[copyFor].pc # "idle"
       /\ NotTaken(tmp.queued)
       /\ \A p \in Procs : pm[p].pc = "remove" /\ pm[p].loaded = copyFor =>
                             pm[p].queued = tmp.queued

\* What the user's command and the state file hold, except while the command
\* still has to clear what it has just handed over.
CliInv ==
  /\ cli.pc \in {"prompt", "copy"} => NotTaken(main.queued)
  /\ cli.pc \in {"save", "copy"} => NotTaken(cli.queued)
  /\ cli.pc = "copy" => tmp.is # "whole"
  /\ tmp.is = "whole" /\ cli.pc = "prompt" => ToSet(main.queued) \intersect ToSet(tmp.queued) = {}
  /\ tmp.is = "whole" /\ cli.pc = "save" => ToSet(cli.queued) \intersect ToSet(tmp.queued) = {}

ApartInv ==
  \A p, q \in Procs : p # q /\ pm[p].took /\ pm[q].took => Given(p) \intersect Given(q) = {}

OnceInv == QueuesInv /\ OwnInv /\ TmpInv /\ CliInv /\ ApartInv

LEMMA OnceInit == Init => OnceInv
<1> SUFFICES ASSUME Init PROVE OnceInv
  OBVIOUS
<1> USE EmptyQueue
<1>1. \A p \in Procs : pm[p] = Idle
  BY DEF Init
<1>2. \A p \in Procs : Given(p) = {} /\ Launched(p) = {}
  BY <1>1 DEF Given, Launched, Idle
<1>3. main.queued = <<>> /\ tmp.queued = <<>> /\ cli.queued = <<>> /\ tmp.is = "missing"
  BY DEF Init, Missing
<1>4. QueuesInv
  BY <1>2, <1>3 DEF QueuesInv, Fresh
<1>5. OwnInv
  BY <1>1, <1>2 DEF OwnInv, Idle
<1>6. TmpInv /\ CliInv
  BY <1>3 DEF TmpInv, CliInv, NotTaken, Init
<1>7. ApartInv
  BY <1>2 DEF ApartInv
<1> QED BY <1>4, <1>5, <1>6, <1>7 DEF OnceInv

\* The steps of a manager that has its queue: jobs move on, none comes in.
Ticking(p) ==
  /\ OthersStay(p) /\ SameHandOver(p)
  /\ pm[p].pc \notin {"idle", "load", "remove"}
  /\ pm'[p].pc \notin {"idle", "load", "remove"}
  /\ Given(p)' \subseteq Given(p)
  /\ IsInjective(pm[p].queued) /\ ToSet(pm[p].queued) \intersect Launched(p) = {}
       => IsInjective(pm'[p].queued) /\ ToSet(pm'[p].queued) \intersect Launched(p)' = {}
  /\ UNCHANGED <<main, tmp, cli, nextJobId, copyFor>>

LEMMA TicksMove ==
  ASSUME Types, NEW p \in Procs,
         Poll(p) \/ (\E f \in Files : CountOthers(p, f)) \/ Launch(p) \/ LaunchFails(p)
           \/ TruncateState(p) \/ WriteState(p) \/ RemoveState(p)
  PROVE  Ticking(p)
<1>1. CASE Poll(p)
  <2>1. Launched(p)' = Launched(p)
    BY <1>1, PollMoves DEF Launched, Alive
  <2> QED BY <1>1, <2>1, PollMoves DEF Ticking, Given, Poll
<1>2. ASSUME NEW f \in Files, CountOthers(p, f) PROVE Ticking(p)
  <2>1. Given(p)' = Given(p) /\ Launched(p)' = Launched(p)
    BY <1>2, CountMoves DEF Given, Launched, SameJobs
  <2> QED BY <1>2, <2>1, CountMoves DEF Ticking, CountOthers, SameJobs
<1>3. CASE Launch(p)
  <2>1. /\ pm'[p].queued = StillQueued(p)
        /\ Launched(p)' = Launched(p) \union New(p)
    BY <1>3, LaunchMoves DEF Launched
  <2>2. /\ ToSet(pm[p].queued) = New(p) \union ToSet(StillQueued(p))
        /\ IsInjective(pm[p].queued) =>
             IsInjective(StillQueued(p)) /\ New(p) \intersect ToSet(StillQueued(p)) = {}
    BY <1>3, LaunchSets DEF Launch
  <2>3. Given(p)' = Given(p)
    BY <2>1, <2>2 DEF Given
  <2>4. IsInjective(pm[p].queued) /\ ToSet(pm[p].queued) \intersect Launched(p) = {}
          => IsInjective(pm'[p].queued) /\ ToSet(pm'[p].queued) \intersect Launched(p)' = {}
    BY <2>1, <2>2
  <2> QED BY <1>3, <2>3, <2>4, LaunchMoves DEF Ticking, Launch, Counted
<1>6. CASE LaunchFails(p)
  <2>1. /\ pm'[p].queued = StillQueued(p)
        /\ Launched(p)' = Launched(p)
    BY <1>6, FailMoves DEF Launched
  <2>2. /\ ToSet(StillQueued(p)) \subseteq ToSet(pm[p].queued)
        /\ IsInjective(pm[p].queued) => IsInjective(StillQueued(p))
    BY <1>6, LaunchSets DEF LaunchFails
  <2>3. Given(p)' \subseteq Given(p)
    BY <2>1, <2>2 DEF Given
  <2>4. IsInjective(pm[p].queued) /\ ToSet(pm[p].queued) \intersect Launched(p) = {}
          => IsInjective(pm'[p].queued) /\ ToSet(pm'[p].queued) \intersect Launched(p)' = {}
    BY <2>1, <2>2
  <2> QED BY <1>6, <2>3, <2>4, FailMoves DEF Ticking, LaunchFails, Counted
<1>7. CASE TruncateState(p)
  <2>1. Given(p)' = Given(p) /\ Launched(p)' = Launched(p)
    BY <1>7, TruncateMoves DEF Given, Launched, SameJobs
  <2> QED BY <1>7, <2>1, TruncateMoves DEF Ticking, TruncateState, Counted, SameJobs
<1>4. CASE WriteState(p)
  <2>1. Given(p)' = Given(p) /\ Launched(p)' = Launched(p)
    BY <1>4, WriteMoves DEF Given, Launched, SameJobs
  <2> QED BY <1>4, <2>1, WriteMoves DEF Ticking, WriteState, SameJobs
<1>5. CASE RemoveState(p)
  <2>1. Given(p)' = Given(p) /\ Launched(p)' = Launched(p)
    BY <1>5, LeaveMoves DEF Given, Launched, SameJobs
  <2> QED BY <1>5, <2>1, LeaveMoves DEF Ticking, RemoveState, SameJobs
<1> QED BY <1>1, <1>2, <1>3, <1>4, <1>5, <1>6, <1>7

LEMMA OnceTicks == ASSUME Types, OnceInv, NEW p \in Procs, Ticking(p) PROVE OnceInv'
<1>1. \A q \in Procs : /\ Given(q)' \subseteq Given(q)
                       /\ pm'[q].took = pm[q].took /\ pm'[q].loaded = pm[q].loaded
                       /\ pm'[q].pc \in {"idle", "load", "remove"} \/ pm[q].pc = "idle"
                            => pm'[q] = pm[q]
  <2> TAKE q \in Procs
  <2>1. CASE q = p
    BY <2>1 DEF Ticking, SameHandOver
  <2>2. CASE q # p
    <3>1. pm'[q] = pm[q]
      BY <2>2 DEF Ticking, OthersStay
    <3> QED BY <3>1 DEF Given, Launched
  <2> QED BY <2>1, <2>2
<1>2. UNCHANGED <<main, tmp, cli, nextJobId, copyFor>>
  BY DEF Ticking
<1>3. QueuesInv'
  BY <1>1, <1>2 DEF OnceInv, QueuesInv, Fresh
<1>4. OwnInv'
  <2> SUFFICES ASSUME NEW q \in Procs
               PROVE  /\ IsInjective(pm'[q].queued)
                      /\ ToSet(pm'[q].queued) \intersect Launched(q)' = {}
                      /\ pm'[q].pc \in {"idle", "load", "remove"}
                           => Launched(q)' = {} /\ ~ pm'[q].took
                      /\ pm'[q].pc = "remove" => pm'[q].loaded # 0
                      /\ pm'[q].loaded # 0 =>
                           pm'[q].loaded \in Procs /\ pm'[pm'[q].loaded].pc # "idle"
    BY DEF OwnInv
  <2>1. CASE q = p
    BY <1>1, <2>1 DEF OnceInv, OwnInv, Ticking
  <2>2. CASE q # p
    <3>1. pm'[q] = pm[q] /\ Launched(q)' = Launched(q)
      BY <2>2 DEF Ticking, OthersStay, Launched
    <3> QED BY <1>1, <3>1 DEF OnceInv, OwnInv
  <2> QED BY <2>1, <2>2
<1>5. TmpInv'
  BY <1>1, <1>2 DEF OnceInv, TmpInv, NotTaken
<1>6. CliInv'
  BY <1>1, <1>2 DEF OnceInv, CliInv, NotTaken
<1>7. ApartInv'
  BY <1>1 DEF OnceInv, ApartInv
<1> QED BY <1>3, <1>4, <1>5, <1>6, <1>7 DEF OnceInv

\* What a manager has does not change when the managers do not.
LEMMA SameGiven ==
  ASSUME UNCHANGED pm
  PROVE  \A p \in Procs : Given(p)' = Given(p) /\ Launched(p)' = Launched(p)
BY DEF Given, Launched

LEMMA OnceSubmit == ASSUME Types, OnceInv, Submit PROVE OnceInv'
<1> DEFINE more == Append(main.queued, nextJobId)
<1>1. /\ main' = Torn /\ cli'.pc = "save" /\ cli'.queued = more /\ nextJobId' = nextJobId + 1
      /\ UNCHANGED <<tmp, pm, copyFor>> /\ cli.pc = "prompt"
  BY DEF Submit, AtPrompt
<1>2. main.queued \in Seq(Nat) /\ nextJobId \in Nat /\ tmp.queued \in Seq(Nat)
  BY DEF Types, Pickles
<1>3. /\ IsInjective(main.queued) /\ Fresh(main.queued) /\ NotTaken(main.queued)
      /\ IsInjective(tmp.queued) /\ Fresh(tmp.queued)
      /\ \A p \in Procs : \A j \in Given(p) : j < nextJobId
  BY <1>1 DEF OnceInv, QueuesInv, CliInv
<1>4. ToSet(more) = ToSet(main.queued) \union {nextJobId} /\ IsInjective(more)
  <2>1. nextJobId \notin ToSet(main.queued)
    BY <1>2, <1>3 DEF Fresh
  <2> QED BY <1>2, <1>3, <2>1, AppendSets
<1> HIDE DEF more
<1>5. \A p \in Procs : \A j \in Given(p) : j \in Nat
  <2> TAKE p \in Procs
  <2>1. pm[p].queued \in Seq(Nat) /\ pm[p].active \subseteq Nat /\ pm[p].complete \subseteq Nat
    BY DEF Types, Managers, FiniteSets
  <2> QED BY <2>1, SetOfSequence DEF Given, Launched
<1>6. /\ \A j \in ToSet(main.queued) : j \in Nat
      /\ \A j \in ToSet(tmp.queued) : j \in Nat
  BY <1>2, SetOfSequence
<1>7. Torn.queued = <<>> /\ Torn.is = "torn"
  BY DEF Torn
<1>8. QueuesInv'
  <2>1. /\ \A j \in ToSet(more) : j < nextJobId + 1
        /\ \A j \in ToSet(tmp.queued) : j < nextJobId + 1
    BY <1>2, <1>3, <1>4, <1>6 DEF Fresh
  <2>2. \A p \in Procs : \A j \in Given(p)' : j < nextJobId + 1
    BY <1>1, <1>2, <1>3, <1>5, SameGiven
  <2> QED BY <1>1, <1>3, <1>4, <1>7, <2>1, <2>2, EmptyQueue DEF QueuesInv, Fresh
<1>9. OwnInv'
  BY <1>1, SameGiven DEF OnceInv, OwnInv
<1>10. TmpInv'
  BY <1>1, SameGiven DEF OnceInv, TmpInv, NotTaken
<1>11. CliInv'
  <2>1. \A p \in Procs : nextJobId \notin Given(p)
    BY <1>2, <1>3
  <2>2. \A p \in Procs : pm[p].took => ToSet(more) \intersect Given(p) = {}
    BY <1>3, <1>4, <2>1 DEF NotTaken
  <2>3. tmp.is = "whole" => ToSet(more) \intersect ToSet(tmp.queued) = {}
    <3>1. nextJobId \notin ToSet(tmp.queued)
      BY <1>2, <1>3 DEF Fresh
    <3>2. tmp.is = "whole" => ToSet(main.queued) \intersect ToSet(tmp.queued) = {}
      BY <1>1 DEF OnceInv, CliInv
    <3> QED BY <1>4, <3>1, <3>2
  <2> QED BY <1>1, <2>2, <2>3, SameGiven DEF CliInv, NotTaken
<1>12. ApartInv'
  BY <1>1, SameGiven DEF OnceInv, ApartInv
<1> QED BY <1>8, <1>9, <1>10, <1>11, <1>12 DEF OnceInv

LEMMA OnceCommand ==
  ASSUME Types, OnceInv, SaveMain \/ StartCopies \/ CopyFails \/ ClearMain
  PROVE  OnceInv'
<1>1. UNCHANGED <<pm, nextJobId>>
  BY DEF SaveMain, StartCopies, CopyFails, ClearMain
<1>2. OwnInv' /\ ApartInv'
  BY <1>1, SameGiven DEF OnceInv, OwnInv, ApartInv
<1> USE EmptyQueue
<1>3. CASE SaveMain
  <2>1. /\ main'.queued = cli.queued /\ cli'.queued = <<>> /\ cli'.pc = "prompt"
        /\ UNCHANGED <<tmp, copyFor>> /\ cli.pc = "save"
    BY <1>3 DEF SaveMain, Pickle
  <2>2. QueuesInv'
    BY <1>1, <2>1, SameGiven DEF OnceInv, QueuesInv, Fresh
  <2>3. TmpInv' /\ CliInv'
    BY <1>1, <2>1, SameGiven DEF OnceInv, TmpInv, CliInv, NotTaken
  <2> QED BY <1>2, <2>2, <2>3 DEF OnceInv
<1>4. CASE StartCopies
  <2>1. /\ cli'.queued = main.queued /\ cli'.pc = "copy" /\ UNCHANGED main
        /\ tmp'.is = "torn" /\ tmp'.queued = <<>> /\ copyFor' = 0 /\ cli.pc = "prompt"
    BY <1>4 DEF StartCopies, AtPrompt, Torn
  <2>2. QueuesInv'
    BY <1>1, <2>1, SameGiven DEF OnceInv, QueuesInv, Fresh
  <2>3. TmpInv' /\ CliInv'
    BY <1>1, <2>1, SameGiven DEF OnceInv, TmpInv, CliInv, NotTaken
  <2> QED BY <1>2, <2>2, <2>3 DEF OnceInv
<1>5. CASE CopyFails
  <2>1. /\ cli'.queued = <<>> /\ cli'.pc = "prompt" /\ UNCHANGED <<main, tmp, copyFor>>
        /\ tmp.is = "missing" /\ cli.pc = "copy"
    BY <1>5 DEF CopyFails
  <2>2. QueuesInv'
    BY <1>1, <2>1, SameGiven DEF OnceInv, QueuesInv, Fresh
  <2>3. TmpInv' /\ CliInv'
    BY <1>1, <2>1, SameGiven DEF OnceInv, TmpInv, CliInv, NotTaken
  <2> QED BY <1>2, <2>2, <2>3 DEF OnceInv
<1>6. CASE ClearMain
  <2>1. /\ cli'.queued = <<>> /\ cli'.pc = "save" /\ UNCHANGED <<tmp, copyFor>>
        /\ main'.queued = <<>> /\ cli.pc = "clear"
    BY <1>6 DEF ClearMain, Torn
  <2>2. QueuesInv'
    BY <1>1, <2>1, SameGiven DEF OnceInv, QueuesInv, Fresh
  <2>3. TmpInv' /\ CliInv'
    BY <1>1, <2>1, SameGiven DEF OnceInv, TmpInv, CliInv, NotTaken
  <2> QED BY <1>2, <2>2, <2>3 DEF OnceInv
<1> QED BY <1>3, <1>4, <1>5, <1>6

\* The hand-over file is new: nobody has loaded it.
LEMMA OnceSpawn == ASSUME Types, OnceInv, NEW p \in Procs, SpawnProcMan(p) PROVE OnceInv'
<1>1. /\ cli.pc = "copy" /\ tmp'.is = "whole" /\ tmp'.queued = cli.queued /\ copyFor' = p
      /\ cli'.pc = "clear" /\ cli'.queued = cli.queued /\ UNCHANGED <<main, nextJobId>>
      /\ pm[p].pc = "idle"
  BY DEF SpawnProcMan, Pickle, NextProc, Types, Commands
<1>2. \A q \in Procs : /\ Given(q)' = Given(q) /\ Launched(q)' = Launched(q)
                       /\ pm'[q].queued = pm[q].queued
                       /\ pm'[q].took = pm[q].took /\ pm'[q].loaded = pm[q].loaded
                       /\ pm'[q].pc = IF q = p THEN "load" ELSE pm[q].pc
  BY SpawnMoves DEF OthersStay, SameJobs, SameHandOver, Given, Launched
<1>3. QueuesInv'
  BY <1>1, <1>2 DEF OnceInv, QueuesInv, Fresh
<1>4. OwnInv'
  BY <1>1, <1>2 DEF OnceInv, OwnInv
<1>5. TmpInv'
  <2>1. NotTaken(cli.queued)
    BY <1>1 DEF OnceInv, CliInv
  <2>2. \A q \in Procs : pm[q].loaded # p
    BY <1>1 DEF OnceInv, OwnInv, Procs
  <2> QED BY <1>1, <1>2, <2>1, <2>2 DEF TmpInv, NotTaken
<1>6. CliInv'
  BY <1>1, <1>2 DEF OnceInv, CliInv
<1>7. ApartInv'
  BY <1>2 DEF OnceInv, ApartInv
<1> QED BY <1>3, <1>4, <1>5, <1>6, <1>7 DEF OnceInv

\* Several managers may load the same file; none has taken it over yet.
LEMMA OnceLoad == ASSUME Types, OnceInv, NEW p \in Procs, Load(p) PROVE OnceInv'
<1>1. /\ UNCHANGED <<main, tmp, cli, nextJobId, copyFor>> /\ pm[p].pc = "load"
      /\ Launched(p) = {} /\ ~ pm[p].took
  BY DEF Load, OnceInv, OwnInv
<1>2. \A q \in Procs : q # p => pm'[q] = pm[q] /\ Given(q)' = Given(q)
                                /\ Launched(q)' = Launched(q)
  BY LoadMoves DEF OthersStay, Given, Launched
<1>3. /\ Launched(p)' = {} /\ ~ pm'[p].took /\ pm'[p].pc # "idle"
      /\ \/ /\ tmp.is = "whole" /\ pm'[p].pc = "remove"
            /\ pm'[p].queued = tmp.queued /\ pm'[p].loaded = copyFor
         \/ /\ pm'[p].pc = "died loading"
            /\ pm'[p].queued = pm[p].queued /\ pm'[p].loaded = pm[p].loaded
  BY <1>1, LoadMoves DEF Launched
<1>4. Given(p)' = ToSet(pm'[p].queued)
  BY <1>3 DEF Given
<1>5. tmp.is = "whole" => copyFor \in Procs /\ pm[copyFor].pc # "idle"
  BY DEF OnceInv, TmpInv
<1>6. \A q \in Procs : pm[q].pc # "idle" => pm'[q].pc # "idle"
  BY <1>2, <1>3
<1>7. QueuesInv'
  <2>1. \A j \in Given(p)' : j < nextJobId
    <3>1. \A j \in ToSet(tmp.queued) \union ToSet(pm[p].queued) : j < nextJobId
      BY DEF OnceInv, QueuesInv, Fresh, Given
    <3> QED BY <1>3, <1>4, <3>1
  <2>2. \A q \in Procs : \A j \in Given(q)' : j < nextJobId
    BY <1>2, <2>1 DEF OnceInv, QueuesInv
  <2> QED BY <1>1, <2>2 DEF OnceInv, QueuesInv, Fresh
<1>8. OwnInv'
  <2> SUFFICES ASSUME NEW q \in Procs
               PROVE  /\ IsInjective(pm'[q].queued)
                      /\ ToSet(pm'[q].queued) \intersect Launched(q)' = {}
                      /\ pm'[q].pc \in {"idle", "load", "remove"}
                           => Launched(q)' = {} /\ ~ pm'[q].took
                      /\ pm'[q].pc = "remove" => pm'[q].loaded # 0
                      /\ pm'[q].loaded # 0 =>
                           pm'[q].loaded \in Procs /\ pm'[pm'[q].loaded].pc # "idle"
    BY DEF OwnInv
  <2>1. CASE q = p
    <3>1. IsInjective(tmp.queued) /\ IsInjective(pm[p].queued)
      BY DEF OnceInv, QueuesInv, OwnInv
    <3>2. pm[p].loaded # 0 => pm[p].loaded \in Procs /\ pm[pm[p].loaded].pc # "idle"
      BY DEF OnceInv, OwnInv
    <3>3. pm'[p].pc = "remove" => pm'[p].loaded # 0
      BY <1>3, <1>5 DEF Procs
    <3> QED BY <1>3, <1>5, <1>6, <2>1, <3>1, <3>2, <3>3
  <2>2. CASE q # p
    BY <1>2, <1>6, <2>2 DEF OnceInv, OwnInv
  <2> QED BY <2>1, <2>2
<1>9. TmpInv'
  <2>1. tmp.is = "whole" => \A q \in Procs : pm'[q].pc = "remove" /\ pm'[q].loaded = copyFor
                                               => pm'[q].queued = tmp.queued
    BY <1>2, <1>3 DEF OnceInv, TmpInv
  <2>2. \A q \in Procs : pm'[q].took => pm[q].took /\ Given(q)' = Given(q)
    BY <1>2, <1>3
  <2> QED BY <1>1, <1>6, <2>1, <2>2 DEF OnceInv, TmpInv, NotTaken
<1>10. CliInv'
  BY <1>1, <1>2, <1>3 DEF OnceInv, CliInv, NotTaken
<1>11. ApartInv'
  BY <1>2, <1>3 DEF OnceInv, ApartInv
<1> QED BY <1>7, <1>8, <1>9, <1>10, <1>11 DEF OnceInv

\* Whoever removes the file it loaded is the first to: the jobs are its own.
LEMMA OnceRemove == ASSUME Types, OnceInv, NEW p \in Procs, RemoveTmp(p) PROVE OnceInv'
<1>1. /\ UNCHANGED <<main, cli, nextJobId, copyFor>> /\ pm[p].pc = "remove"
      /\ tmp'.is = "missing" /\ tmp'.queued = <<>>
      /\ Launched(p) = {} /\ ~ pm[p].took /\ pm[p].loaded # 0
  BY DEF RemoveTmp, OnceInv, OwnInv, Missing
<1>2. \A q \in Procs : q # p => pm'[q] = pm[q]
  BY RemoveMoves DEF OthersStay
<1>3. \A q \in Procs : /\ Given(q)' = Given(q) /\ Launched(q)' = Launched(q)
                       /\ pm'[q].queued = pm[q].queued
  BY <1>2, RemoveMoves DEF SameJobs, Given, Launched
<1>4. /\ pm'[p].pc \notin {"idle", "load", "remove"}
      /\ pm'[p].loaded \in {0, pm[p].loaded}
      /\ pm'[p].took => tmp.is # "missing" /\ pm[p].loaded = copyFor
  BY <1>1, RemoveMoves DEF SameHandOver
<1>5. pm'[p].took => tmp.is = "whole" /\ Given(p) = ToSet(tmp.queued)
  <2>1. tmp.is \in {"missing", "torn", "whole"}
    BY DEF Types, Pickles
  <2>2. pm'[p].took => tmp.is = "whole"
    BY <1>1, <1>4, <2>1 DEF OnceInv, TmpInv
  <2>3. pm'[p].took => pm[p].queued = tmp.queued
    BY <1>1, <1>4, <2>2 DEF OnceInv, TmpInv
  <2> QED BY <1>1, <2>2, <2>3 DEF Given
<1>6. \A q \in Procs : pm[q].pc # "idle" => pm'[q].pc # "idle"
  BY <1>2, <1>4
<1>7. QueuesInv'
  BY <1>1, <1>3, EmptyQueue DEF OnceInv, QueuesInv, Fresh
<1>8. OwnInv'
  <2> SUFFICES ASSUME NEW q \in Procs
               PROVE  /\ IsInjective(pm'[q].queued)
                      /\ ToSet(pm'[q].queued) \intersect Launched(q)' = {}
                      /\ pm'[q].pc \in {"idle", "load", "remove"}
                           => Launched(q)' = {} /\ ~ pm'[q].took
                      /\ pm'[q].pc = "remove" => pm'[q].loaded # 0
                      /\ pm'[q].loaded # 0 =>
                           pm'[q].loaded \in Procs /\ pm'[pm'[q].loaded].pc # "idle"
    BY DEF OwnInv
  <2>1. CASE q = p
    BY <1>3, <1>4, <1>6, <2>1 DEF OnceInv, OwnInv
  <2>2. CASE q # p
    BY <1>2, <1>3, <1>6, <2>2 DEF OnceInv, OwnInv
  <2> QED BY <2>1, <2>2
<1>9. TmpInv'
  BY <1>1 DEF TmpInv
<1>10. CliInv'
  <2>1. ASSUME NEW q \in Seq(Nat), NotTaken(q),
               tmp.is = "whole" => ToSet(q) \intersect ToSet(tmp.queued) = {}
        PROVE  \A r \in Procs : pm'[r].took => ToSet(q) \intersect Given(r)' = {}
    BY <1>2, <1>3, <1>5, <2>1 DEF NotTaken
  <2>2. main.queued \in Seq(Nat) /\ cli.queued \in Seq(Nat)
    BY DEF Types, Pickles, Commands
  <2>3. cli.pc \in {"prompt", "copy"} =>
          \A r \in Procs : pm'[r].took => ToSet(main.queued) \intersect Given(r)' = {}
    BY <2>1, <2>2 DEF OnceInv, CliInv
  <2>4. cli.pc \in {"save", "copy"} =>
          \A r \in Procs : pm'[r].took => ToSet(cli.queued) \intersect Given(r)' = {}
    BY <2>1, <2>2 DEF OnceInv, CliInv
  <2> QED BY <1>1, <2>3, <2>4 DEF CliInv, NotTaken
<1>11. ApartInv'
  <2>1. \A q \in Procs : pm'[p].took /\ q # p /\ pm[q].took => Given(p) \intersect Given(q) = {}
    BY <1>5 DEF OnceInv, TmpInv, NotTaken
  <2> QED BY <1>2, <1>3, <2>1 DEF OnceInv, ApartInv
<1> QED BY <1>7, <1>8, <1>9, <1>10, <1>11 DEF OnceInv

LEMMA OnceNext == Types /\ OnceInv /\ [Next]_vars => OnceInv'
<1> SUFFICES ASSUME Types, OnceInv, [Next]_vars PROVE OnceInv'
  OBVIOUS
<1>1. CASE Submit
  BY <1>1, OnceSubmit
<1>2. CASE SaveMain \/ StartCopies \/ CopyFails \/ ClearMain
  BY <1>2, OnceCommand
<1>3. ASSUME NEW p \in Procs, SpawnProcMan(p) PROVE OnceInv'
  BY <1>3, OnceSpawn
<1>4. ASSUME NEW p \in Procs, Load(p) PROVE OnceInv'
  BY <1>4, OnceLoad
<1>5. ASSUME NEW p \in Procs, RemoveTmp(p) PROVE OnceInv'
  BY <1>5, OnceRemove
<1>6. ASSUME NEW p \in Procs,
             Poll(p) \/ (\E f \in Files : CountOthers(p, f)) \/ Launch(p) \/ LaunchFails(p)
               \/ TruncateState(p) \/ WriteState(p) \/ RemoveState(p)
      PROVE  OnceInv'
  BY <1>6, TicksMove, OnceTicks
<1>7. CASE UNCHANGED <<main, tmp, cli, nextJobId, pm, copyFor>>
  BY <1>7, SameGiven DEF OnceInv, QueuesInv, OwnInv, TmpInv, CliInv, ApartInv, Fresh, NotTaken
<1>8. ASSUME NEW p \in Procs, NEW j \in Jobs, JobEnds(p, j) PROVE OnceInv'
  BY <1>7, <1>8 DEF JobEnds
<1>9. CASE UNCHANGED vars
  BY <1>7, <1>9 DEF vars
<1> QED BY <1>1, <1>2, <1>3, <1>4, <1>5, <1>6, <1>8, <1>9 DEF Next, Command, Manager

\* No job is launched twice by managers that each removed the hand-over file they
\* had loaded, nor by one of them again (procman.py 589-593).
THEOREM LaunchedOnceCorrect == Spec => []LaunchedOnce
<1>1. OnceInv => LaunchedOnce
  BY DEF OnceInv, OwnInv, ApartInv, LaunchedOnce, Given
<1> QED BY <1>1, OnceInit, OnceNext, TypesCorrect, PTL DEF Spec
=============================================================================
