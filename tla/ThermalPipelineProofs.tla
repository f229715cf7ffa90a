------------------------- MODULE ThermalPipelineProofs -------------------------
(*****************************************************************************)
(* Proofs about ThermalPipeline for every layout, set of temperatures,       *)
(* table, number of iterations and number of runs, and before them facts     *)
(* about the policies of DTMPolicies for every thresholds and every DVFS     *)
(* table: what they return is an action, and hotter banks never get looser   *)
(* knobs.                                                                    *)
(*****************************************************************************)
EXTENDS ThermalPipeline, WellFoundedInduction, TLAPS

-----------------------------------------------------------------------------
(* Floor division *)

\* Floor division brackets its dividend between two multiples of the divisor.
LEMMA DivBounds ==
  ASSUME NEW a \in Int, NEW b \in Int, b > 0
  PROVE  a \div b \in Int /\ b * (a \div b) <= a /\ a < b * (a \div b) + b
BY Z3

\* An upper bound on a quotient.
LEMMA DivAtMost ==
  ASSUME NEW a \in Int, NEW b \in Int, b > 0, NEW n \in Int, a < b * n + b
  PROVE  a \div b <= n
<1>1. PICK q \in Int : q = a \div b /\ b * q <= a
  BY DivBounds
<1>2. b * q < b * n + b
  BY <1>1
<1>3. q <= n
  BY <1>2, SMT
<1> QED BY <1>1, <1>3

\* A lower bound on a quotient.
LEMMA DivAtLeast ==
  ASSUME NEW a \in Int, NEW b \in Int, b > 0, NEW n \in Int, b * n <= a
  PROVE  n <= a \div b
<1>1. PICK q \in Int : q = a \div b /\ a < b * q + b
  BY DivBounds
<1>2. b * n < b * q + b
  BY <1>1
<1>3. n <= q
  BY <1>2, SMT
<1> QED BY <1>1, <1>3

\* Floor division by a positive number is monotone in the dividend.
LEMMA DivMonotone ==
  ASSUME NEW a \in Int, NEW c \in Int, NEW b \in Int, b > 0, a <= c
  PROVE  a \div b <= c \div b
<1>1. PICK r \in Int : r = c \div b /\ c < b * r + b
  BY DivBounds
<1>2. a < b * r + b
  BY <1>1
<1> QED BY <1>1, <1>2, DivAtMost

-----------------------------------------------------------------------------
(* ThrottlingPolicy *)

\* Between the throttle and the critical temperature the rounded linear
\* factor of ThrottlingPolicy.evaluate stays between 0 and 1.
LEMMA LinearFactorRange ==
  ASSUME NEW t \in Int, Span > 0, THROTTLE_TEMP_C <= t, t < CRITICAL_TEMP_C
  PROVE  LinearFactor(t) \in 0 .. FullThrottle
<1>1. PICK b \in Int, x \in Int :
        /\ b = 2 * Span /\ b > 0
        /\ x = 2 * FullThrottle * (CRITICAL_TEMP_C - t) + Span
        /\ b * 0 <= x /\ x < b * FullThrottle + b
  BY ThresholdAssumption DEF Span, FullThrottle
<1>2. PICK q \in Int : q = x \div b
  BY <1>1, DivBounds
<1>3. 0 <= q /\ q <= FullThrottle
  BY <1>1, <1>2, DivAtMost, DivAtLeast DEF FullThrottle
<1>4. q \in 0 .. FullThrottle
  BY <1>3, SMTT(30) DEF FullThrottle
<1>5. LinearFactor(t) = q
  BY <1>1, <1>2 DEF LinearFactor
<1> QED BY <1>4, <1>5

\* The rounded linear factor of ThrottlingPolicy.evaluate never rises with
\* the temperature.
LEMMA LinearFactorFalls ==
  ASSUME NEW s \in Int, NEW t \in Int, Span > 0, s <= t
  PROVE  LinearFactor(t) <= LinearFactor(s)
<1>1. PICK b \in Int, x \in Int, y \in Int :
        /\ b = 2 * Span /\ b > 0
        /\ x = 2 * FullThrottle * (CRITICAL_TEMP_C - s) + Span
        /\ y = 2 * FullThrottle * (CRITICAL_TEMP_C - t) + Span
        /\ y <= x
  BY ThresholdAssumption DEF Span, FullThrottle
<1>2. y \div b <= x \div b
  BY <1>1, DivMonotone
<1> QED BY <1>1, <1>2 DEF LinearFactor

-----------------------------------------------------------------------------
(* DVFSPolicy *)

\* A nonempty set of DVFS levels has a deepest one, so the CHOOSE in
\* DVFSLevel finds the entry the backward loop of DVFSPolicy.evaluate stops
\* at.
LEMMA DeepestLevelExists ==
  ASSUME NEW S \in SUBSET Levels, S # {}
  PROVE  \E i \in S : \A j \in S : j <= i
<1> DEFINE n == Len(DVFS_TEMP_THRESHOLDS_C)
           T == {n - i : i \in S}
<1>1. n \in Nat /\ T \subseteq Nat /\ T # {} /\ S \subseteq Int
  BY DVFSAssumption DEF Levels
<1>2. PICK x \in T : \A y \in T : <<y, x>> \notin OpToRel(<, Nat)
  <2> HIDE DEF T
  <2> QED BY <1>1, NatLessThanWellFounded, WFMin
<1>3. \A y \in T : ~ (y < x)
  BY <1>1, <1>2 DEF OpToRel
<1>4. PICK i \in S : x = n - i
  OBVIOUS
<1>5. \A j \in S : j <= i
  <2>1. SUFFICES ASSUME NEW j \in S PROVE j <= i
    OBVIOUS
  <2>2. n - j \in T
    OBVIOUS
  <2>3. ~ (n - j < n - i)
    BY <2>2, <1>3, <1>4
  <2>4. n \in Int /\ i \in Int /\ j \in Int
    BY <1>1
  <2> HIDE DEF n, T
  <2> QED BY <2>3, <2>4
<1> QED BY <1>5

\* Every throttle factor of ThrottlingPolicy.evaluate is between 0 and 1.
LEMMA ThrottleFactorType ==
  ASSUME NEW t \in Int, Span > 0
  PROVE  ThrottleFactor(t) \in 0 .. FullThrottle
<1>1. 0 \in 0 .. FullThrottle /\ FullThrottle \in 0 .. FullThrottle
  BY DEF FullThrottle
<1>2. CASE t >= CRITICAL_TEMP_C
  BY <1>1, <1>2 DEF ThrottleFactor
<1>3. CASE t < CRITICAL_TEMP_C /\ THROTTLE_TEMP_C <= t
  <2>1. LinearFactor(t) \in 0 .. FullThrottle
    BY <1>3, LinearFactorRange
  <2>2. ~ (t >= CRITICAL_TEMP_C) /\ t >= THROTTLE_TEMP_C
    BY <1>3, ThresholdAssumption
  <2> QED BY <2>1, <2>2 DEF ThrottleFactor
<1>4. CASE ~ (t >= CRITICAL_TEMP_C) /\ ~ (t >= THROTTLE_TEMP_C)
  BY <1>1, <1>4 DEF ThrottleFactor
<1> QED BY <1>2, <1>3, <1>4, ThresholdAssumption

\* The throttle factor never rises with the temperature, across both branch
\* boundaries of ThrottlingPolicy.evaluate.
LEMMA ThrottleFactorFalls ==
  ASSUME NEW s \in Int, NEW t \in Int, Span > 0, s <= t
  PROVE  ThrottleFactor(t) <= ThrottleFactor(s)
<1>1. PICK f \in 0 .. FullThrottle, g \in 0 .. FullThrottle :
        f = ThrottleFactor(s) /\ g = ThrottleFactor(t)
  BY ThrottleFactorType
<1>2. CASE t >= CRITICAL_TEMP_C
  <2>1. g = 0
    BY <1>1, <1>2 DEF ThrottleFactor
  <2>2. g <= f
    BY <2>1 DEF FullThrottle
  <2> QED BY <1>1, <2>2
<1>3. CASE ~ (s >= THROTTLE_TEMP_C)
  <2>1. ~ (s >= CRITICAL_TEMP_C)
    BY <1>3, ThresholdAssumption DEF Span
  <2>2. f = FullThrottle
    BY <1>1, <1>3, <2>1 DEF ThrottleFactor
  <2>3. g <= f
    BY <2>2 DEF FullThrottle
  <2> QED BY <1>1, <2>3
<1>4. CASE ~ (t >= CRITICAL_TEMP_C) /\ s >= THROTTLE_TEMP_C
  <2>1. t >= THROTTLE_TEMP_C /\ ~ (s >= CRITICAL_TEMP_C)
    BY <1>4, ThresholdAssumption
  <2>2. ThrottleFactor(s) = LinearFactor(s) /\ ThrottleFactor(t) = LinearFactor(t)
    BY <1>4, <2>1 DEF ThrottleFactor
  <2> QED BY <2>2, LinearFactorFalls
<1> QED BY <1>2, <1>3, <1>4

\* The levels whose threshold the hottest bank reaches.
ReachedLevels(temps) ==
  {i \in Levels : Reaches(temps, Banks, DVFS_TEMP_THRESHOLDS_C[i])}

\* What DVFSPolicy.evaluate selects: an entry of the table, the first if no
\* threshold is reached, otherwise the deepest one that is.
LEMMA DVFSLevelMeaning ==
  ASSUME NEW temps
  PROVE  /\ DVFSLevel(temps) \in Levels
         /\ ReachedLevels(temps) = {} => DVFSLevel(temps) = 1
         /\ ReachedLevels(temps) # {} => DVFSLevel(temps) \in ReachedLevels(temps)
         /\ \A j \in ReachedLevels(temps) : j <= DVFSLevel(temps)
<1> DEFINE R == ReachedLevels(temps)
<1>1. R \in SUBSET Levels
  BY DEF ReachedLevels
<1>2. 1 \in Levels
  BY DVFSAssumption DEF Levels
<1>3. DVFSLevel(temps) = IF R = {} THEN 1 ELSE CHOOSE i \in R : \A j \in R : j <= i
  BY DEF DVFSLevel, ReachedLevels
<1> HIDE DEF R
<1>4. CASE R = {}
  <2>1. DVFSLevel(temps) = 1
    BY <1>3, <1>4
  <2> QED BY <1>2, <1>4, <2>1 DEF R
<1>5. CASE R # {}
  <2>1. \E i \in R : \A j \in R : j <= i
    BY <1>1, <1>5, DeepestLevelExists
  <2>2. DVFSLevel(temps) \in R /\ \A j \in R : j <= DVFSLevel(temps)
    BY <1>3, <1>5, <2>1
  <2> QED BY <1>1, <1>5, <2>2 DEF R
<1> QED BY <1>4, <1>5

\* Hotter banks select the same or a deeper entry of the DVFS table.
LEMMA DVFSLevelRises ==
  ASSUME NEW s \in [Banks -> Int], NEW t \in [Banks -> Int],
         \A b \in Banks : s[b] <= t[b]
  PROVE  DVFSLevel(s) <= DVFSLevel(t)
<1>1. \A i \in Levels : DVFS_TEMP_THRESHOLDS_C[i] \in Int
  BY DVFSAssumption DEF Levels
<1>2. ReachedLevels(s) \subseteq ReachedLevels(t)
  BY <1>1 DEF ReachedLevels, Reaches
<1>3. CASE ReachedLevels(s) = {}
  <2>1. DVFSLevel(s) = 1 /\ DVFSLevel(t) \in Levels
    BY <1>3, DVFSLevelMeaning
  <2> QED BY <2>1, DVFSAssumption DEF Levels
<1>4. CASE ReachedLevels(s) # {}
  BY <1>2, <1>4, DVFSLevelMeaning
<1> QED BY <1>3, <1>4

-----------------------------------------------------------------------------
(* Types *)

\* DTMAction.__init__ builds an action.
LEMMA DTMActionType == DTMAction \in DTMActions
<1>1. FullThrottle \in 0 .. FullThrottle /\ FullScale \in Nat
  BY DEF FullThrottle, FullScale
<1> QED BY <1>1 DEF DTMAction, DTMActions

\* ThrottlingPolicy.evaluate maps actions to actions, also with thresholds in
\* the wrong order, where it does nothing.
LEMMA ThrottlingType ==
  ASSUME NEW temps \in [Banks -> Int], NEW action \in DTMActions
  PROVE  ThrottlingEvaluate(temps, action) \in DTMActions
<1>1. CASE Span <= 0
  BY <1>1 DEF ThrottlingEvaluate
<1>2. CASE Span > 0
  <2>1. [b \in Banks |-> ThrottleFactor(temps[b])] \in [Banks -> 0 .. FullThrottle]
    BY <1>2, ThrottleFactorType
  <2>2. ~ (Span <= 0)
    BY <1>2, ThresholdAssumption DEF Span
  <2> QED BY <2>1, <2>2 DEF ThrottlingEvaluate, DTMActions
<1> QED BY <1>1, <1>2, ThresholdAssumption DEF Span

\* DVFSPolicy.evaluate maps actions to actions.
LEMMA DVFSType ==
  ASSUME NEW temps, NEW action \in DTMActions
  PROVE  DVFSEvaluate(temps, action) \in DTMActions
<1>1. DVFSLevel(temps) \in Levels
  BY DVFSLevelMeaning
<1>2. /\ DVFS_FREQ_SCALE_FACTORS[DVFSLevel(temps)] \in Nat
      /\ DVFS_VOLTAGE_SCALE_FACTORS[DVFSLevel(temps)] \in Nat
  BY <1>1, DVFSAssumption
<1> QED BY <1>2 DEF DVFSEvaluate, DTMActions

\* LowPowerModePolicy.evaluate maps actions to actions.
LEMMA LowPowerModeType ==
  ASSUME NEW temps, NEW action \in DTMActions
  PROVE  LowPowerModeEvaluate(temps, action) \in DTMActions
BY DEF LowPowerModeEvaluate, DTMActions, HotChannels

\* Every policy run_pipeline.py can install maps an action to an action:
\* throttle factors stay in [0, 1] and scales are table entries, for every
\* layout, thresholds and DVFS table.
THEOREM EvaluateType ==
  ASSUME NEW policy \in PolicyNames, NEW temps \in [Banks -> Int],
         NEW action \in DTMActions
  PROVE  Evaluate(policy, temps, action) \in DTMActions
BY ThrottlingType, DVFSType, LowPowerModeType
   DEF Evaluate, CompositeEvaluate, PolicyNames

-----------------------------------------------------------------------------
(* The bank layout *)

\* A channel below the last leaves room for its banks.
LEMMA ProductGap ==
  ASSUME NEW n \in Nat, NEW w \in Nat, NEW k \in 0 .. n - 1
  PROVE  k * w \in Nat /\ k * w + w <= n * w
<1>1. n = k + 1 \/ n >= k + 1
  OBVIOUS
<1>2. PICK d \in Nat : n = k + 1 + d
  <2>1. n - k - 1 \in Nat /\ n = k + 1 + (n - k - 1)
    OBVIOUS
  <2> QED BY <2>1
<1>3. n * w = k * w + w + d * w /\ d * w \in Nat /\ k * w \in Nat
  BY <1>2, SMT
<1> QED BY <1>3

\* channel_to_banks names only banks of the stack.
LEMMA ChannelBanksAreBanks ==
  ASSUME NEW ch \in Channels
  PROVE  channel_to_banks(ch) \subseteq Banks
<1>1. PICK start \in Nat, half \in Nat :
        /\ start = ch * ChannelWidth /\ half = Half
        /\ start + ChannelWidth <= half
  BY LayoutAssumption, ProductGap DEF Channels, Half
<1>2. ChannelWidth \in Nat
  BY LayoutAssumption
<1>3. channel_to_banks(ch) = (start .. start + ChannelWidth - 1)
                        \cup (start + half .. start + half + ChannelWidth - 1)
  BY <1>1 DEF channel_to_banks
<1>4. Banks = 0 .. 2 * half - 1
  BY <1>1 DEF Banks, NumBanks
<1> QED BY <1>1, <1>2, <1>3, <1>4

\* Remainder and quotient give back the dividend.
LEMMA ModBounds ==
  ASSUME NEW a \in Int, NEW b \in Int, b > 0
  PROVE  a % b \in Int /\ 0 <= a % b /\ a % b < b /\ a = b * (a \div b) + (a % b)
BY Z3

\* bank_to_channel and channel_to_banks agree on every bank, in both halves
\* of the stack.
LEMMA BankInItsChannel ==
  ASSUME NEW bank \in Banks
  PROVE  /\ bank_to_channel(bank) \in Channels
         /\ bank \in channel_to_banks(bank_to_channel(bank))
<1>1. PICK n \in Nat \ {0}, w \in Nat \ {0}, half \in Int :
        n = NumChannels /\ w = ChannelWidth /\ half = Half /\ half = n * w /\ half > 0
  BY LayoutAssumption, SMT DEF Half
<1>2. bank \in 0 .. 2 * half - 1
  BY <1>1 DEF Banks, NumBanks
<1>3. PICK r \in Int : /\ r = bank % half /\ 0 <= r /\ r < half
                       /\ bank = r \/ bank = r + half
  <2>1. PICK r \in Int, e \in Int :
          /\ r = bank % half /\ 0 <= r /\ r < half /\ bank = half * e + r
    <3>1. bank \in Int /\ half \in Int /\ half > 0
      BY <1>1, <1>2
    <3>2. /\ bank % half \in Int /\ 0 <= bank % half /\ bank % half < half
          /\ bank = half * (bank \div half) + (bank % half)
      BY <3>1, ModBounds
    <3>3. bank \div half \in Int
      BY <3>1, DivBounds
    <3> QED BY <3>2, <3>3, Zenon
  <2>2. e < 2
    BY <1>1, <1>2, <2>1
  <2>3. e > -1
    BY <1>1, <1>2, <2>1
  <2>4. e = 0 \/ e = 1
    BY <2>2, <2>3
  <2> QED BY <1>1, <2>1, <2>4
<1>4. PICK ch \in Int : /\ ch = r \div w /\ w * ch <= r /\ r < w * ch + w
  BY <1>1, <1>3, DivBounds
<1>5. ch <= n - 1
  BY <1>1, <1>3, <1>4
<1>6. ch >= 0
  BY <1>1, <1>3, <1>4
<1>7. bank_to_channel(bank) = ch
  BY <1>1, <1>3, <1>4 DEF bank_to_channel
<1>8. ch \in Channels
  BY <1>1, <1>5, <1>6 DEF Channels
<1>9. bank \in channel_to_banks(ch)
  <2>1. PICK start \in Int : start = ch * w /\ start <= r /\ r <= start + w - 1
    BY <1>1, <1>4, SMT
  <2>2. channel_to_banks(ch) = (start .. start + w - 1)
                          \cup (start + half .. start + half + w - 1)
    BY <1>1, <2>1 DEF channel_to_banks
  <2>3. w \in Int /\ half \in Int
    BY <1>1
  <2> QED BY <1>3, <2>1, <2>2, <2>3
<1> QED BY <1>7, <1>8, <1>9

\* Quotient and remainder are the only numbers of their kind.
LEMMA DivModUnique ==
  ASSUME NEW a \in Int, NEW b \in Int, b > 0, NEW q \in Int, NEW r \in Int,
         0 <= r, r < b, a = b * q + r
  PROVE  a \div b = q /\ a % b = r
<1>1. PICK d \in Int, m \in Int :
        /\ d = a \div b /\ m = a % b
        /\ 0 <= m /\ m < b /\ a = b * d + m
  <2>1. a \div b \in Int
    BY DivBounds
  <2>2. a % b \in Int /\ 0 <= a % b /\ a % b < b /\ a = b * (a \div b) + (a % b)
    BY ModBounds
  <2> QED BY <2>1, <2>2, Zenon
<1>2. b * d < b * q + b /\ b * q < b * d + b
  BY <1>1, SMT
<1>3. d <= q
  BY <1>2, SMT
<1>4. q <= d
  BY <1>2, SMT
<1>5. d = q
  BY <1>3, <1>4
<1>6. m = r
  BY <1>1, <1>5
<1> QED BY <1>1, <1>5, <1>6

\* Every bank channel_to_banks lists for a channel is one bank_to_channel
\* sends back to it.
LEMMA ChannelOfItsBanks ==
  ASSUME NEW ch \in Channels, NEW bank \in channel_to_banks(ch)
  PROVE  bank_to_channel(bank) = ch
<1>1. PICK w \in Nat, start \in Nat, half \in Nat :
        /\ w = ChannelWidth /\ w > 0 /\ start = ch * w /\ half = Half
        /\ start + w <= half
  BY LayoutAssumption, ProductGap DEF Channels, Half
<1>2. bank \in start .. start + w - 1 \/ bank \in start + half .. start + half + w - 1
  BY <1>1 DEF channel_to_banks
<1>3. PICK off \in Int, q \in Int :
        0 <= off /\ off < w /\ bank = half * q + (start + off)
  <2>1. CASE bank \in start .. start + w - 1
    <3>1. /\ bank - start \in Int /\ 0 <= bank - start /\ bank - start < w
          /\ bank = half * 0 + (start + (bank - start))
      BY <2>1
    <3>2. 0 \in Int
      OBVIOUS
    <3> QED BY <3>1, <3>2, Zenon
  <2>2. CASE bank \in start + half .. start + half + w - 1
    <3>1. PICK off \in Int : off = bank - start - half
      BY <2>2
    <3>2. 0 <= off /\ off < w /\ bank = half * 1 + (start + off)
      BY <2>2, <3>1
    <3>3. 1 \in Int
      OBVIOUS
    <3> QED BY <3>2, <3>3, Zenon
  <2> QED BY <1>2, <2>1, <2>2
<1>4. PICK r \in Int : r = start + off /\ 0 <= r /\ r < half
  BY <1>1, <1>3
<1>5. half > 0 /\ bank \in Int
  BY <1>1, <1>2
<1>6. bank % half = r
  BY <1>3, <1>4, <1>5, DivModUnique
<1>7. ch \in Int /\ r = w * ch + off
  BY <1>1, <1>4, SMT DEF Channels
<1>8. r \div w = ch
  BY <1>1, <1>3, <1>4, <1>7, DivModUnique
<1> QED BY <1>1, <1>6, <1>8 DEF bank_to_channel

\* The bank _record_history looks at belongs to the channel.
LEMMA FirstBankOfChannel ==
  ASSUME NEW ch \in Channels
  PROVE  ch * ChannelWidth \in channel_to_banks(ch)
<1>1. PICK w \in Nat, start \in Nat :
        w = ChannelWidth /\ w > 0 /\ start = ch * ChannelWidth
  BY LayoutAssumption, SMT DEF Channels
<1>2. start \in start .. start + w - 1
  BY <1>1
<1> QED BY <1>1, <1>2 DEF channel_to_banks

\* The channels LowPowerModePolicy.evaluate gates are those that
\* bank_to_channel gives for the critical banks.
LEMMA HotChannelsAreCritical ==
  ASSUME NEW x \in [Banks -> Int]
  PROVE  HotChannels(x) =
           {bank_to_channel(b) : b \in {c \in Banks : x[c] >= CRITICAL_TEMP_C}}
<1>1. ASSUME NEW ch \in HotChannels(x)
      PROVE  \E b \in Banks : x[b] >= CRITICAL_TEMP_C /\ ch = bank_to_channel(b)
  BY ChannelBanksAreBanks, ChannelOfItsBanks DEF HotChannels, Reaches
<1>2. ASSUME NEW b \in Banks, x[b] >= CRITICAL_TEMP_C
      PROVE  bank_to_channel(b) \in HotChannels(x)
  BY <1>2, BankInItsChannel DEF HotChannels, Reaches
<1> QED BY <1>1, <1>2

\* The first bank of a channel is gated exactly if the channel is.
LEMMA FirstBankTellsChannel ==
  ASSUME NEW x, NEW ch \in Channels
  PROVE  ch * ChannelWidth \in BanksOf(HotChannels(x)) <=> ch \in HotChannels(x)
<1>1. ASSUME ch * ChannelWidth \in BanksOf(HotChannels(x))
      PROVE  ch \in HotChannels(x)
  <2>1. PICK c \in HotChannels(x) : ch * ChannelWidth \in channel_to_banks(c)
    BY <1>1 DEF BanksOf
  <2>2. c \in Channels
    BY DEF HotChannels
  <2>3. c = ch
    BY <2>1, <2>2, FirstBankOfChannel, ChannelOfItsBanks
  <2> QED BY <2>3
<1>2. ASSUME ch \in HotChannels(x)
      PROVE  ch * ChannelWidth \in BanksOf(HotChannels(x))
  BY <1>2, FirstBankOfChannel DEF BanksOf
<1> QED BY <1>1, <1>2

-----------------------------------------------------------------------------
(* The policies as run() calls them *)

\* What each policy makes of a fresh DTMAction, which is what run() passes by
\* calling evaluate without one: the three kinds of knob are set by the three
\* policies independently of one another, in the composite as well.
LEMMA FreshActionKnobs ==
  ASSUME NEW policy \in PolicyNames, NEW x \in [Banks -> Int],
         NEW e, e = Evaluate(policy, x, DTMAction)
  PROVE  /\ e.throttle_factors =
              IF policy \in {"throttle", "composite"}
              THEN ThrottlingEvaluate(x, DTMAction).throttle_factors
              ELSE [b \in Banks |-> FullThrottle]
         /\ e.freq_scale =
              IF policy \in {"dvfs", "composite"}
              THEN DVFS_FREQ_SCALE_FACTORS[DVFSLevel(x)] ELSE FullScale
         /\ e.voltage_scale =
              IF policy \in {"dvfs", "composite"}
              THEN DVFS_VOLTAGE_SCALE_FACTORS[DVFSLevel(x)] ELSE FullScale
         /\ e.bank_active =
              IF policy \in {"lpm", "composite"}
              THEN [b \in Banks |-> b \notin BanksOf(HotChannels(x))]
              ELSE [b \in Banks |-> TRUE]
<1> DEFINE A == DTMAction
           T == ThrottlingEvaluate(x, A)
           D == DVFSEvaluate(x, T)
           L(a) == LowPowerModeEvaluate(x, a)
<1>1. RestoredChannels(x, {}) = {} /\ BanksOf({}) = {}
  BY DEF RestoredChannels, BanksOf
<1>2. A \in DTMActions /\ T \in DTMActions /\ D \in DTMActions
  BY DTMActionType, ThrottlingType, DVFSType
<1>3. ASSUME NEW a \in DTMActions,
             a.bank_active = [b \in Banks |-> TRUE], a.lpm_channels = {}
      PROVE  /\ L(a).throttle_factors = a.throttle_factors
             /\ L(a).freq_scale = a.freq_scale /\ L(a).voltage_scale = a.voltage_scale
             /\ L(a).bank_active = [b \in Banks |-> b \notin BanksOf(HotChannels(x))]
  BY <1>1, <1>3 DEF LowPowerModeEvaluate, DTMActions
<1>4. CASE policy = "none"
  BY <1>4 DEF Evaluate, DTMAction
<1>5. CASE policy = "throttle"
  BY <1>5 DEF Evaluate, ThrottlingEvaluate, DTMAction
<1>6. CASE policy = "dvfs"
  BY <1>6 DEF Evaluate, DVFSEvaluate, DTMAction
<1>7. CASE policy = "lpm"
  <2>1. e = L(A)
    BY <1>7 DEF Evaluate
  <2>2. /\ A.throttle_factors = [b \in Banks |-> FullThrottle]
        /\ A.freq_scale = FullScale /\ A.voltage_scale = FullScale
        /\ A.bank_active = [b \in Banks |-> TRUE] /\ A.lpm_channels = {}
    BY DEF DTMAction
  <2> HIDE DEF L, A
  <2> QED BY <1>2, <1>3, <1>7, <2>1, <2>2
<1>8. CASE policy = "composite"
  <2>1. e = L(D)
    BY <1>8 DEF Evaluate, CompositeEvaluate
  <2>2. T.bank_active = [b \in Banks |-> TRUE] /\ T.lpm_channels = {}
    BY DEF ThrottlingEvaluate, DTMAction
  <2>3. /\ D.throttle_factors = T.throttle_factors
        /\ D.freq_scale = DVFS_FREQ_SCALE_FACTORS[DVFSLevel(x)]
        /\ D.voltage_scale = DVFS_VOLTAGE_SCALE_FACTORS[DVFSLevel(x)]
        /\ D.bank_active = T.bank_active /\ D.lpm_channels = T.lpm_channels
    <3> HIDE DEF T
    <3> QED BY <1>2 DEF DVFSEvaluate, DTMActions
  <2> HIDE DEF L, D
  <2> QED BY <1>2, <1>3, <1>8, <2>1, <2>2, <2>3
<1> QED BY <1>4, <1>5, <1>6, <1>7, <1>8 DEF PolicyNames

\* The banks a policy leaves active, starting from a fresh action.
LEMMA GatedBanks ==
  ASSUME NEW policy \in PolicyNames, NEW x \in [Banks -> Int]
  PROVE  /\ policy \in {"lpm", "composite"} =>
              Evaluate(policy, x, DTMAction).bank_active =
                [b \in Banks |-> b \notin BanksOf(HotChannels(x))]
         /\ policy \notin {"lpm", "composite"} =>
              Evaluate(policy, x, DTMAction).bank_active = [b \in Banks |-> TRUE]
<1>1. PICK e : e = Evaluate(policy, x, DTMAction)
  OBVIOUS
<1>2. e.bank_active =
        IF policy \in {"lpm", "composite"}
        THEN [b \in Banks |-> b \notin BanksOf(HotChannels(x))]
        ELSE [b \in Banks |-> TRUE]
  BY <1>1, FreshActionKnobs
<1> QED BY <1>1, <1>2

\* Negative feedback of the policies: if no bank is cooler at the second
\* reading, no knob is looser, for every policy, every layout and every
\* monotone DVFS table.
THEOREM HotterIsStricter ==
  ASSUME NEW policy \in PolicyNames,
         NEW s \in [Banks -> Int], NEW t \in [Banks -> Int],
         \A b \in Banks : s[b] <= t[b]
  PROVE  AtLeastAsStrict(Evaluate(policy, t, DTMAction),
                         Evaluate(policy, s, DTMAction))
<1> DEFINE TH(x) == ThrottlingEvaluate(x, DTMAction).throttle_factors
<1>1. \A b \in Banks : TH(t)[b] <= TH(s)[b]
  <2>1. CASE Span <= 0
    <3>1. /\ TH(t) = [b \in Banks |-> FullThrottle]
          /\ TH(s) = [b \in Banks |-> FullThrottle]
      BY <2>1 DEF ThrottlingEvaluate, DTMAction
    <3> QED BY <3>1 DEF FullThrottle
  <2>2. CASE Span > 0
    <3>1. ~ (Span <= 0)
      BY <2>2, ThresholdAssumption DEF Span
    <3>2. \A b \in Banks : /\ TH(t)[b] = ThrottleFactor(t[b])
                           /\ TH(s)[b] = ThrottleFactor(s[b])
      BY <3>1 DEF ThrottlingEvaluate, DTMAction
    <3>3. \A b \in Banks : ThrottleFactor(t[b]) <= ThrottleFactor(s[b])
      BY <2>2, ThrottleFactorFalls
    <3> QED BY <3>2, <3>3
  <2> QED BY <2>1, <2>2, ThresholdAssumption DEF Span
<1>2. /\ DVFS_FREQ_SCALE_FACTORS[DVFSLevel(t)] <= DVFS_FREQ_SCALE_FACTORS[DVFSLevel(s)]
      /\ DVFS_VOLTAGE_SCALE_FACTORS[DVFSLevel(t)] <= DVFS_VOLTAGE_SCALE_FACTORS[DVFSLevel(s)]
  BY DVFSMonotone, DVFSLevelRises, DVFSLevelMeaning
<1>3. BanksOf(HotChannels(s)) \subseteq BanksOf(HotChannels(t))
  <2>1. HotChannels(s) \subseteq HotChannels(t)
    BY ChannelBanksAreBanks, ThresholdAssumption DEF HotChannels, Reaches
  <2> QED BY <2>1 DEF BanksOf
<1>4. PICK e, f : /\ e = Evaluate(policy, t, DTMAction)
                  /\ f = Evaluate(policy, s, DTMAction)
  OBVIOUS
<1> HIDE DEF TH
<1>5. \A b \in Banks : e.throttle_factors[b] <= f.throttle_factors[b]
  <2>1. CASE policy \in {"throttle", "composite"}
    <3>1. e.throttle_factors = TH(t) /\ f.throttle_factors = TH(s)
      BY <1>4, <2>1, FreshActionKnobs DEF TH
    <3> QED BY <1>1, <3>1
  <2>2. CASE policy \notin {"throttle", "composite"}
    <3>1. /\ e.throttle_factors = [b \in Banks |-> FullThrottle]
          /\ f.throttle_factors = [b \in Banks |-> FullThrottle]
      BY <1>4, <2>2, FreshActionKnobs
    <3> QED BY <3>1 DEF FullThrottle
  <2> QED BY <2>1, <2>2
<1>6. e.freq_scale <= f.freq_scale /\ e.voltage_scale <= f.voltage_scale
  <2>1. CASE policy \in {"dvfs", "composite"}
    <3>1. /\ e.freq_scale = DVFS_FREQ_SCALE_FACTORS[DVFSLevel(t)]
          /\ e.voltage_scale = DVFS_VOLTAGE_SCALE_FACTORS[DVFSLevel(t)]
      BY <1>4, <2>1, FreshActionKnobs, ZenonT(60)
    <3>2. /\ f.freq_scale = DVFS_FREQ_SCALE_FACTORS[DVFSLevel(s)]
          /\ f.voltage_scale = DVFS_VOLTAGE_SCALE_FACTORS[DVFSLevel(s)]
      BY <1>4, <2>1, FreshActionKnobs, ZenonT(60)
    <3> QED BY <1>2, <3>1, <3>2
  <2>2. CASE policy \notin {"dvfs", "composite"}
    <3>1. e.freq_scale = FullScale /\ e.voltage_scale = FullScale
      BY <1>4, <2>2, FreshActionKnobs, ZenonT(60)
    <3>2. f.freq_scale = FullScale /\ f.voltage_scale = FullScale
      BY <1>4, <2>2, FreshActionKnobs, ZenonT(60)
    <3> QED BY <3>1, <3>2 DEF FullScale
  <2> QED BY <2>1, <2>2
<1>7. \A b \in Banks : e.bank_active[b] => f.bank_active[b]
  <2>1. CASE policy \in {"lpm", "composite"}
    <3>1. /\ e.bank_active = [b \in Banks |-> b \notin BanksOf(HotChannels(t))]
          /\ f.bank_active = [b \in Banks |-> b \notin BanksOf(HotChannels(s))]
      BY <1>4, <2>1, FreshActionKnobs
    <3> QED BY <1>3, <3>1
  <2>2. CASE policy \notin {"lpm", "composite"}
    <3>1. f.bank_active = [b \in Banks |-> TRUE]
      BY <1>4, <2>2, FreshActionKnobs
    <3> QED BY <3>1
  <2> QED BY <2>1, <2>2
<1> QED BY <1>4, <1>5, <1>6, <1>7 DEF AtLeastAsStrict

\* A critical bank is gated by the low-power and the composite policy, and
\* throttled to nothing by the throttling policy.
THEOREM CriticalBankStopped ==
  ASSUME NEW policy \in PolicyNames, NEW x \in [Banks -> Int],
         NEW e, e = Evaluate(policy, x, DTMAction),
         NEW b \in Banks, x[b] >= CRITICAL_TEMP_C
  PROVE  /\ policy \in {"lpm", "composite"} => ~ e.bank_active[b]
         /\ policy = "throttle" /\ Span > 0 => e.throttle_factors[b] = 0
<1>1. ASSUME policy \in {"lpm", "composite"}
      PROVE  ~ e.bank_active[b]
  <2>1. e.bank_active = [c \in Banks |-> c \notin BanksOf(HotChannels(x))]
    BY <1>1, FreshActionKnobs
  <2>2. bank_to_channel(b) \in HotChannels(x)
    BY BankInItsChannel DEF HotChannels, Reaches
  <2>3. b \in BanksOf(HotChannels(x))
    BY <2>2, BankInItsChannel DEF BanksOf
  <2> QED BY <2>1, <2>3
<1>2. ASSUME policy = "throttle", Span > 0
      PROVE  e.throttle_factors[b] = 0
  <2>1. ~ (Span <= 0)
    BY <1>2, ThresholdAssumption DEF Span
  <2>2. e.throttle_factors = [c \in Banks |-> ThrottleFactor(x[c])]
    <3>1. e = ThrottlingEvaluate(x, DTMAction)
      BY <1>2 DEF Evaluate
    <3> QED BY <2>1, <3>1 DEF ThrottlingEvaluate, DTMAction
  <2> QED BY <2>2 DEF ThrottleFactor
<1> QED BY <1>1, <1>2

-----------------------------------------------------------------------------
(* Type correctness *)

\* Inside an interval the loop variable is below its bound and the power row
\* on disk is that of this interval.
InInterval ==
  phase \in {"hotspot", "propagate", "dtm"} =>
    step < Iterations /\ power_trace.at = Interval

\* TypeOK is not inductive by itself: a step that closes an interval adds one
\* to step, and a step that propagates files appends power_trace.at.
TypeInv == TypeOK /\ InInterval

\* Readings are functions from banks to integers.
LEMMA TempsAreIntegers ==
  /\ BankTemps \subseteq [Banks -> Int]
  /\ [Banks -> BankTemp] \subseteq [Banks -> Int]
<1>1. Temps \subseteq Int /\ Ambient \in Int
  BY PipelineAssumption
<1>2. BankTemp \subseteq Int
  BY <1>1 DEF BankTemp
<1> QED BY <1>1, <1>2 DEF BankTemps

\* What the leakage model assumes before the first reading is a temperature.
LEMMA AmbientType == [b \in Banks |-> Ambient] \in [Banks -> BankTemp]
BY DEF BankTemp

\* A reading, taken from a row or from a trace without one, has its type.
LEMMA ReadingType ==
  ASSUME TypeOK, phase \in {"propagate", "dtm"}
  PROVE  get_bank_temperatures \in [Banks -> BankTemp]
<1>1. CASE temperature = HeaderRow
  BY <1>1 DEF get_bank_temperatures, ZeroTemps, BankTemp
<1>2. CASE temperature # HeaderRow
  <2>1. temperature.row \in BankTemps
    BY <1>2 DEF TypeOK
  <2> QED BY <1>2, <2>1 DEF get_bank_temperatures, BankTemps, BankTemp
<1> QED BY <1>1, <1>2

\* The name of the current interval is in range.
LEMMA IntervalType ==
  ASSUME run \in 0 .. MaxRuns, step \in 0 .. Iterations
  PROVE  Interval \in Intervals
BY DEF Interval, Intervals

\* A history trace with one more row is a history trace.
LEMMA AppendRow ==
  ASSUME NEW s \in Rows, NEW x \in Intervals \cup {Header}
  PROVE  Append(s, x) \in Rows
BY DEF Rows

\* The part of TypeOK about the knobs.
KnobsType(k) ==
  /\ k.throttle_factors \in [Banks -> 0 .. FullThrottle]
  /\ k.freq_scale \in Nat /\ k.voltage_scale \in Nat
  /\ k.bank_active \in [Banks -> BOOLEAN]

\* The knobs taken over from an action have their type.
LEMMA KnobsOfType ==
  ASSUME NEW action \in DTMActions
  PROVE  KnobsType(KnobsOf(action))
BY DEF KnobsType, KnobsOf, DTMActions

\* A new runner on an empty directory satisfies the type invariant.
LEMMA TypeInit == Init => TypeInv
<1> SUFFICES ASSUME Init PROVE TypeInv
  OBVIOUS
<1>1. KnobsType(NominalKnobs)
  BY DTMActionType, KnobsOfType DEF NominalKnobs
<1>2. << >> \in Rows
  BY DEF Rows
<1>3. bank_temps_c \in [Banks -> BankTemp]
  BY AmbientType DEF Init, NewRunner
<1>4. 0 \in 0 .. Iterations /\ 0 \in 0 .. MaxRuns
  BY PipelineAssumption
<1> QED BY <1>1, <1>2, <1>3, <1>4
        DEF Init, NewRunner, TypeInv, TypeOK, InInterval, KnobsType, Phases, PolicyNames

\* Every step of the pipeline keeps the type invariant.
LEMMA TypeNext == TypeInv /\ [Next]_vars => TypeInv'
<1> SUFFICES ASSUME TypeInv, [Next]_vars PROVE TypeInv'
  OBVIOUS
<1> USE DEF TypeInv, TypeOK, InInterval, Phases
<1>1. ASSUME NEW p \in PolicyNames, set_dtm_policy(p) PROVE TypeInv'
  BY <1>1 DEF set_dtm_policy, files, ghosts, traces, Interval
<1>2. CASE Setup
  <2>1. << >> \in Rows
    BY DEF Rows
  <2> QED BY <1>2, <2>1, PipelineAssumption DEF Setup, Interval
<1>3. CASE ComputePower
  <2>1. full_power' \in Rows
    BY <1>3, IntervalType, AppendRow DEF ComputePower
  <2>2. PICK row : power_trace' = [at |-> Interval, row |-> row]
    BY <1>3 DEF ComputePower
  <2> QED BY <1>3, <2>1, <2>2 DEF ComputePower, ghosts, Interval
<1>4. CASE Finish
  BY <1>4 DEF Finish, files, ghosts, traces, Interval
<1>5. CASE HotSpotSucceeds
  BY <1>5 DEF HotSpotSucceeds, traces, ghosts, Interval
<1>6. CASE HotSpotFails
  BY <1>6, PipelineAssumption DEF HotSpotFails, NextInterval, traces, ghosts, Interval
<1>7. CASE Propagate
  <2>1. Interval \in Intervals
    BY IntervalType
  <2>2. temperature.at \in {Interval, Header} /\ power_trace.at = Interval
    BY <1>7 DEF Propagate, HeaderRow
  <2>3. full_temperature' \in Rows /\ full_power' \in Rows /\ full_totalpower' \in Rows
    BY <1>7, <2>1, <2>2, AppendRow DEF Propagate
  <2> QED BY <1>7, <2>3 DEF Propagate, Interval
<1>8. CASE ApplyDTM
  <2>1. get_bank_temperatures \in [Banks -> BankTemp]
    BY <1>8, ReadingType DEF ApplyDTM
  <2>2. Evaluate(dtm_policy, get_bank_temperatures, DTMAction) \in DTMActions
    BY <2>1, TempsAreIntegers, DTMActionType, EvaluateType
  <2>3. KnobsType(knobs')
    BY <1>8, <2>2, KnobsOfType DEF ApplyDTM, apply_action
  <2> QED BY <1>8, <2>1, <2>3, PipelineAssumption
          DEF ApplyDTM, NextInterval, traces, KnobsType, Interval
<1>9. CASE NewProcess
  <2>1. KnobsType(knobs')
    BY <1>9, DTMActionType, KnobsOfType DEF NewProcess, NominalKnobs
  <2> QED BY <1>9, <2>1, AmbientType, PipelineAssumption
          DEF NewProcess, traces, KnobsType, PolicyNames, Interval
<1>10. CASE UNCHANGED vars
  BY <1>10 DEF vars, runner, files, traces, ghosts, Interval
<1>11. CASE HotSpotEndsEarly
  BY <1>11 DEF HotSpotEndsEarly, traces, ghosts, Interval
<1> QED BY <1>1, <1>2, <1>3, <1>4, <1>5, <1>6, <1>7, <1>8, <1>9, <1>10, <1>11 DEF Next, Loop

\* Type correctness of the pipeline, for every number of banks, iterations
\* and runs: in particular throttle factors never leave [0, 1], which
\* _apply_throttle relies on.
THEOREM TypeCorrect == Spec => []TypeOK
<1>1. TypeInv => TypeOK
  BY DEF TypeInv
<1> QED BY TypeInit, TypeNext, <1>1, PTL DEF Spec

-----------------------------------------------------------------------------
(* Knobs and readings *)

\* A new runner has the knobs the empty composite policy gives.
LEMMA KnobsInit == Init => KnobsFollowReading
BY DEF Init, NewRunner, NominalKnobs, KnobsFollowReading, Evaluate

\* Every step keeps knobs, reading and deciding policy together.
LEMMA KnobsNext == KnobsFollowReading /\ [Next]_vars => KnobsFollowReading'
<1> SUFFICES ASSUME KnobsFollowReading, [Next]_vars PROVE KnobsFollowReading'
  OBVIOUS
<1> USE DEF KnobsFollowReading
<1>1. CASE UNCHANGED <<knobs, bank_temps_c, decidedBy>>
  BY <1>1
<1>2. CASE ApplyDTM
  BY <1>2 DEF ApplyDTM, apply_action
<1>3. CASE NewProcess
  BY <1>3 DEF NewProcess, NominalKnobs, Evaluate
<1>4. ASSUME NEW p \in PolicyNames, set_dtm_policy(p)
      PROVE  UNCHANGED <<knobs, bank_temps_c, decidedBy>>
  BY <1>4 DEF set_dtm_policy, ghosts
<1>5. ASSUME \/ Setup \/ ComputePower \/ Finish \/ HotSpotSucceeds
             \/ HotSpotEndsEarly \/ HotSpotFails \/ Propagate \/ UNCHANGED vars
      PROVE  UNCHANGED <<knobs, bank_temps_c, decidedBy>>
  BY <1>5 DEF Setup, ComputePower, Finish, HotSpotSucceeds, HotSpotEndsEarly,
              HotSpotFails, Propagate, vars, runner, ghosts
<1> QED BY <1>1, <1>2, <1>3, <1>4, <1>5 DEF Next, Loop

\* The knobs and the leakage model always work from the same reading, through
\* failed intervals, policy changes and restarts (PipelineRunner.run).
THEOREM KnobsCorrect == Spec => []KnobsFollowReading
BY KnobsInit, KnobsNext, PTL DEF Spec

\* From one reading to the next, if no bank became cooler then no knob is
\* loosened (the evaluate methods as PipelineRunner.run calls them). The
\* action property follows from the two invariants in both states.
THEOREM NegativeFeedback == Spec => HotterNeverLoosens
<1>1. ASSUME TypeOK, TypeOK', KnobsFollowReading, KnobsFollowReading',
             decidedBy' = decidedBy,
             \A b \in Banks : bank_temps_c'[b] >= bank_temps_c[b]
      PROVE  AtLeastAsStrict(knobs', knobs)
  <2>1. bank_temps_c \in [Banks -> Int] /\ bank_temps_c' \in [Banks -> Int]
    BY <1>1, TempsAreIntegers DEF TypeOK
  <2>2. decidedBy \in PolicyNames
    BY <1>1 DEF TypeOK
  <2>3. \A b \in Banks : bank_temps_c[b] <= bank_temps_c'[b]
    BY <1>1, <2>1
  <2>4. AtLeastAsStrict(Evaluate(decidedBy, bank_temps_c', DTMAction),
                        Evaluate(decidedBy, bank_temps_c, DTMAction))
    BY <2>1, <2>2, <2>3, HotterIsStricter
  <2>5. /\ knobs = KnobsOf(Evaluate(decidedBy, bank_temps_c, DTMAction))
        /\ knobs' = KnobsOf(Evaluate(decidedBy, bank_temps_c', DTMAction))
    BY <1>1 DEF KnobsFollowReading
  <2> QED BY <2>4, <2>5 DEF AtLeastAsStrict, KnobsOf
<1>2. TypeOK /\ TypeOK' /\ KnobsFollowReading /\ KnobsFollowReading'
        => [ /\ decidedBy' = decidedBy
             /\ \A b \in Banks : bank_temps_c'[b] >= bank_temps_c[b]
             => AtLeastAsStrict(knobs', knobs) ]_vars
  BY <1>1
<1> QED BY TypeCorrect, KnobsCorrect, <1>2, PTL DEF HotterNeverLoosens

-----------------------------------------------------------------------------
(* Critical banks *)

\* _apply_throttle with a factor of 0 leaves no access.
LEMMA ThrottledToZero ==
  ASSUME NEW n \in Nat
  PROVE  (n * 0) \div FullThrottle = 0
BY DEF FullThrottle

\* Every step keeps critical banks quiet: only ComputePower writes a power
\* row, from the knobs KnobsFollowReading describes.
LEMMA QuietNext ==
  TypeInv /\ KnobsFollowReading /\ CriticalBankIsQuiet /\ [Next]_vars
    => CriticalBankIsQuiet'
<1> SUFFICES ASSUME TypeInv, KnobsFollowReading, CriticalBankIsQuiet, [Next]_vars
             PROVE  CriticalBankIsQuiet'
  OBVIOUS
<1>1. CASE phase' # "hotspot"
  BY <1>1 DEF CriticalBankIsQuiet
<1>2. CASE UNCHANGED <<phase, decidedBy, bank_temps_c, power_trace>>
  BY <1>2 DEF CriticalBankIsQuiet
<1>3. CASE ComputePower
  <2>1. SUFFICES ASSUME \/ decidedBy \in {"lpm", "composite"}
                        \/ decidedBy = "throttle" /\ Span > 0,
                        NEW b \in Banks, bank_temps_c[b] >= CRITICAL_TEMP_C
                 PROVE  power_trace'.row[b].dynamic = 0
    BY <1>3 DEF ComputePower, CriticalBankIsQuiet, ghosts
  <2>2. PICK trace \in get_access_trace :
          power_trace' = [at |-> Interval,
                          row |-> compute_power_trace(apply_throttle(trace.reads),
                                                      apply_throttle(trace.writes))]
    BY <1>3 DEF ComputePower
  <2>3. trace.reads[b] \in Nat /\ trace.writes[b] \in Nat
    BY PipelineAssumption DEF get_access_trace, Traces, Idle
  <2>4. PICK e : /\ e = Evaluate(decidedBy, bank_temps_c, DTMAction)
                 /\ knobs = KnobsOf(e)
    BY DEF KnobsFollowReading
  <2>5. /\ knobs.bank_active = e.bank_active
        /\ knobs.throttle_factors = e.throttle_factors
    BY <2>4 DEF KnobsOf
  <2>6. bank_temps_c \in [Banks -> Int] /\ decidedBy \in PolicyNames
    BY TempsAreIntegers DEF TypeInv, TypeOK
  <2>7. \/ ~ knobs.bank_active[b]
        \/ knobs.throttle_factors[b] = 0
    BY <2>1, <2>4, <2>5, <2>6, CriticalBankStopped
  <2>8. CASE ~ knobs.bank_active[b]
    BY <2>2, <2>8 DEF compute_power_trace
  <2>9. CASE knobs.throttle_factors[b] = 0
    <3>1. /\ apply_throttle(trace.reads)[b] = 0
          /\ apply_throttle(trace.writes)[b] = 0
      BY <2>3, <2>9, ThrottledToZero DEF apply_throttle
    <3>2. dvfs_dynamic \in Nat
      BY DEF dvfs_dynamic, TypeInv, TypeOK
    <3>3. (0 * ReadEnergy + 0 * WriteEnergy) * dvfs_dynamic = 0
      BY <3>2 DEF ReadEnergy, WriteEnergy
    <3> QED BY <2>2, <3>1, <3>3 DEF compute_power_trace
  <2> QED BY <2>7, <2>8, <2>9
<1>4. ASSUME NEW p \in PolicyNames, set_dtm_policy(p)
      PROVE  UNCHANGED <<phase, decidedBy, bank_temps_c, power_trace>>
  BY <1>4 DEF set_dtm_policy, files, ghosts
<1>5. ASSUME UNCHANGED vars
      PROVE  UNCHANGED <<phase, decidedBy, bank_temps_c, power_trace>>
  BY <1>5 DEF vars, runner, files, ghosts
<1>6. ASSUME \/ Setup \/ Finish \/ HotSpotSucceeds \/ HotSpotEndsEarly
             \/ HotSpotFails \/ Propagate \/ ApplyDTM \/ NewProcess
      PROVE  phase' # "hotspot"
  BY <1>6 DEF Setup, Finish, HotSpotSucceeds, HotSpotEndsEarly, HotSpotFails, Propagate,
              ApplyDTM, NewProcess, NextInterval
<1> QED BY <1>1, <1>2, <1>3, <1>4, <1>5, <1>6 DEF Next, Loop

\* A bank that was critical at the last reading draws no dynamic power in the
\* row handed to HotSpot, under every policy that stops banks
\* (_apply_throttle and compute_power_trace).
THEOREM CriticalQuiet == Spec => []CriticalBankIsQuiet
<1>1. Init => CriticalBankIsQuiet
  BY DEF Init, NewRunner, CriticalBankIsQuiet
<1> QED BY <1>1, TypeInit, TypeNext, KnobsInit, KnobsNext, QuietNext, PTL DEF Spec

-----------------------------------------------------------------------------
(* The initial thermal state *)

\* The name of an interval is neither a missing file nor a header line.
LEMMA IntervalIsAFile == Interval # NoFile /\ Interval # Header
BY DEF Interval, NoFile, Header

\* Bank states are no missing file.
LEMMA BankStateIsAFile ==
  ASSUME NEW active \in [Banks -> BOOLEAN]
  PROVE  active # NoFile
<1>1. DOMAIN active = Banks /\ 0 \in Banks
  BY LayoutAssumption, SMT DEF Banks, NumBanks, Half
<1>2. 0 \notin DOMAIN NoFile
  BY DEF NoFile
<1> QED BY <1>1, <1>2

\* Where the initial thermal state of this interval comes from.
KnownState == init_file = IF lastGood # NoFile THEN lastGood ELSE External

\* The strengthening of StartsFromKnownState for a board that ships a
\* mem.init.  A process that stays where it was finds no dump HotSpot could
\* not have written from there: with a dump on disk there is a
\* BankStateData.txt, and HotSpot does not end early.
InitFileInv ==
  ~ moved =>
    /\ all_transient # NoFile => HotSpotReads
    /\ phase # "idle" => KnownState
    /\ phase = "propagate" =>
         IF temperature = HeaderRow THEN all_transient = NoFile
                                   ELSE all_transient = Interval

\* What a stopped child leaves behind keeps the first conjunct.
LEMMA ChildStoppedKeepsDump ==
  ASSUME all_transient # NoFile => HotSpotReads, ChildStopped
  PROVE  all_transient' # NoFile => HotSpotReads
BY DEF ChildStopped

\* Every step keeps the invariant on the initial-state file.
LEMMA InitFileNext ==
  ASSUME ExternalInit
  PROVE  TypeInv /\ InitFileInv /\ [Next]_vars => InitFileInv'
<1> SUFFICES ASSUME TypeInv, InitFileInv, [Next]_vars, ~ moved'
             PROVE  /\ all_transient' # NoFile => HotSpotReads'
                    /\ phase' # "idle" => KnownState'
                    /\ phase' = "propagate" =>
                         IF temperature' = HeaderRow THEN all_transient' = NoFile
                                                    ELSE all_transient' = Interval'
  BY DEF InitFileInv
<1>1. ~ moved
  <2>1. moved' = moved \/ moved' = (moved \/ cwd' # cwd)
    BY DEF Next, Loop, set_dtm_policy, Setup, ComputePower, Finish, HotSpotSucceeds,
           HotSpotEndsEarly, HotSpotFails, Propagate, ApplyDTM, NewProcess, vars, ghosts
  <2> QED BY <2>1
<1>2. /\ all_transient # NoFile => HotSpotReads
      /\ phase # "idle" => KnownState
      /\ phase = "propagate" =>
           IF temperature = HeaderRow THEN all_transient = NoFile
                                     ELSE all_transient = Interval
  BY <1>1 DEF InitFileInv
<1>3. ASSUME NEW p \in PolicyNames, set_dtm_policy(p)
      PROVE  /\ all_transient' # NoFile => HotSpotReads'
             /\ phase' = "idle"
  BY <1>2, <1>3 DEF set_dtm_policy, files, HotSpotReads
<1>4. CASE Setup
  BY <1>2, <1>4 DEF Setup, SetupInit, HotSpotReads, KnownState
<1>5. CASE ComputePower
  BY <1>2, <1>5 DEF ComputePower, ghosts, HotSpotReads, KnownState
<1>6. CASE Finish
  BY <1>2, <1>6 DEF Finish, files, HotSpotReads
<1>7. CASE HotSpotSucceeds
  <2>1. temperature' # HeaderRow
    BY <1>7, IntervalIsAFile DEF HotSpotSucceeds, HeaderRow
  <2> QED BY <1>2, <1>7, <2>1 DEF HotSpotSucceeds, ghosts, HotSpotReads, KnownState, Interval
<1>8. CASE HotSpotEndsEarly
  BY <1>2, <1>8 DEF HotSpotEndsEarly, ghosts, HotSpotReads, KnownState
<1>9. CASE HotSpotFails
  <2>1. all_transient' # NoFile => HotSpotReads
    BY <1>2, <1>9, ChildStoppedKeepsDump DEF HotSpotFails
  <2> QED BY <1>2, <1>9, <2>1 DEF HotSpotFails, NextInterval, ghosts, HotSpotReads, KnownState
<1>10. CASE Propagate
  BY <1>2, <1>10, IntervalIsAFile DEF Propagate, HotSpotReads, KnownState
<1>11. CASE ApplyDTM
  <2>1. knobs' = KnobsOf(Evaluate(dtm_policy, get_bank_temperatures, DTMAction))
    BY <1>11 DEF ApplyDTM, apply_action
  <2>2. TypeInv'
    BY TypeNext
  <2>3. bank_state' # NoFile
    BY <1>11, <2>2, BankStateIsAFile DEF ApplyDTM, write_bank_state, TypeInv, TypeOK
  <2> QED BY <1>2, <1>11, <2>3 DEF ApplyDTM, NextInterval, HotSpotReads, KnownState
<1>12. CASE NewProcess
  <2>1. cwd' = cwd /\ phase' = "idle" /\ (all_transient' # NoFile => HotSpotReads)
    <3>1. CASE phase = "hotspot"
      BY <1>2, <1>12, <3>1, ChildStoppedKeepsDump DEF NewProcess
    <3>2. CASE phase # "hotspot"
      BY <1>2, <1>12, <3>2 DEF NewProcess
    <3> QED BY <3>1, <3>2
  <2>2. bank_state' = bank_state \/ bank_state' = << >>
    BY <1>12 DEF NewProcess
  <2>3. << >> # NoFile
    BY DEF NoFile
  <2> QED BY <2>1, <2>2, <2>3 DEF HotSpotReads
<1>13. CASE UNCHANGED vars
  BY <1>2, <1>13 DEF vars, runner, files, ghosts, Interval, HotSpotReads, KnownState
<1> QED BY <1>3, <1>4, <1>5, <1>6, <1>7, <1>8, <1>9, <1>10, <1>11, <1>12, <1>13
        DEF Next, Loop

\* On a board that ships a mem.init, and as long as the processes that use a
\* directory are started in one place, HotSpot always starts from the last
\* state of this run or from the board's, whatever was killed, failed or
\* ended without a dump before (HotSpotInterface.setup and run). Without a
\* mem.init, or with a process that moved, it does not hold.
THEOREM KnownInitialState ==
  ASSUME ExternalInit
  PROVE  Spec => []StartsFromKnownState
<1>1. Init => InitFileInv
  BY DEF Init, NewRunner, InitFileInv
<1>2. InitFileInv => StartsFromKnownState
  BY DEF InitFileInv, KnownState, StartsFromKnownState
<1> QED BY <1>1, <1>2, TypeInit, TypeNext, InitFileNext, PTL DEF Spec

-----------------------------------------------------------------------------
(* History and bank-state file *)

\* What _record_history appends.
HistoryEntries ==
  [at : Intervals, ok : BOOLEAN, zero : BOOLEAN, lpm : SUBSET Channels]

\* BankStateFollowsKnobs with the type of the history.
BankStateInv == history \in Seq(HistoryEntries) /\ BankStateFollowsKnobs

\* _record_history appends an entry, with the outcome it is given.
LEMMA HistoryEntryType ==
  ASSUME TypeOK, NEW ok \in BOOLEAN, NEW temps, NEW k
  PROVE  HistoryEntry(ok, temps, k) \in HistoryEntries /\ HistoryEntry(ok, temps, k).ok = ok
<1>1. Interval \in Intervals
  BY IntervalType DEF TypeOK
<1> QED BY <1>1 DEF HistoryEntry, HistoryEntries, lpm_channels

\* Every step keeps the bank-state file in line with the knobs.
LEMMA BankStateNext == TypeInv /\ BankStateInv /\ [Next]_vars => BankStateInv'
<1> SUFFICES ASSUME TypeInv, BankStateInv, [Next]_vars PROVE BankStateInv'
  OBVIOUS
<1> USE DEF BankStateInv, BankStateFollowsKnobs
<1>1. CASE UNCHANGED <<history, bank_state, knobs>>
  BY <1>1
<1>2. CASE HotSpotFails
  <2>1. PICK e \in HistoryEntries : ~ e.ok /\ history' = Append(history, e)
    <3>1. history' = Append(history, HistoryEntry(FALSE, FailedTemps, knobs))
      BY <1>2 DEF HotSpotFails
    <3>2. /\ HistoryEntry(FALSE, FailedTemps, knobs) \in HistoryEntries
          /\ HistoryEntry(FALSE, FailedTemps, knobs).ok = FALSE
      BY HistoryEntryType DEF TypeInv
    <3> QED BY <3>1, <3>2
  <2>2. history' \in Seq(HistoryEntries)
    BY <2>1
  <2>3. \A i \in DOMAIN history' : history'[i].ok =>
          i \in DOMAIN history /\ history'[i] = history[i]
    BY <2>1
  <2> QED BY <1>2, <2>2, <2>3 DEF HotSpotFails
<1>3. CASE ApplyDTM
  <2>1. history' \in Seq(HistoryEntries)
    <3>1. PICK t, k : history' = Append(history, HistoryEntry(TRUE, t, k))
      BY <1>3 DEF ApplyDTM
    <3>2. HistoryEntry(TRUE, t, k) \in HistoryEntries
      BY HistoryEntryType DEF TypeInv
    <3>3. PICK e \in HistoryEntries : history' = Append(history, e)
      BY <3>1, <3>2
    <3> QED BY <3>3
  <2> QED BY <1>3, <2>1 DEF ApplyDTM, write_bank_state
<1>4. CASE NewProcess
  BY <1>4 DEF NewProcess
<1>5. ASSUME NEW p \in PolicyNames, set_dtm_policy(p)
      PROVE  UNCHANGED <<history, bank_state, knobs>>
  BY <1>5 DEF set_dtm_policy, files
<1>6. ASSUME \/ Setup \/ ComputePower \/ Finish \/ HotSpotSucceeds
             \/ HotSpotEndsEarly \/ Propagate \/ UNCHANGED vars
      PROVE  UNCHANGED <<history, bank_state, knobs>>
  BY <1>6 DEF Setup, ComputePower, Finish, HotSpotSucceeds, HotSpotEndsEarly,
              Propagate, vars, runner, files
<1> QED BY <1>1, <1>2, <1>3, <1>4, <1>5, <1>6 DEF Next, Loop

\* Once the runner has had a reading, BankStateData.txt names the active
\* banks, also after intervals that failed and wrote no file
\* (_write_bank_state).
THEOREM BankStateCorrect == Spec => []BankStateFollowsKnobs
<1>1. Init => BankStateInv
  BY DEF Init, NewRunner, BankStateInv, BankStateFollowsKnobs
<1>2. BankStateInv => BankStateFollowsKnobs
  BY DEF BankStateInv
<1> QED BY <1>1, <1>2, TypeInit, TypeNext, BankStateNext, PTL DEF Spec

\* The last entry of the history has the low-power channels of the current
\* knobs: a failed interval records the knobs it ran under.
LastEntryInv ==
  history # << >> =>
    history[Len(history)].lpm = lpm_channels(knobs.bank_active)

\* Every step keeps the last entry of the history current.
LEMMA LastEntryNext ==
  TypeInv /\ BankStateInv /\ LastEntryInv /\ [Next]_vars => LastEntryInv'
<1> SUFFICES ASSUME TypeInv, BankStateInv, LastEntryInv, [Next]_vars
             PROVE  LastEntryInv'
  OBVIOUS
<1>1. history \in Seq(HistoryEntries)
  BY DEF BankStateInv
<1>2. ASSUME NEW ok \in BOOLEAN, NEW t, NEW k,
             history' = Append(history, HistoryEntry(ok, t, k))
      PROVE  history'[Len(history')].lpm = lpm_channels(k.bank_active)
  <2>1. PICK e \in HistoryEntries : /\ e = HistoryEntry(ok, t, k)
                                    /\ history' = Append(history, e)
    BY <1>2, HistoryEntryType DEF TypeInv
  <2>2. e.lpm = lpm_channels(k.bank_active)
    BY <2>1 DEF HistoryEntry
  <2>3. history'[Len(history')] = e
    BY <1>1, <2>1
  <2> QED BY <2>2, <2>3
<1>3. CASE UNCHANGED <<history, knobs>>
  BY <1>3 DEF LastEntryInv, lpm_channels
<1>4. CASE HotSpotFails
  <2>1. history' = Append(history, HistoryEntry(FALSE, FailedTemps, knobs)) /\ knobs' = knobs
    BY <1>4 DEF HotSpotFails
  <2>2. history'[Len(history')].lpm = lpm_channels(knobs.bank_active)
    BY <1>2, <2>1
  <2> QED BY <2>1, <2>2 DEF LastEntryInv, lpm_channels
<1>5. CASE ApplyDTM
  <2>1. history' = Append(history, HistoryEntry(TRUE, bank_temps_c', knobs'))
    BY <1>5 DEF ApplyDTM
  <2>2. history'[Len(history')].lpm = lpm_channels(knobs'.bank_active)
    BY <1>2, <2>1
  <2> QED BY <2>2 DEF LastEntryInv, lpm_channels
<1>6. CASE NewProcess
  BY <1>6 DEF NewProcess, LastEntryInv
<1>7. ASSUME NEW p \in PolicyNames, set_dtm_policy(p)
      PROVE  UNCHANGED <<history, knobs>>
  BY <1>7 DEF set_dtm_policy
<1>8. ASSUME \/ Setup \/ ComputePower \/ Finish \/ HotSpotSucceeds
             \/ HotSpotEndsEarly \/ Propagate \/ UNCHANGED vars
      PROVE  UNCHANGED <<history, knobs>>
  BY <1>8 DEF Setup, ComputePower, Finish, HotSpotSucceeds, HotSpotEndsEarly, Propagate,
              vars, runner
<1> QED BY <1>3, <1>4, <1>5, <1>6, <1>7, <1>8 DEF Next, Loop

\* With the knobs given by the reading, the channels read off the first banks
\* are the channels of the critical banks.
LEMMA LowPowerExact ==
  TypeInv /\ KnobsFollowReading /\ LastEntryInv => LowPowerHistoryExact
<1> SUFFICES ASSUME TypeInv, KnobsFollowReading, LastEntryInv, history # << >>
             PROVE  LowPowerHistoryExact
  BY DEF LowPowerHistoryExact
<1>1. bank_temps_c \in [Banks -> Int] /\ decidedBy \in PolicyNames
  BY TempsAreIntegers DEF TypeInv, TypeOK
<1>2. PICK e : /\ e = Evaluate(decidedBy, bank_temps_c, DTMAction)
               /\ knobs.bank_active = e.bank_active
  BY DEF KnobsFollowReading, KnobsOf
<1>3. \A ch \in Channels : ch * ChannelWidth \in Banks
  BY FirstBankOfChannel, ChannelBanksAreBanks
<1>4. CASE decidedBy \in {"lpm", "composite"}
  <2>1. knobs.bank_active = [b \in Banks |-> b \notin BanksOf(HotChannels(bank_temps_c))]
    BY <1>1, <1>2, <1>4, GatedBanks
  <2>2. lpm_channels(knobs.bank_active) =
          {ch \in Channels : ch * ChannelWidth \in BanksOf(HotChannels(bank_temps_c))}
    BY <1>3, <2>1 DEF lpm_channels
  <2>3. lpm_channels(knobs.bank_active) = HotChannels(bank_temps_c)
    BY <2>2, FirstBankTellsChannel DEF HotChannels
  <2>4. history[Len(history)].lpm = HotChannels(bank_temps_c)
    BY <2>3 DEF LastEntryInv
  <2>5. HotChannels(bank_temps_c) =
          {bank_to_channel(b) : b \in {c \in Banks : bank_temps_c[c] >= CRITICAL_TEMP_C}}
    BY <1>1, HotChannelsAreCritical
  <2> QED BY <1>4, <2>4, <2>5 DEF LowPowerHistoryExact
<1>5. CASE decidedBy \notin {"lpm", "composite"}
  <2>1. knobs.bank_active = [b \in Banks |-> TRUE]
    BY <1>1, <1>2, <1>5, GatedBanks
  <2>2. lpm_channels(knobs.bank_active) = {}
    BY <1>3, <2>1 DEF lpm_channels
  <2> QED BY <1>5, <2>2 DEF LowPowerHistoryExact, LastEntryInv
<1> QED BY <1>4, <1>5

\* The low-power channels in the history are exactly the channels of the
\* critical banks, for every number of channels and channel width
\* (_record_history and LowPowerModePolicy against config.py).
THEOREM LowPowerHistoryCorrect == Spec => []LowPowerHistoryExact
<1>1. Init => BankStateInv /\ LastEntryInv
  BY DEF Init, NewRunner, BankStateInv, BankStateFollowsKnobs, LastEntryInv
<1> QED BY <1>1, TypeInit, TypeNext, KnobsInit, KnobsNext, BankStateNext,
           LastEntryNext, LowPowerExact, PTL DEF Spec

-----------------------------------------------------------------------------
(* History traces *)

\* The intervals of run r that history h has temperatures for.
Measured(h, r) == {h[i].at : i \in {i \in DOMAIN h : h[i].at[1] = r /\ ~ h[i].zero}}

LEMMA MeasuredIsMeasured == MeasuredIntervals = Measured(history, run)
BY DEF MeasuredIntervals, Measured

\* A later interval's row extends a trace in order.
LEMMA RowsAreAppend ==
  ASSUME NEW rows \in Rows, NEW x \in Intervals, NEW S,
         RowsAre(rows, S), \A y \in S : y[2] < x[2], x # Header
  PROVE  RowsAre(Append(rows, x), S \cup {x})
<1> DEFINE new == Append(rows, x)
           n == Len(rows)
<1>1. /\ n \in Nat /\ DOMAIN rows = 1 .. n /\ DOMAIN new = 1 .. n + 1
      /\ new[n + 1] = x /\ \A i \in 1 .. n : new[i] = rows[i]
  BY DEF Rows
<1>2. \A i \in 1 .. n : rows[i] = Header \/ rows[i] \in S
  BY <1>1 DEF RowsAre
<1> HIDE DEF new, n
<1>3. InOrder(new)
  <2> SUFFICES ASSUME NEW i \in 1 .. n + 1, NEW j \in 1 .. n + 1, i < j,
                      new[i] # Header, new[j] # Header
               PROVE  new[i][2] < new[j][2]
    BY <1>1 DEF InOrder
  <2>1. i \in 1 .. n
    BY <1>1
  <2>2. CASE j = n + 1
    BY <1>1, <1>2, <2>1, <2>2
  <2>3. CASE j # n + 1
    <3>1. j \in 1 .. n
      BY <1>1, <2>3
    <3> QED BY <1>1, <2>1, <3>1 DEF RowsAre, InOrder
  <2> QED BY <2>2, <2>3
<1>4. {new[i] : i \in DOMAIN new} \ {Header} = S \cup {x}
  <2>1. S = {rows[i] : i \in 1 .. n} \ {Header}
    BY <1>1 DEF RowsAre
  <2>2. 1 .. n + 1 = (1 .. n) \cup {n + 1}
    BY <1>1
  <2>3. \A y : y \in {new[i] : i \in DOMAIN new} <=>
                 (\E i \in 1 .. n : y = rows[i]) \/ y = x
    BY <1>1, <2>2
  <2> QED BY <2>1, <2>3
<1> QED BY <1>3, <1>4 DEF RowsAre, new

\* A header line in a trace is no row.
LEMMA RowsAreHeader ==
  ASSUME NEW rows \in Rows, NEW S, RowsAre(rows, S)
  PROVE  RowsAre(Append(rows, Header), S)
<1> DEFINE new == Append(rows, Header)
           n == Len(rows)
<1>1. /\ n \in Nat /\ DOMAIN rows = 1 .. n /\ DOMAIN new = 1 .. n + 1
      /\ new[n + 1] = Header /\ \A i \in 1 .. n : new[i] = rows[i]
  BY DEF Rows
<1> HIDE DEF new, n
<1>2. 1 .. n + 1 = (1 .. n) \cup {n + 1}
  BY <1>1
<1>3. InOrder(new)
  <2> SUFFICES ASSUME NEW i \in 1 .. n + 1, NEW j \in 1 .. n + 1, i < j,
                      new[i] # Header, new[j] # Header
               PROVE  new[i][2] < new[j][2]
    BY <1>1 DEF InOrder
  <2>1. i \in 1 .. n /\ j \in 1 .. n
    BY <1>1, <1>2
  <2> QED BY <1>1, <2>1 DEF RowsAre, InOrder
<1>4. {new[i] : i \in DOMAIN new} \ {Header} = S
  <2>1. S = {rows[i] : i \in 1 .. n} \ {Header}
    BY <1>1 DEF RowsAre
  <2>2. \A y : y \in {new[i] : i \in DOMAIN new} <=>
                 (\E i \in 1 .. n : y = rows[i]) \/ y = Header
    BY <1>1, <1>2
  <2> QED BY <2>1, <2>2
<1> QED BY <1>3, <1>4 DEF RowsAre, new

\* An entry names its interval by two numbers.
LEMMA EntryNumbers ==
  ASSUME NEW h \in Seq(HistoryEntries), NEW i \in DOMAIN h
  PROVE  h[i].at[1] \in Int /\ h[i].at[2] \in Int
<1>1. h[i] \in HistoryEntries
  OBVIOUS
<1>2. h[i].at \in Intervals
  BY <1>1 DEF HistoryEntries
<1> QED BY <1>2 DEF Intervals

\* An entry of the history adds its interval if it is of that run and has
\* temperatures.
LEMMA MeasuredAppend ==
  ASSUME NEW h \in Seq(HistoryEntries), NEW e \in HistoryEntries, NEW r
  PROVE  Measured(Append(h, e), r) =
           IF e.at[1] = r /\ ~ e.zero THEN Measured(h, r) \cup {e.at} ELSE Measured(h, r)
<1> DEFINE new == Append(h, e)
           n == Len(h)
<1>1. /\ n \in Nat /\ DOMAIN h = 1 .. n /\ DOMAIN new = 1 .. n + 1
      /\ new[n + 1] = e /\ \A i \in 1 .. n : new[i] = h[i]
  OBVIOUS
<1> HIDE DEF new, n
<1>2. 1 .. n + 1 = (1 .. n) \cup {n + 1} /\ n + 1 \notin 1 .. n
  BY <1>1
<1>3. \A y : y \in Measured(h, r) <=> \E i \in 1 .. n : y = h[i].at /\ h[i].at[1] = r /\ ~ h[i].zero
  BY <1>1 DEF Measured
<1>4. \A y : y \in Measured(new, r) <=>
               \/ \E i \in 1 .. n : y = h[i].at /\ h[i].at[1] = r /\ ~ h[i].zero
               \/ y = e.at /\ e.at[1] = r /\ ~ e.zero
  BY <1>1, <1>2 DEF Measured
<1> QED BY <1>3, <1>4 DEF new

\* The row of a trace is above zero; a trace without a row reads as zero.
LEMMA RowIsNotZero ==
  ASSUME TypeOK, phase \in {"propagate", "dtm"}
  PROVE  (get_bank_temperatures = ZeroTemps) = (temperature = HeaderRow)
<1>1. 0 \in Banks
  BY LayoutAssumption, SMT DEF Banks, NumBanks, Half
<1>2. ASSUME temperature # HeaderRow
      PROVE  temperature.row # ZeroTemps
  <2>1. temperature.row \in [Banks -> Temps]
    BY <1>2 DEF TypeOK, BankTemps
  <2>2. temperature.row[0] \in Temps /\ ZeroTemps[0] = 0
    BY <1>1, <2>1 DEF ZeroTemps
  <2> QED BY <2>2, PipelineAssumption
<1> QED BY <1>2 DEF get_bank_temperatures

\* The history is about intervals before the current one.
PastInv ==
  \A i \in DOMAIN history :
    /\ history[i].at[1] <= run
    /\ phase # "idle" /\ history[i].at[1] = run => history[i].at[2] < step

\* The interval whose row has just been written, if there was one.
NewRow == IF temperature = HeaderRow THEN {} ELSE {Interval}

\* TracesMatchHistory, with the moment between the row and its entry.
TracesInv ==
  /\ PastInv
  /\ phase \in {"step", "hotspot", "propagate"} =>
       /\ RowsAre(full_temperature, MeasuredIntervals)
       /\ RowsAre(full_totalpower, MeasuredIntervals)
  /\ phase = "dtm" =>
       /\ RowsAre(full_temperature, MeasuredIntervals \cup NewRow)
       /\ RowsAre(full_totalpower, MeasuredIntervals \cup NewRow)

\* An interval that has just been recorded is past when the next one begins.
LEMMA PastAppend ==
  ASSUME TypeInv, BankStateInv, PastInv, phase # "idle",
         NEW ok \in BOOLEAN, NEW t, NEW k,
         history' = Append(history, HistoryEntry(ok, t, k)), NextInterval, run' = run
  PROVE  PastInv'
<1>1. PICK e \in HistoryEntries : /\ e.at = <<run, step>>
                                  /\ history' = Append(history, e)
  <2>1. HistoryEntry(ok, t, k) \in HistoryEntries
    BY HistoryEntryType DEF TypeInv
  <2>2. HistoryEntry(ok, t, k).at = <<run, step>>
    BY DEF HistoryEntry, Interval
  <2> QED BY <2>1, <2>2
<1>2. history \in Seq(HistoryEntries) /\ run \in Nat /\ step \in Nat
  BY PipelineAssumption DEF BankStateInv, TypeInv, TypeOK
<1>3. e.at[1] = run /\ e.at[2] = step
  BY <1>1
<1>4. phase' = "step" /\ step' = step + 1
  BY DEF NextInterval
<1> SUFFICES ASSUME NEW i \in DOMAIN history'
             PROVE  /\ history'[i].at[1] <= run'
                    /\ history'[i].at[1] = run' => history'[i].at[2] < step'
  BY DEF PastInv
<1>5. CASE i \in DOMAIN history
  <2>1. history'[i] = history[i]
    BY <1>1, <1>2, <1>5
  <2>2. /\ history[i].at[1] <= run
        /\ history[i].at[1] = run => history[i].at[2] < step
    BY <1>5 DEF PastInv
  <2>3. history[i].at[2] \in Int
    BY <1>2, <1>5, EntryNumbers
  <2> QED BY <1>2, <1>4, <2>1, <2>2, <2>3
<1>6. CASE i \notin DOMAIN history
  <2>1. history'[i] = e
    BY <1>1, <1>2, <1>6
  <2> QED BY <1>2, <1>3, <1>4, <2>1
<1> QED BY <1>5, <1>6

\* Every step keeps the traces in line with the history.
LEMMA TracesNext ==
  TypeInv /\ BankStateInv /\ TracesInv /\ [Next]_vars => TracesInv'
<1> SUFFICES ASSUME TypeInv, BankStateInv, TracesInv, [Next]_vars
             PROVE  TracesInv'
  OBVIOUS
<1>1. history \in Seq(HistoryEntries) /\ run \in Nat /\ step \in Nat
  BY PipelineAssumption DEF BankStateInv, TypeInv, TypeOK
<1>2. \A i \in DOMAIN history : history[i].at[1] \in Int
  BY <1>1, EntryNumbers
<1>3. CASE Setup
  <2>1. /\ run' = run + 1 /\ history' = history /\ phase' = "step"
        /\ full_temperature' = << >> /\ full_totalpower' = << >>
    BY <1>3 DEF Setup
  <2>2. \A i \in DOMAIN history : history[i].at[1] <= run /\ history[i].at[1] # run + 1
    BY <1>1, <1>2 DEF TracesInv, PastInv
  <2>3. PastInv'
    BY <1>1, <1>2, <2>1, <2>2 DEF PastInv
  <2>4. MeasuredIntervals' = {}
    BY <2>1, <2>2 DEF MeasuredIntervals
  <2>5. RowsAre(<< >>, {})
    BY DEF RowsAre, InOrder
  <2> QED BY <2>1, <2>3, <2>4, <2>5 DEF TracesInv
<1>4. CASE Propagate
  <2>1. /\ phase = "propagate" /\ phase' = "dtm" /\ UNCHANGED <<run, step, history>>
        /\ full_temperature' = Append(full_temperature, temperature.at)
        /\ full_totalpower' = Append(full_totalpower, temperature.at)
        /\ temperature' = temperature
    BY <1>4 DEF Propagate
  <2>2. /\ Interval \in Intervals /\ Interval # Header
        /\ temperature # HeaderRow => temperature.at = Interval
        /\ temperature = HeaderRow => temperature.at = Header
    BY <2>1, IntervalType, IntervalIsAFile DEF TypeInv, TypeOK, HeaderRow
  <2>3. \A y \in MeasuredIntervals : y[2] < Interval[2]
    <3>1. Interval[2] = step
      BY DEF Interval
    <3>2. \A i \in DOMAIN history :
            history[i].at[1] = run => history[i].at[2] < step
      BY <2>1 DEF TracesInv, PastInv
    <3> QED BY <3>1, <3>2 DEF MeasuredIntervals
  <2>4. full_temperature \in Rows /\ full_totalpower \in Rows
    BY DEF TypeInv, TypeOK
  <2>5. RowsAre(full_temperature, MeasuredIntervals) /\ RowsAre(full_totalpower, MeasuredIntervals)
    BY <2>1 DEF TracesInv
  <2>6. /\ RowsAre(full_temperature', MeasuredIntervals \cup NewRow)
        /\ RowsAre(full_totalpower', MeasuredIntervals \cup NewRow)
    <3>1. CASE temperature = HeaderRow
      <4>1. MeasuredIntervals \cup NewRow = MeasuredIntervals
        BY <3>1 DEF NewRow
      <4> QED BY <2>1, <2>2, <2>4, <2>5, <3>1, <4>1, RowsAreHeader
    <3>2. CASE temperature # HeaderRow
      <4>1. NewRow = {Interval}
        BY <3>2 DEF NewRow
      <4> QED BY <2>1, <2>2, <2>3, <2>4, <2>5, <3>2, <4>1, RowsAreAppend
    <3> QED BY <3>1, <3>2
  <2>7. MeasuredIntervals' = MeasuredIntervals /\ NewRow' = NewRow
    BY <2>1 DEF MeasuredIntervals, NewRow, Interval
  <2>8. PastInv'
    BY <2>1 DEF TracesInv, PastInv
  <2> QED BY <2>1, <2>6, <2>7, <2>8 DEF TracesInv
<1>5. CASE HotSpotFails
  <2>1. /\ phase = "hotspot" /\ phase' = "step" /\ NextInterval /\ run' = run
        /\ UNCHANGED <<full_temperature, full_totalpower>>
        /\ history' = Append(history, HistoryEntry(FALSE, FailedTemps, knobs))
    BY <1>5 DEF HotSpotFails, NextInterval, traces, ghosts
  <2>2. PastInv'
    BY <2>1, PastAppend DEF TracesInv
  <2>3. PICK e \in HistoryEntries : e.zero /\ history' = Append(history, e)
    <3>1. HistoryEntry(FALSE, FailedTemps, knobs) \in HistoryEntries
      BY HistoryEntryType DEF TypeInv
    <3>2. HistoryEntry(FALSE, FailedTemps, knobs).zero = TRUE
      BY DEF HistoryEntry, FailedTemps
    <3> QED BY <2>1, <3>1, <3>2
  <2>4. Measured(history', run) = Measured(history, run)
    BY <1>1, <2>3, MeasuredAppend
  <2>5. MeasuredIntervals' = MeasuredIntervals
    BY <2>1, <2>4 DEF MeasuredIntervals, Measured
  <2> QED BY <2>1, <2>2, <2>5 DEF TracesInv
<1>6. CASE ApplyDTM
  <2>1. /\ phase = "dtm" /\ phase' = "step" /\ NextInterval /\ run' = run
        /\ UNCHANGED <<full_temperature, full_totalpower>>
    BY <1>6 DEF ApplyDTM, NextInterval, traces
  <2>2. PICK k : history' = Append(history, HistoryEntry(TRUE, get_bank_temperatures, k))
    BY <1>6 DEF ApplyDTM
  <2>3. PastInv'
    BY <2>1, <2>2, PastAppend DEF TracesInv
  <2>4. PICK e \in HistoryEntries :
          /\ e.zero = (temperature = HeaderRow) /\ e.at = Interval
          /\ history' = Append(history, e)
    <3>1. HistoryEntry(TRUE, get_bank_temperatures, k) \in HistoryEntries
      BY HistoryEntryType DEF TypeInv
    <3>2. /\ HistoryEntry(TRUE, get_bank_temperatures, k).at = Interval
          /\ HistoryEntry(TRUE, get_bank_temperatures, k).zero
               = (get_bank_temperatures = ZeroTemps)
      BY DEF HistoryEntry
    <3>3. (get_bank_temperatures = ZeroTemps) = (temperature = HeaderRow)
      BY <2>1, RowIsNotZero DEF TypeInv, get_bank_temperatures
    <3> QED BY <2>2, <3>1, <3>2, <3>3
  <2>5. e.at[1] = run
    BY <2>4 DEF Interval
  <2>6. Measured(history', run) = Measured(history, run) \cup NewRow
    BY <1>1, <2>4, <2>5, MeasuredAppend DEF NewRow
  <2>7. MeasuredIntervals' = MeasuredIntervals \cup NewRow
    BY <2>1, <2>6 DEF MeasuredIntervals, Measured
  <2> QED BY <2>1, <2>3, <2>7 DEF TracesInv
<1>7. CASE NewProcess
  <2>1. phase' = "idle" /\ history' = << >>
    BY <1>7 DEF NewProcess
  <2> QED BY <2>1 DEF TracesInv, PastInv
<1>8. ASSUME UNCHANGED <<history, run, step, full_temperature, full_totalpower>>,
             \/ phase' = phase /\ temperature' = temperature
             \/ phase' = "idle"
             \/ phase = "step" /\ phase' = "hotspot"
             \/ phase = "hotspot" /\ phase' = "propagate"
      PROVE  TracesInv'
  <2>1. /\ MeasuredIntervals' = MeasuredIntervals
        /\ temperature' = temperature => NewRow' = NewRow
    BY <1>8 DEF MeasuredIntervals, NewRow, Interval
  <2>2. PastInv'
    BY <1>8 DEF TracesInv, PastInv
  <2> QED BY <1>8, <2>1, <2>2 DEF TracesInv
<1>9. ASSUME NEW p \in PolicyNames, set_dtm_policy(p)
      PROVE  TracesInv'
  BY <1>8, <1>9 DEF set_dtm_policy, files, traces, ghosts
<1>10. CASE ComputePower
  BY <1>8, <1>10 DEF ComputePower, ghosts
<1>11. CASE HotSpotSucceeds
  BY <1>8, <1>11 DEF HotSpotSucceeds, traces, ghosts
<1>12. CASE Finish
  BY <1>8, <1>12 DEF Finish, files, traces, ghosts
<1>13. CASE UNCHANGED vars
  BY <1>8, <1>13 DEF vars, runner, files, traces, ghosts
<1>14. CASE HotSpotEndsEarly
  BY <1>8, <1>14 DEF HotSpotEndsEarly, traces, ghosts
<1> QED BY <1>3, <1>4, <1>5, <1>6, <1>7, <1>9, <1>10, <1>11, <1>12, <1>13, <1>14 DEF Next, Loop

\* The history traces on disk have one row for each interval the runner
\* recorded temperatures for, in order, for every number of intervals and runs,
\* whether a child failed, was killed or exited without a row, and wherever a
\* process was killed (HotSpotInterface.run, _record_history).
THEOREM TracesCorrect == Spec => []TracesMatchHistory
<1>1. Init => BankStateInv /\ TracesInv
  BY DEF Init, NewRunner, BankStateInv, BankStateFollowsKnobs, TracesInv, PastInv
<1>2. TracesInv => TracesMatchHistory
  BY DEF TracesInv, TracesMatchHistory
<1> QED BY <1>1, <1>2, TypeInit, TypeNext, BankStateNext, TracesNext, PTL DEF Spec

=============================================================================
