------------------------------ MODULE DTMPolicies ------------------------------
(***************************************************************************)
(* The dynamic thermal management policies of pipeline/dtm_policies.py as  *)
(* pure operators from bank temperatures and an action to an action, and   *)
(* the bank layout of pipeline/config.py they rely on.                     *)
(*                                                                         *)
(* Temperatures are integers.  Throttle factors are counted in ten         *)
(* thousandths (the code rounds them to four decimals), frequency and      *)
(* voltage scales in hundredths.  np.max(temps[banks]) >= x is written     *)
(* Reaches(temps, banks, x): some bank is at least x hot.                  *)
(***************************************************************************)
EXTENDS Integers, Sequences

CONSTANTS
  NumChannels,        \* NUM_CHANNELS (8 in the code)
  ChannelWidth,       \* banks of a channel in one half of the stack (8)
  THROTTLE_TEMP_C,    \* throttling starts here
  CRITICAL_TEMP_C,    \* accesses stop and channels enter low-power mode
  COOLDOWN_TEMP_C,    \* a channel in low-power mode may come back below this
  DVFS_TEMP_THRESHOLDS_C,
  DVFS_FREQ_SCALE_FACTORS,
  DVFS_VOLTAGE_SCALE_FACTORS

\* Banks are numbered half by half: the second half of the stack repeats the
\* channel pattern of the first (bank % 64 in the code).
Half == NumChannels * ChannelWidth
NumBanks == 2 * Half
Banks == 0 .. NumBanks - 1
Channels == 0 .. NumChannels - 1
Levels == 1 .. Len(DVFS_TEMP_THRESHOLDS_C)

ASSUME LayoutAssumption ==
  /\ NumChannels \in Nat \ {0}
  /\ ChannelWidth \in Nat \ {0}

ASSUME ThresholdAssumption ==
  /\ THROTTLE_TEMP_C \in Int
  /\ CRITICAL_TEMP_C \in Int
  /\ COOLDOWN_TEMP_C \in Int

ASSUME DVFSAssumption ==
  /\ DVFS_TEMP_THRESHOLDS_C \in Seq(Int)
  /\ DVFS_TEMP_THRESHOLDS_C # << >>
  /\ DVFS_FREQ_SCALE_FACTORS \in [Levels -> Nat]
  /\ DVFS_VOLTAGE_SCALE_FACTORS \in [Levels -> Nat]

\* A deeper level never runs faster or at a higher voltage: what makes the
\* table a thermal-management table at all.
ASSUME DVFSMonotone ==
  \A i, j \in Levels : i <= j =>
    /\ DVFS_FREQ_SCALE_FACTORS[j] <= DVFS_FREQ_SCALE_FACTORS[i]
    /\ DVFS_VOLTAGE_SCALE_FACTORS[j] <= DVFS_VOLTAGE_SCALE_FACTORS[i]

-----------------------------------------------------------------------------
(* The bank layout *)

bank_to_channel(bank) == (bank % Half) \div ChannelWidth

\* Mutant: the second half of the stack is forgotten.
channel_to_banks_half(channel) ==
  LET start == channel * ChannelWidth
  IN  start .. start + ChannelWidth - 1

channel_to_banks(channel) ==
  LET start == channel * ChannelWidth
  IN  (start .. start + ChannelWidth - 1)
        \cup (start + Half .. start + Half + ChannelWidth - 1)

-----------------------------------------------------------------------------
(* Actions *)

FullThrottle == 10000          \* a throttle factor of 1.0
FullScale == 100               \* a frequency or voltage scale of 1.0

DTMAction ==
  [ throttle_factors |-> [b \in Banks |-> FullThrottle],
    freq_scale       |-> FullScale,
    voltage_scale    |-> FullScale,
    bank_active      |-> [b \in Banks |-> TRUE],
    lpm_channels     |-> {} ]

DTMActions ==
  [ throttle_factors : [Banks -> 0 .. FullThrottle],
    freq_scale       : Nat,
    voltage_scale    : Nat,
    bank_active      : [Banks -> BOOLEAN],
    lpm_channels     : SUBSET Channels ]

Reaches(temps, banks, x) == \E b \in banks : temps[b] >= x

-----------------------------------------------------------------------------
(* ThrottlingPolicy *)

Span == CRITICAL_TEMP_C - THROTTLE_TEMP_C

\* Mutant: the complement to 1 is forgotten.
LinearFactorRising(t) ==
  (2 * FullThrottle * (t - THROTTLE_TEMP_C) + Span) \div (2 * Span)

\* 1 - (t - throttle) / span, rounded to four decimals (a tie goes up here,
\* to the even neighbour in Python: a matter of 0.0001); t is strictly below
\* the critical temperature, so the max(factor, 0.0) never bites.
LinearFactor(t) ==
  (2 * FullThrottle * (CRITICAL_TEMP_C - t) + Span) \div (2 * Span)

\* Mutant: no cut-off at the critical temperature.
ThrottleFactorNoCutOff(t) ==
  IF t >= THROTTLE_TEMP_C THEN LinearFactor(t) ELSE FullThrottle

ThrottleFactor(t) ==
  IF t >= CRITICAL_TEMP_C THEN 0
  ELSE IF t >= THROTTLE_TEMP_C THEN LinearFactor(t)
  ELSE FullThrottle

ThrottlingEvaluate(temps, action) ==
  IF Span <= 0
  THEN action
  ELSE [action EXCEPT !.throttle_factors =
          [b \in Banks |-> ThrottleFactor(temps[b])]]

-----------------------------------------------------------------------------
(* DVFSPolicy *)

\* The loop walks the table from its last entry and stops at the first
\* threshold the peak reaches; with none reached the first entry applies.
DVFSLevel(temps) ==
  LET reached == {i \in Levels :
                    Reaches(temps, Banks, DVFS_TEMP_THRESHOLDS_C[i])}
  IN  IF reached = {} THEN 1
      ELSE CHOOSE i \in reached : \A j \in reached : j <= i

DVFSEvaluate(temps, action) ==
  [action EXCEPT
     !.freq_scale    = DVFS_FREQ_SCALE_FACTORS[DVFSLevel(temps)],
     !.voltage_scale = DVFS_VOLTAGE_SCALE_FACTORS[DVFSLevel(temps)]]

-----------------------------------------------------------------------------
(* LowPowerModePolicy *)

\* Mutant: a channel at exactly the critical temperature stays on.
HotChannelsAbove(temps) ==
  {ch \in Channels : Reaches(temps, channel_to_banks(ch), CRITICAL_TEMP_C + 1)}

HotChannels(temps) ==
  {ch \in Channels : Reaches(temps, channel_to_banks(ch), CRITICAL_TEMP_C)}

\* The channels the elif branch restores: in low-power mode in the action
\* passed in, and below the cooldown temperature now.
RestoredChannels(temps, lpm) ==
  {ch \in lpm : ~ Reaches(temps, channel_to_banks(ch), COOLDOWN_TEMP_C)}
    \ HotChannels(temps)

BanksOf(channels) == UNION {channel_to_banks(ch) : ch \in channels}

\* The loop treats every channel once and touches only that channel's banks,
\* so its iterations are one simultaneous update.
LowPowerModeEvaluate(temps, action) ==
  LET hot      == HotChannels(temps)
      restored == RestoredChannels(temps, action.lpm_channels)
  IN  [action EXCEPT
         !.lpm_channels = (@ \cup hot) \ restored,
         !.bank_active  = [b \in Banks |->
           \/ b \in BanksOf(restored)
           \/ @[b] /\ b \notin BanksOf(hot)]]

-----------------------------------------------------------------------------
(* The policies the command line builds, and the empty composite a runner  *)
(* starts with.                                                            *)

PolicyNames == {"none", "throttle", "dvfs", "lpm", "composite"}

CompositeEvaluate(temps, action) ==
  LowPowerModeEvaluate(temps,
    DVFSEvaluate(temps, ThrottlingEvaluate(temps, action)))

Evaluate(policy, temps, action) ==
  CASE policy = "none"      -> action
    [] policy = "throttle"  -> ThrottlingEvaluate(temps, action)
    [] policy = "dvfs"      -> DVFSEvaluate(temps, action)
    [] policy = "lpm"       -> LowPowerModeEvaluate(temps, action)
    [] policy = "composite" -> CompositeEvaluate(temps, action)

\* a restricts the memory at least as much as b does, knob by knob.
AtLeastAsStrict(a, b) ==
  /\ \A k \in Banks : a.throttle_factors[k] <= b.throttle_factors[k]
  /\ a.freq_scale <= b.freq_scale
  /\ a.voltage_scale <= b.voltage_scale
  /\ \A k \in Banks : a.bank_active[k] => b.bank_active[k]

=============================================================================
