--------------------------- MODULE MCThermalPipeline ---------------------------
(***************************************************************************)
(* Small instances of ThermalPipeline with the thresholds of config.py.    *)
(* MCTemps holds a temperature in each of the two deepest throttling and   *)
(* DVFS bands (above the cooldown temperature) and the critical one; what  *)
(* is below every threshold is the ambient temperature a runner starts     *)
(* with.  MCFileTemps is enough where only the files matter.               *)
(***************************************************************************)
EXTENDS ThermalPipeline

MCThresholds == <<76, 78, 80, 82>>
MCFreq == <<100, 85, 70, 50>>
MCVolt == <<100, 95, 90, 85>>
MCTemps == {81, 83, 85}
MCCounts == {<<3, 2>>}
MCFileTemps == {90}
MCLeakage == [t \in MCTemps \cup {0, 45} |-> t + 10]
MCFileLeakage == [t \in MCFileTemps \cup {0, 45} |-> t + 10]
=============================================================================
