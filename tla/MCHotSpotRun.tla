---------------------------- MODULE MCHotSpotRun ----------------------------
(* The stack of config/hotspot/3Dmem_16core with two memory layers of two     *)
(* banks: PCB, solder and substrate below, the logic layer, memory layers     *)
(* with a layer of interface material under each, and a sink on top.          *)
(* StackIs3Dmem holds of it.                                                  *)
EXTENDS HotSpotRun

LC(n) == <<"LC", n>>
B(n) == <<"B", n>>
TB(n) == <<"TB", n>>
LogicLayer == <<LC(0), LC(1)>>
Tim == <<TB(0), TB(1)>>
Cold(flp) == [power |-> FALSE, flp |-> flp]
Hot(flp) == [power |-> TRUE, flp |-> flp]

Stack == <<Cold(LogicLayer), Cold(LogicLayer), Cold(LogicLayer),
           Hot(LogicLayer), Cold(Tim), Hot(<<B(0), B(1)>>), Cold(Tim),
           Hot(<<B(2), B(3)>>), Cold(Tim)>>

SwappedInLayers == {<<LC(1), LC(0), B(1), B(0), B(2), B(3)>>}
PipelineOrder == {<<LC(0), LC(1), B(0), B(1), B(2), B(3)>>}
BanksFirst == {<<B(0), B(1), B(2), B(3), LC(0), LC(1)>>}
=============================================================================
