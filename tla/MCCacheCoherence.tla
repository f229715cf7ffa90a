-------------------------- MODULE MCCacheCoherence --------------------------
(* Instances of CacheCoherence: cores are 0, 1, 2. *)
EXTENDS CacheCoherence

(* Every core has its own last-level cache; cores 0 and 1 share the cache 0. *)
Private == [th \in Threads |-> th]
PairShares == [th \in Threads |-> IF th = 2 THEN 2 ELSE 0]
All(addrs) == [th \in Threads |-> addrs]
(* Two threads with one address in common, out of three. *)
TwoEach == [th \in Threads |-> CASE th = 0 -> {"x", "y"} [] th = 1 -> {"y", "z"} [] OTHER -> {}]

Shared == [protocol |-> "mesi", dirWays |-> 1, maxHwSharers |-> 2,
           llcOf |-> PairShares, cacheWays |-> 1, uses |-> All({"x"})]
Limited == [protocol |-> "msi", dirWays |-> 1, maxHwSharers |-> 2,
            llcOf |-> Private, cacheWays |-> 1, uses |-> All({"x"})]
Forwarding == [protocol |-> "mesif", dirWays |-> 1, maxHwSharers |-> 3,
               llcOf |-> Private, cacheWays |-> 1, uses |-> All({"x"})]
Evicting == [protocol |-> "mesi", dirWays |-> 2, maxHwSharers |-> 2,
             llcOf |-> [Private EXCEPT ![2] = 1], cacheWays |-> 1, uses |-> TwoEach]
(* Room for everything: two caches, two lines. *)
Roomiest == [protocol |-> "mesi", dirWays |-> 2, maxHwSharers |-> 2,
             llcOf |-> [Private EXCEPT ![2] = 1], cacheWays |-> 2,
             uses |-> [TwoEach EXCEPT ![1] = {"x"}]]
FullMap == [protocol |-> "mesi", dirWays |-> 1, maxHwSharers |-> 3,
            llcOf |-> Private, cacheWays |-> 1, uses |-> All({"x"})]

AllSystems == {Shared, Limited, Forwarding, Evicting, Roomiest}
OneSystem == {FullMap}
=============================================================================
