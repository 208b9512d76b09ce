--------------------------- MODULE MC_HostResolver ---------------------------
(* Instances for HostResolver: two host adapters on different networks,   *)
(* a /24 and a /8 mask, and targets on the first adapter's /24, on its /8 *)
(* only, and on the second adapter's network.  A disconnected adapter     *)
(* prints address 0.0.0.0 and mask 0.0.0.0, a mask every target matches.  *)
EXTENDS HostResolver

MCAddrs   == {<<10, 0, 0, 5>>, <<192, 168, 1, 90>>, <<0, 0, 0, 0>>}
MCMasks   == {<<255, 255, 255, 0>>, <<255, 0, 0, 0>>, <<0, 0, 0, 0>>}
MCTargets == {<<10, 0, 0, 7>>, <<10, 1, 2, 3>>, <<192, 168, 1, 20>>}
=============================================================================
