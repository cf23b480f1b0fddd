-------------------------- MODULE MCTunnelManager --------------------------
(* Instances of TunnelManager.  Calls are interchangeable.                 *)
EXTENDS TunnelManager, TLC

CallSymmetry == Permutations(Callers)
=============================================================================
